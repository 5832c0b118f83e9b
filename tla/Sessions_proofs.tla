---------------------------- MODULE Sessions_proofs ----------------------------
(***************************************************************************)
(* Proofs about Sessions for any number of requests at one time, tokens,    *)
(* logins and ticks, and any lives of the tokens.                          *)
(***************************************************************************)
EXTENDS Sessions, FiniteSetTheorems, TLAPS

\* What is assumed of the constants.
Parameters == MaxTokens \in Nat /\ MaxTime \in Nat /\ AccessTTL \in Nat

\* A call is in the middle of the exchange of t.
Exchanging(c, t) == token[c] = t /\ pc[c] \in Rotating

\* What makes ExchangedOnceUnlessOverlap inductive: as long as no two calls
\* found t live, the row is a lock.  One call exchanges it; it is revoked before
\* the new pair is made; and once there is a pair nobody exchanges it again.
RowIsLock ==
    \A t \in Tokens \ overlapped :
        /\ \A c, d \in Calls : Exchanging(c, t) /\ Exchanging(d, t) => c = d
        /\ \A c \in Calls : Exchanging(c, t) /\ pc[c] # "revoke" => row[t] = "revoked"
        /\ \A u \in Tokens : parent[u] = t => row[t] = "revoked" /\ \A c \in Calls : ~ Exchanging(c, t)
        /\ \A u, v \in Tokens : parent[u] = t /\ parent[v] = t => u = v

\* A call holds a token that is in the table.
TokensExist == \A c \in Calls : token[c] # 0 => row[token[c]] # "absent"

\* At each of these places a call has a token.
TokensHeld ==
    \A c \in Calls : pc[c] \in {"find", "revoke", "purge", "exists", "logout", "blacklist"} => token[c] # 0

Typed == TypeOK /\ TokensHeld

\* What makes ReuseEndsTheFamily inductive: whoever exchanges a token of the
\* family that was purged was past its check then.
NoneEscapesUnseen ==
    /\ \A t \in purged : row[t] # "absent"
    /\ \A c \in Calls : token[c] \in purged /\ pc[c] \in Rotating => c \in escaping

\* What makes LoggedOutIsRefused hold: the entry outlives the token.
EntryOutlivesToken ==
    \A t \in loggedOut :
        /\ row[t] # "absent"
        /\ until[t] >= born[t] + AccessTTL \/ now >= born[t] + AccessTTL

-------------------------------------------------------------------------------

LEMMA TokensAreNumbers == ASSUME Parameters PROVE 0 \notin Tokens /\ 0 .. MaxTokens = Tokens \cup {0}
BY DEF Parameters, Tokens

LEMMA AlwaysTyped == ASSUME Parameters PROVE Spec => []Typed
<1> USE TokensAreNumbers DEF Parameters, Typed, TypeOK, TokensHeld, Rotating
<1>1. Init => Typed
  BY DEF Init
<1>2. Typed /\ [Next]_vars => Typed'
  <2> SUFFICES ASSUME Typed, [Next]_vars PROVE Typed'
    OBVIOUS
  <2> USE DEF Goto, End, Begin, store, history
  <2>1. ASSUME NEW c \in Calls, Login(c) PROVE Typed'
    BY <2>1 DEF Login
  <2>2. ASSUME NEW c \in Calls, NEW t \in Tokens, Refresh(c, t) PROVE Typed'
    BY <2>2 DEF Refresh
  <2>3. ASSUME NEW c \in Calls, NEW t \in Tokens, Guarded(c, t) PROVE Typed'
    BY <2>3 DEF Guarded, JwtValid
  <2>4. ASSUME NEW c \in Calls, Exists(c) PROVE Typed'
    BY <2>4 DEF Exists, Admit, Blacklisted
  <2>5. ASSUME NEW c \in Calls, FindToken(c) PROVE Typed'
    <3>1. overlapped' \subseteq Tokens
      <4>1. token[c] \in Tokens
        BY <2>5 DEF FindToken
      <4> QED
        BY <2>5, <4>1 DEF FindToken
    <3>2. escaping' \subseteq Calls
      BY <2>5 DEF FindToken
    <3> QED
      BY <2>5, <3>1, <3>2 DEF FindToken
  <2>6. ASSUME NEW c \in Calls, Purge(c) PROVE Typed'
    BY <2>6 DEF Purge
  <2>7. ASSUME NEW c \in Calls, Revoke(c) PROVE Typed'
    BY <2>7 DEF Revoke
  <2>8. ASSUME NEW c \in Calls, CheckAccount(c) PROVE Typed'
    BY <2>8 DEF CheckAccount
  <2>9. ASSUME NEW c \in Calls, SaveToken(c) PROVE Typed'
    BY <2>9 DEF SaveToken
  <2>10. ASSUME NEW c \in Calls, RevokeAtLogout(c) PROVE Typed'
    BY <2>10 DEF RevokeAtLogout
  <2>11. ASSUME NEW c \in Calls, Blacklist(c) PROVE Typed'
    <3>1. token[c] \in Tokens => Remaining(token[c]) \in Nat
      BY DEF Remaining
    <3>2. until' \in [Tokens -> Nat]
      BY <2>11, <3>1 DEF Blacklist, Ban
    <3>3. loggedOut' \subseteq Tokens
      <4>1. token[c] \in Tokens
        BY <2>11 DEF Blacklist, Ban
      <4> QED
        BY <2>11, <4>1 DEF Blacklist, Ban
    <3> QED
      BY <2>11, <3>2, <3>3 DEF Blacklist, Ban
  <2>12. CASE Tick
    BY <2>12 DEF Tick
  <2>13. CASE Crash
    BY <2>13 DEF Crash
  <2>14. CASE UNCHANGED vars
    BY <2>14 DEF vars
  <2> QED
    BY <2>1, <2>2, <2>3, <2>4, <2>5, <2>6, <2>7, <2>8, <2>9, <2>10, <2>11, <2>12, <2>13, <2>14
       DEF Next, Step
<1> QED
  BY <1>1, <1>2, PTL DEF Spec

\* Every variable keeps its type: in particular no more rows are made than
\* there are tokens, and the expiry in Redis is never negative.
THEOREM TypeCorrect == ASSUME Parameters PROVE Spec => []TypeOK
<1>1. Typed => TypeOK
  BY DEF Typed
<1> QED
  BY <1>1, AlwaysTyped, PTL

-------------------------------------------------------------------------------

\* A row that is there stays, and stays revoked.
LEMMA RowsOnlyAge ==
  ASSUME Parameters, Typed, [Next]_vars
  PROVE  \A t \in Tokens : /\ row[t] # "absent" => row'[t] # "absent"
                           /\ row[t] = "revoked" => row'[t] = "revoked"
<1> USE DEF Typed, TypeOK, store, history
<1>1. ASSUME NEW c \in Calls, Purge(c) \/ Revoke(c) \/ SaveToken(c) \/ RevokeAtLogout(c)
      PROVE  \A t \in Tokens : /\ row[t] # "absent" => row'[t] # "absent"
                               /\ row[t] = "revoked" => row'[t] = "revoked"
  BY <1>1, TokensAreNumbers DEF Purge, Revoke, SaveToken, RevokeAtLogout
<1>2. CASE UNCHANGED row
  BY <1>2
<1> QED
  BY <1>1, <1>2 DEF Next, Step, Login, Refresh, Guarded, Exists, FindToken, CheckAccount, Blacklist, Ban, Tick, Crash, vars

\* Who has a token got it from the table.
LEMMA AlwaysTokensExist == ASSUME Parameters PROVE Spec => []TokensExist
<1>1. Init => TokensExist
  BY DEF Init, TokensExist
<1>2. Typed /\ TokensExist /\ [Next]_vars => TokensExist'
  <2> SUFFICES ASSUME Typed, TokensExist, [Next]_vars, NEW d \in Calls, token'[d] # 0
               PROVE  row'[token'[d]] # "absent"
    BY DEF TokensExist
  <2> USE DEF Typed, TypeOK
  <2>1. CASE token'[d] = token[d]
    BY <2>1, RowsOnlyAge, TokensAreNumbers DEF TokensExist
  <2>2. ASSUME token'[d] # token[d]
        PROVE  \E t \in Tokens : (Refresh(d, t) \/ Guarded(d, t)) /\ token'[d] = t
    BY <2>2, TokensAreNumbers
       DEF Next, Step, Login, Refresh, Guarded, Exists, Admit, FindToken, Purge, Revoke, CheckAccount, SaveToken,
           RevokeAtLogout, Blacklist, Ban, Tick, Crash, vars, history, store, Begin, End, Goto
  <2> QED
    BY <2>1, <2>2, RowsOnlyAge DEF Refresh, Guarded
<1> QED
  BY <1>1, <1>2, AlwaysTyped, PTL DEF Spec

-------------------------------------------------------------------------------

\* A step that begins no exchange and makes no pair leaves the lock alone.
LEMMA QuietStep ==
  ASSUME RowIsLock, parent' = parent, overlapped \subseteq overlapped',
         \A t \in Tokens : row[t] = "revoked" => row'[t] = "revoked",
         \A d \in Calls, t \in Tokens :
             Exchanging(d, t)' => Exchanging(d, t) /\ (pc'[d] # "revoke" => pc[d] # "revoke" \/ row'[t] = "revoked")
  PROVE  RowIsLock'
BY DEF RowIsLock

\* FindToken finds the token live: nobody else is past the check, or they overlap.
LEMMA LockTaken ==
  ASSUME Typed, RowIsLock, NEW c \in Calls, FindToken(c), pc'[c] = "revoke"
  PROVE  RowIsLock'
<1> USE DEF Typed, TypeOK
<1>1. /\ row[token[c]] = "live" /\ pc[c] = "find" /\ token' = token /\ row' = row /\ parent' = parent
      /\ pc' = [pc EXCEPT ![c] = "revoke"]
      /\ overlapped' = overlapped \cup {t \in {token[c]} : \E d \in Calls \ {c} : pc[d] = "revoke" /\ token[d] = t}
  BY DEF FindToken, Goto, End, store
<1>2. ASSUME NEW t \in Tokens \ overlapped', NEW d \in Calls, Exchanging(d, t)'
      PROVE  (d = c /\ token[c] = t) \/ Exchanging(d, t)
  BY <1>1, <1>2 DEF Exchanging
<1>3. ASSUME NEW d \in Calls \ {c}, token[c] \notin overlapped', Exchanging(d, token[c]), token[c] \in Tokens
      PROVE  FALSE
  <2>1. pc[d] # "revoke"
    BY <1>1, <1>3 DEF Exchanging
  <2> QED
    BY <1>1, <1>3, <2>1 DEF RowIsLock
<1>4. SUFFICES ASSUME NEW t \in Tokens \ overlapped' 
               PROVE  /\ \A b, d \in Calls : Exchanging(b, t)' /\ Exchanging(d, t)' => b = d
                      /\ \A d \in Calls : Exchanging(d, t)' /\ pc'[d] # "revoke" => row'[t] = "revoked"
                      /\ \A u \in Tokens : parent'[u] = t => row'[t] = "revoked" /\ \A d \in Calls : ~ Exchanging(d, t)'
                      /\ \A u, v \in Tokens : parent'[u] = t /\ parent'[v] = t => u = v
  BY DEF RowIsLock
<1>5. t \in Tokens \ overlapped
  BY <1>1
<1>6. CASE token[c] = t
  <2>1. \A d \in Calls : Exchanging(d, t)' => d = c
    BY <1>2, <1>3, <1>6
  <2>2. \A u \in Tokens : parent[u] # t
    BY <1>1, <1>5, <1>6 DEF RowIsLock
  <2> QED
    BY <1>1, <2>1, <2>2
<1>7. CASE token[c] # t
  <2>1. \A d \in Calls : Exchanging(d, t)' => Exchanging(d, t) /\ d # c
    BY <1>1, <1>7 DEF Exchanging, Rotating
  <2>2. \A d \in Calls \ {c} : pc'[d] = pc[d]
    BY <1>1
  <2> QED
    BY <1>1, <1>5, <2>1, <2>2 DEF RowIsLock
<1> QED
  BY <1>6, <1>7

\* SaveToken makes the pair and gives the lock up; the row stays revoked.
LEMMA LockGivenUp ==
  ASSUME Typed, RowIsLock, TokensExist, NEW c \in Calls, SaveToken(c)
  PROVE  RowIsLock'
<1> USE DEF Typed, TypeOK
<1>1. PICK n \in Tokens : /\ row[n] = "absent" /\ row' = [row EXCEPT ![n] = "live"]
                          /\ parent' = [parent EXCEPT ![n] = token[c]]
  BY DEF SaveToken
<1>2. /\ pc[c] = "save" /\ pc' = [pc EXCEPT ![c] = "idle"] /\ token' = [token EXCEPT ![c] = 0]
      /\ overlapped' = overlapped
  BY DEF SaveToken, End, Goto
<1>3. ASSUME NEW t \in Tokens, NEW d \in Calls, Exchanging(d, t)'
      PROVE  Exchanging(d, t) /\ d # c /\ pc'[d] = pc[d]
  BY <1>2, <1>3 DEF Exchanging, Rotating
<1>4. \A t \in Tokens : row[t] = "revoked" => row'[t] = "revoked"
  BY <1>1
<1>5. SUFFICES ASSUME NEW t \in Tokens \ overlapped
               PROVE  /\ \A b, d \in Calls : Exchanging(b, t)' /\ Exchanging(d, t)' => b = d
                      /\ \A d \in Calls : Exchanging(d, t)' /\ pc'[d] # "revoke" => row'[t] = "revoked"
                      /\ \A u \in Tokens : parent'[u] = t => row'[t] = "revoked" /\ \A d \in Calls : ~ Exchanging(d, t)'
                      /\ \A u, v \in Tokens : parent'[u] = t /\ parent'[v] = t => u = v
  BY <1>2 DEF RowIsLock
<1>6. CASE token[c] = t
  <2>1. Exchanging(c, t) /\ row'[t] = "revoked"
    BY <1>2, <1>4, <1>5, <1>6 DEF RowIsLock, Exchanging, Rotating
  <2>2. \A d \in Calls : ~ Exchanging(d, t)'
    BY <1>3, <1>5, <2>1 DEF RowIsLock
  <2>3. \A u \in Tokens : parent'[u] = t => u = n
    BY <1>1, <1>5, <2>1 DEF RowIsLock
  <2> QED
    BY <2>1, <2>2, <2>3
<1>7. CASE token[c] # t
  <2>1. \A u \in Tokens : parent'[u] = t => parent[u] = t
    BY <1>1, <1>7
  <2> QED
    BY <1>3, <1>4, <1>5, <2>1 DEF RowIsLock
<1> QED
  BY <1>6, <1>7

LEMMA AlwaysLock == ASSUME Parameters PROVE Spec => []RowIsLock
<1>1. Init => RowIsLock
  BY TokensAreNumbers DEF Init, RowIsLock, Exchanging, Rotating
<1>2. Typed /\ TokensExist /\ RowIsLock /\ [Next]_vars => RowIsLock'
  <2> SUFFICES ASSUME Typed, TokensExist, RowIsLock, [Next]_vars PROVE RowIsLock'
    OBVIOUS
  <2>1. ASSUME NEW c \in Calls, SaveToken(c) PROVE RowIsLock'
    BY <2>1, LockGivenUp
  <2>2. ASSUME NEW c \in Calls, FindToken(c), pc'[c] = "revoke" PROVE RowIsLock'
    BY <2>2, LockTaken
  <2>3. ASSUME ~ \E c \in Calls : SaveToken(c) \/ (FindToken(c) /\ pc'[c] = "revoke")
        PROVE  RowIsLock'
    <3> USE DEF Typed, TypeOK
    <3>1. parent' = parent /\ overlapped \subseteq overlapped'
      BY <2>3 DEF Next, Step, Login, Refresh, Guarded, Exists, FindToken, Purge, Revoke, CheckAccount, RevokeAtLogout,
                  Blacklist, Ban, Tick, Crash, vars, history, store
    <3>2. ASSUME NEW d \in Calls, NEW t \in Tokens, Exchanging(d, t)'
          PROVE  Exchanging(d, t) /\ (pc'[d] # "revoke" => pc[d] # "revoke" \/ row'[t] = "revoked")
      <4>1. token'[d] = t /\ pc'[d] \in Rotating
        BY <3>2 DEF Exchanging
      <4>2. CASE \E c \in Calls : Revoke(c)
        BY <4>1, <4>2, TokensAreNumbers DEF Revoke, Goto, Exchanging, Rotating, history
      <4>3. CASE \E c \in Calls : CheckAccount(c)
        BY <4>1, <4>3, TokensAreNumbers DEF CheckAccount, Goto, End, Exchanging, Rotating
      <4>4. CASE \E c \in Calls : FindToken(c) \/ Purge(c) \/ Exists(c)
        BY <2>3, <4>1, <4>4, TokensAreNumbers DEF FindToken, Purge, Exists, Admit, Goto, End, Exchanging, Rotating
      <4>5. CASE \E c \in Calls : Blacklist(c) \/ RevokeAtLogout(c)
        BY <4>1, <4>5, TokensAreNumbers DEF Blacklist, Ban, RevokeAtLogout, Goto, End, Exchanging, Rotating
      <4>6. CASE \E c \in Calls, u \in Tokens : Login(c) \/ Refresh(c, u) \/ Guarded(c, u)
        BY <4>1, <4>6, TokensAreNumbers DEF Login, Refresh, Guarded, Begin, Goto, Exchanging, Rotating
      <4>7. CASE Tick \/ Crash \/ UNCHANGED vars
        BY <4>1, <4>7 DEF Tick, Crash, vars, Exchanging, Rotating
      <4> QED
        BY <2>3, <4>2, <4>3, <4>4, <4>5, <4>6, <4>7 DEF Next, Step
    <3> QED
      BY <3>1, <3>2, RowsOnlyAge, QuietStep
  <2> QED
    BY <2>1, <2>2, <2>3
<1> QED
  BY <1>1, <1>2, AlwaysTyped, AlwaysTokensExist, PTL DEF Spec

LEMMA ExchangedOnce == Typed /\ RowIsLock => ExchangedOnceUnlessOverlap
<1> SUFFICES ASSUME Typed, RowIsLock, NEW t \in Tokens \ overlapped
             PROVE  Cardinality({u \in Tokens : parent[u] = t}) <= 1
  BY DEF ExchangedOnceUnlessOverlap
<1>1. CASE \A u \in Tokens : parent[u] # t
  <2>1. {u \in Tokens : parent[u] = t} = {}
    BY <1>1
  <2> QED
    BY <2>1, FS_EmptySet
<1>2. CASE \E u \in Tokens : parent[u] = t
  <2>1. PICK v \in Tokens : parent[v] = t
    BY <1>2
  <2>2. {u \in Tokens : parent[u] = t} = {v}
    BY <2>1 DEF RowIsLock
  <2>3. Cardinality({v}) = 1
    BY FS_Singleton
  <2> QED
    BY <2>2, <2>3
<1> QED
  BY <1>1, <1>2

-------------------------------------------------------------------------------

\* The family that was purged, and those who were past their check.
Family == NoneEscapesUnseen /\ ReuseEndsTheFamily

LEMMA AlwaysFamily == ASSUME Parameters PROVE Spec => []Family
<1>1. Init => Family
  BY DEF Init, Family, NoneEscapesUnseen, ReuseEndsTheFamily
<1>2. Typed /\ TokensExist /\ Family /\ [Next]_vars => Family'
  <2> SUFFICES ASSUME Typed, TokensExist, Family, [Next]_vars PROVE Family'
    OBVIOUS
  <2> USE TokensAreNumbers DEF Typed, TypeOK, Family, NoneEscapesUnseen, ReuseEndsTheFamily, Rotating
  <2>1. ASSUME NEW c \in Calls, Purge(c) PROVE Family'
    BY <2>1 DEF Purge, Goto
  <2>2. ASSUME NEW c \in Calls, SaveToken(c) PROVE Family'
    <3>1. PICK n \in Tokens :
              /\ row[n] = "absent" /\ row' = [row EXCEPT ![n] = "live"]
              /\ parent' = [parent EXCEPT ![n] = token[c]]
              /\ spared' = IF c \in escaping THEN spared \cup {n} ELSE spared
      BY <2>2 DEF SaveToken
    <3>2. /\ pc[c] = "save" /\ pc' = [pc EXCEPT ![c] = "idle"] /\ token' = [token EXCEPT ![c] = 0]
          /\ escaping' = escaping \ {c} /\ purged' = purged
      BY <2>2 DEF SaveToken, End, Goto
    <3>3. NoneEscapesUnseen'
      BY <3>1, <3>2
    <3>4. ASSUME NEW t \in Tokens, row'[t] = "live"
          PROVE  t \notin purged /\ (parent'[t] \in purged => t \in spared')
      BY <3>1, <3>2, <3>4
    <3> QED
      BY <3>2, <3>3, <3>4
  <2>3. ASSUME NEW c \in Calls, FindToken(c) PROVE Family'
    BY <2>3 DEF FindToken, Goto, End, store
  <2>4. ASSUME NEW c \in Calls, Revoke(c) \/ RevokeAtLogout(c) PROVE Family'
    BY <2>4 DEF Revoke, RevokeAtLogout, Goto, history
  <2>5. ASSUME NEW c \in Calls, CheckAccount(c) \/ Exists(c) PROVE Family'
    BY <2>5 DEF CheckAccount, Exists, Admit, Goto, End, store
  <2>6. ASSUME NEW c \in Calls, Blacklist(c) PROVE Family'
    BY <2>6 DEF Blacklist, Ban, Goto, End
  <2>7. ASSUME NEW c \in Calls, Login(c) \/ \E t \in Tokens : Refresh(c, t) \/ Guarded(c, t) PROVE Family'
    BY <2>7 DEF Login, Refresh, Guarded, Begin, Goto, store, history
  <2>8. CASE Tick \/ Crash \/ UNCHANGED vars
    BY <2>8 DEF Tick, Crash, vars, store, history
  <2> HIDE DEF Typed, TypeOK, Family, NoneEscapesUnseen, ReuseEndsTheFamily
  <2>9. CASE \E c \in Calls, t \in Tokens : Refresh(c, t) \/ Guarded(c, t)
    BY <2>7, <2>9
  <2>10. CASE \E c \in Calls : Step(c)
    BY <2>1, <2>2, <2>3, <2>4, <2>5, <2>6, <2>10 DEF Step
  <2> QED
    BY <2>7, <2>8, <2>9, <2>10 DEF Next
<1> QED
  BY <1>1, <1>2, AlwaysTyped, AlwaysTokensExist, PTL DEF Spec

\* A refresh token is exchanged for one pair unless two rotations found it live,
\* and a detected reuse is the end of everything that was in the table but for
\* what rotations past their check make of it (AuthService.refresh).
THEOREM Rotation == ASSUME Parameters PROVE Spec => []RotationIsSafe
<1>1. Typed /\ RowIsLock /\ Family => RotationIsSafe
  BY ExchangedOnce DEF RotationIsSafe, Family
<1> QED
  BY <1>1, AlwaysTyped, AlwaysLock, AlwaysFamily, PTL

-------------------------------------------------------------------------------

LEMMA AlwaysOutlives == ASSUME Parameters PROVE Spec => []EntryOutlivesToken
<1>1. Init => EntryOutlivesToken
  BY DEF Init, EntryOutlivesToken
<1>2. Typed /\ TokensExist /\ EntryOutlivesToken /\ [Next]_vars => EntryOutlivesToken'
  <2> SUFFICES ASSUME Typed, TokensExist, EntryOutlivesToken, [Next]_vars, NEW t \in loggedOut'
               PROVE  /\ row'[t] # "absent"
                      /\ until'[t] >= born'[t] + AccessTTL \/ now' >= born'[t] + AccessTTL
    BY DEF EntryOutlivesToken
  <2> USE TokensAreNumbers DEF Parameters, Typed, TypeOK
  <2>1. ASSUME NEW c \in Calls, Blacklist(c), token[c] = t
        PROVE  until'[t] >= born'[t] + AccessTTL \/ now' >= born'[t] + AccessTTL
    BY <2>1 DEF Blacklist, Ban, Remaining, TokensHeld, EntryOutlivesToken
  <2>2. ASSUME NEW c \in Calls, Blacklist(c), token[c] # t
        PROVE  /\ t \in loggedOut /\ now' = now
               /\ until'[t] = until[t] /\ born'[t] = born[t]
    BY <2>2 DEF Blacklist, Ban
  <2>3. ASSUME ~ \E c \in Calls : Blacklist(c)
        PROVE  t \in loggedOut /\ until' = until
    BY <2>3 DEF Next, Step, Login, Refresh, Guarded, Exists, FindToken, Purge, Revoke, CheckAccount, SaveToken,
                RevokeAtLogout, Tick, Crash, vars, store, history
  <2>4. now' >= now /\ now' \in Int
    BY DEF Next, Step, Login, Refresh, Guarded, Exists, FindToken, Purge, Revoke, CheckAccount, SaveToken,
           RevokeAtLogout, Blacklist, Ban, Tick, Crash, vars, store, history
  <2>5. row[t] # "absent" => born'[t] = born[t]
    BY DEF Next, Step, Login, Refresh, Guarded, Exists, FindToken, Purge, Revoke, CheckAccount, SaveToken,
           RevokeAtLogout, Blacklist, Ban, Tick, Crash, vars, store, history
  <2>6. row[t] # "absent"
    BY <2>1, <2>2, <2>3 DEF EntryOutlivesToken, TokensExist, TokensHeld, Blacklist, Ban
  <2>7. t \in Tokens /\ row'[t] # "absent"
    <3>1. CASE \E c \in Calls : Blacklist(c) /\ token[c] = t
      BY <3>1, <2>6, RowsOnlyAge DEF TokensHeld, Blacklist, Ban
    <3>2. CASE t \in loggedOut
      BY <3>2, <2>6, RowsOnlyAge
    <3> QED
      BY <3>1, <3>2, <2>2, <2>3
  <2>8. CASE \E c \in Calls : Blacklist(c) /\ token[c] = t
    BY <2>1, <2>7, <2>8
  <2>9. CASE t \in loggedOut /\ until'[t] = until[t]
    <3>1. born'[t] = born[t] /\ born[t] \in Nat /\ until[t] \in Nat /\ now \in Nat /\ now' \in Int
      BY <2>4, <2>5, <2>6, <2>7
    <3> QED
      BY <2>4, <2>7, <2>9, <3>1 DEF EntryOutlivesToken
  <2> QED
    BY <2>2, <2>3, <2>8, <2>9
<1> QED
  BY <1>1, <1>2, AlwaysTyped, AlwaysTokensExist, PTL DEF Spec

\* A token that was logged out while Redis answered is refused for the rest of
\* its life (TokenBlacklistService; the guard in front of every handler).
THEOREM LogoutHolds == ASSUME Parameters PROVE Spec => LoggedOutIsRefused
<1>1. Typed /\ EntryOutlivesToken /\ [Next]_vars
        => [\A c \in Calls : Admitted(c) /\ token[c] \in loggedOut => now >= born[token[c]] + AccessTTL]_vars
  <2> SUFFICES ASSUME Typed, EntryOutlivesToken, NEW c \in Calls, Admitted(c), token[c] \in loggedOut
               PROVE  now >= born[token[c]] + AccessTTL
    OBVIOUS
  <2>1. now >= until[token[c]]
    BY DEF Admitted, Blacklisted, Typed, TypeOK
  <2> QED
    BY <2>1 DEF Parameters, EntryOutlivesToken, Typed, TypeOK
<1> QED
  BY <1>1, AlwaysTyped, AlwaysOutlives, PTL DEF Spec, LoggedOutIsRefused
===============================================================================
