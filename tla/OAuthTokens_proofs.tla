------------------------- MODULE OAuthTokens_proofs -------------------------
(***************************************************************************)
(* Theorems about OAuthTokens, for any calls, replicas and bounds.         *)
(***************************************************************************)
EXTENDS OAuthTokens, TLAPS

\* No token is known before it was issued.
TokensOfThePast ==
    /\ row.access <= issued
    /\ \A r \in Replicas : cache[r] <= issued
    /\ \A c \in Calls : call[c].token <= issued /\ call[c].first <= issued

\* Only the absent row has no number, and no token.
RowShape ==
    row = NoRow \/ (row.id # 0 /\ row.access # 0)

\* A call has a token from the grant, or from the fetch, on; what is refreshed is a row.
CallShape ==
    \A c \in Calls :
        /\ call[c].at \in {"granted", "calling", "refused"} => call[c].token # 0
        /\ c \in Refreshing => call[c].loaded.id # 0

\* A token that is granted and not stored yet is in nobody else's hands.
GrantIsFresh ==
    \A c \in Calls : At(c, "granted") =>
        /\ row.access # call[c].token
        /\ \A r \in Replicas : cache[r] # call[c].token
        /\ \A d \in Calls : call[d].first # call[c].token
        /\ \A d \in Calls \ {c} :
              call[d].at \in {"granted", "calling", "refused"} => call[d].token # call[c].token

\* After a 401 the refused token is flagged, or is no longer the stored one.
RefusedIsOut ==
    \A c \in Calls : call[c].try = 2 /\ At(c, "fetch") =>
        /\ call[c].first # 0
        /\ provider = "user" => replicaOf[c] \in flagged \/ row.access # call[c].first
        /\ provider = "service" => cache[replicaOf[c]] # call[c].first

\* While nothing is overtaken or lost one refresh runs at a time, of the row that is
\* there, and either the row's refresh token or the one granted for it is good.
OneRenewal ==
    ~upset =>
        /\ \A c, d \in Refreshing : c = d
        /\ \A c \in Refreshing :
              \/ row = NoRow
              \/ row.id = call[c].loaded.id /\ row.refresh = call[c].loaded.refresh
        /\ \A c \in Refreshing :
              At(c, "granted") => call[c].renew \in renewable \cup revoked
        /\ row.refresh # 0 /\ (\A c \in Refreshing : At(c, "asking"))
              => row.refresh \in renewable \cup revoked

Safety == /\ TokensOfThePast /\ RowShape /\ CallShape /\ SingleFlight
          /\ GrantIsFresh /\ RefusedIsOut /\ RetryUsesAnotherToken /\ OneRenewal

IInv == TypeOK /\ Safety

-----------------------------------------------------------------------------
LEMMA Typical == NoRow \in Row /\ NewCall \in Call /\ NewCall.at = "fetch"
<1>1. 0 \in 0 .. MaxGrants
  BY TokensAssumption DEF TokensAssumption
<1>2. QED
  BY <1>1 DEF NoRow, Row, NewCall, Call

LEMMA InitIInv == Init => IInv
<1> SUFFICES ASSUME Init PROVE IInv
  OBVIOUS
<1>1. 0 \in 0 .. MaxGrants
  BY TokensAssumption DEF TokensAssumption
<1>2. TypeOK
  BY <1>1, Typical DEF Init, TypeOK
<1>3. Safety
  BY DEF Init, NewCall, NoRow, At, Refreshing, Asking, Safety, TokensOfThePast, RowShape,
     CallShape, SingleFlight, GrantIsFresh, RefusedIsOut, RetryUsesAnotherToken, OneRenewal
<1>4. QED
  BY <1>2, <1>3 DEF IInv

\* What a step does to one call.
LEMMA CallMoves ==
  ASSUME TypeOK, NEW c \in Calls, NEW next \in Call, call' = [call EXCEPT ![c] = next]
  PROVE  /\ call' \in [Calls -> Call]
         /\ call'[c] = next
         /\ \A d \in Calls \ {c} : call'[d] = call[d]
  BY DEF TypeOK

LEMMA Ended ==
  ASSUME TypeOK, NEW c \in Calls, NEW p \in {"reauthorise", "ended"}, Ends(c, p)
  PROVE  /\ call' \in [Calls -> Call]
         /\ call'[c].at = p /\ call'[c].try = 1
         /\ call'[c].token = 0 /\ call'[c].first = 0
         /\ \A d \in Calls \ {c} : call'[d] = call[d]
<1> DEFINE next == [NewCall EXCEPT !.at = p]
<1>1. 0 \in 0 .. MaxGrants
  BY TokensAssumption DEF TokensAssumption
<1>2. next \in Call /\ next.at = p /\ next.try = 1 /\ next.token = 0 /\ next.first = 0
  BY <1>1, Typical DEF NewCall, Call
<1>3. call' = [call EXCEPT ![c] = next]
  BY DEF Ends
<1> HIDE DEF next
<1>4. QED
  BY <1>2, <1>3, CallMoves

LEMMA Sent ==
  ASSUME TypeOK, NEW c \in Calls, NEW t \in 0 .. MaxGrants, Sends(c, t)
  PROVE  /\ call' \in [Calls -> Call]
         /\ call'[c].at = "calling" /\ call'[c].token = t
         /\ call'[c].try = call[c].try /\ call'[c].first = call[c].first
         /\ \A d \in Calls \ {c} : call'[d] = call[d]
<1> DEFINE next == [call[c] EXCEPT !.at = "calling", !.token = t]
<1>1. call \in [Calls -> Call] /\ call[c] \in Call
  BY DEF TypeOK
<1>2. /\ next \in Call /\ next.at = "calling" /\ next.token = t
      /\ next.try = call[c].try /\ next.first = call[c].first
  BY <1>1 DEF Call
<1>3. call' = [call EXCEPT ![c] = next]
  BY <1>1 DEF Sends
<1> HIDE DEF next
<1>4. QED
  BY <1>2, <1>3, CallMoves

-----------------------------------------------------------------------------
(* fetch_token *)

\* A call ends without a token, or goes on with one that it may use, and takes no lock.
LEMMA HandOver ==
  ASSUME IInv, NEW c \in Calls, NEW t \in Nat,
         At(c, "fetch") \/ At(c, "calling"),
         UNCHANGED <<setting, row, flagged, cache, lock, server, revoked, upset>>,
         call' \in [Calls -> Call],
         \A d \in Calls \ {c} : call'[d] = call[d],
         \/ call'[c].at \in {"reauthorise", "ended"} /\ call'[c].token = 0 /\ call'[c].first = 0
            /\ call'[c].try = 1
         \/ /\ call'[c].at \in {"calling", "refused"} /\ call'[c].token = t
            /\ call'[c].try = call[c].try /\ call'[c].first = call[c].first
            /\ t # 0 /\ t <= issued
            /\ call'[c].at = "calling" /\ call[c].try = 2 => t # call[c].first
            /\ \A d \in Calls \ {c} : At(d, "granted") => call[d].token # t
  PROVE  IInv'
<1> USE DEF setting, server
<1>1. TypeOK'
  BY DEF IInv, TypeOK
<1>2. Refreshing' = Refreshing /\ c \notin Refreshing
  BY DEF Refreshing, At
<1>3. TokensOfThePast' /\ RowShape'
  BY DEF IInv, TypeOK, Safety, TokensOfThePast, RowShape
<1>4. CallShape' /\ SingleFlight'
  BY <1>2 DEF IInv, Safety, CallShape, SingleFlight, Asking, Refreshing
<1>5. GrantIsFresh'
  BY DEF IInv, Safety, GrantIsFresh, CallShape, At
<1>6. RefusedIsOut' /\ RetryUsesAnotherToken'
  BY DEF IInv, Safety, RefusedIsOut, RetryUsesAnotherToken, At
<1>7. OneRenewal'
  BY <1>2 DEF IInv, Safety, OneRenewal, At, Refreshing
<1>8. QED
  BY <1>1, <1>3, <1>4, <1>5, <1>6, <1>7 DEF IInv, Safety

\* The lock is taken to ask the authorization server.
LEMMA AsksStep ==
  ASSUME IInv, NEW c \in Calls, At(c, "fetch"), Free(c), Hold(c),
         UNCHANGED <<setting, row, flagged, cache, server, revoked>>,
         call' \in [Calls -> Call],
         \A d \in Calls \ {c} : call'[d] = call[d],
         /\ call'[c].at = "asking" /\ call'[c].token = call[c].token
         /\ call'[c].try = call[c].try /\ call'[c].first = call[c].first,
         upset \in BOOLEAN, upset' \in BOOLEAN,
         provider = "user" => /\ row # NoRow
                              /\ call'[c].loaded = row
                              /\ upset' = (upset \/ \E d \in Refreshing : replicaOf[d] # replicaOf[c]),
         provider = "service" => upset' = upset
  PROVE  IInv'
<1> USE DEF setting, server
<1>0. replicaOf[c] \in Replicas /\ provider \in {"user", "service"}
  BY DEF IInv, TypeOK
<1>1. TypeOK'
  BY <1>0 DEF IInv, TypeOK, Hold
<1>2. /\ lock'[replicaOf[c]] = c
      /\ \A r \in Replicas \ {replicaOf[c]} : lock'[r] = lock[r]
      /\ Asking(replicaOf[c]) = {}
  BY <1>0, TokensAssumption
  DEF IInv, TypeOK, Safety, SingleFlight, Hold, Free, Asking, TokensAssumption
<1>3. TokensOfThePast' /\ RowShape'
  BY DEF IInv, Safety, TokensOfThePast, RowShape
<1>4. CallShape'
  BY DEF IInv, Safety, CallShape, RowShape, Refreshing
<1>5. SingleFlight'
  BY <1>0, <1>2 DEF IInv, Safety, SingleFlight, Asking
<1>6. GrantIsFresh'
  BY DEF IInv, Safety, GrantIsFresh, At
<1>7. RefusedIsOut' /\ RetryUsesAnotherToken'
  BY DEF IInv, Safety, RefusedIsOut, RetryUsesAnotherToken, At
<1>8. OneRenewal'
  <2>1. CASE provider = "service"
    BY <2>1 DEF IInv, Safety, OneRenewal, Refreshing
  <2>2. CASE provider = "user"
    <3> SUFFICES ASSUME ~upset' PROVE OneRenewal'
      BY DEF OneRenewal
    <3>1. Refreshing = {}
      BY <1>2, <2>2 DEF Refreshing, Asking
    <3>2. Refreshing' = {c}
      BY <2>2, <3>1 DEF Refreshing
    <3>3. QED
      BY <2>2, <3>1, <3>2 DEF IInv, Safety, OneRenewal, At
  <2>3. QED
    BY <1>0, <2>1, <2>2
<1>9. QED
  BY <1>1, <1>3, <1>4, <1>5, <1>6, <1>7, <1>8 DEF IInv, Safety

LEMMA FetchUserStep ==
  ASSUME IInv, NEW c \in Calls, FetchUser(c)
  PROVE  IInv'
<1>1. /\ provider = "user" /\ At(c, "fetch") /\ Free(c)
      /\ UNCHANGED <<setting, row, flagged, cache, server, revoked>>
      /\ call[c] \in Call /\ row \in Row
  BY DEF FetchUser, IInv, TypeOK
<1>2. CASE row # NoRow /\ (replicaOf[c] \in flagged \/ Expired(row)) /\ row.refresh # 0
  <2>1. /\ call' = [call EXCEPT ![c].at = "asking", ![c].loaded = row]
        /\ Hold(c)
        /\ upset' = (upset \/ \E d \in Refreshing : replicaOf[d] # replicaOf[c])
    BY <1>2 DEF FetchUser
  <2>2. /\ call' \in [Calls -> Call]
        /\ \A d \in Calls \ {c} : call'[d] = call[d]
        /\ call'[c].at = "asking" /\ call'[c].token = call[c].token
        /\ call'[c].try = call[c].try /\ call'[c].first = call[c].first
        /\ call'[c].loaded = row
    BY <1>1, <2>1 DEF IInv, TypeOK, Call
  <2>3. upset \in BOOLEAN /\ upset' \in BOOLEAN
    BY <2>1 DEF IInv, TypeOK
  <2>4. QED
    BY <1>1, <1>2, <2>1, <2>2, <2>3, AsksStep
<1>3. CASE ~(row # NoRow /\ (replicaOf[c] \in flagged \/ Expired(row)) /\ row.refresh # 0)
  <2>1. UNCHANGED <<setting, row, flagged, cache, lock, server, revoked, upset>>
    BY <1>1, <1>3 DEF FetchUser
  <2>2. CASE row = NoRow \/ replicaOf[c] \in flagged \/ Expired(row)
    <3>1. Ends(c, "reauthorise")
      BY <1>3, <2>2 DEF FetchUser
    <3>2. QED
      BY <1>1, <2>1, <3>1, Ended, HandOver DEF IInv
  <2>3. CASE ~(row = NoRow \/ replicaOf[c] \in flagged \/ Expired(row))
    <3>1. Sends(c, row.access)
      BY <1>3, <2>3 DEF FetchUser
    <3>2. row.access \in 0 .. MaxGrants /\ row.access # 0 /\ row.access <= issued
          /\ row.access \in Nat
      BY <1>1, <2>3, TokensAssumption
      DEF Row, IInv, Safety, RowShape, TokensOfThePast, TokensAssumption
    <3>3. call[c].try = 2 => row.access # call[c].first
      BY <1>1, <2>3 DEF IInv, Safety, RefusedIsOut
    <3>4. \A d \in Calls \ {c} : At(d, "granted") => call[d].token # row.access
      BY DEF IInv, Safety, GrantIsFresh
    <3>5. QED
      BY <1>1, <2>1, <3>1, <3>2, <3>3, <3>4, Sent, HandOver DEF IInv
  <2>4. QED
    BY <2>2, <2>3
<1>4. QED
  BY <1>2, <1>3

LEMMA FetchServiceStep ==
  ASSUME IInv, NEW c \in Calls, FetchService(c)
  PROVE  IInv'
<1> DEFINE r == replicaOf[c]
<1>1. /\ provider = "service" /\ At(c, "fetch") /\ r \in Replicas
      /\ UNCHANGED <<setting, row, flagged, cache, server, revoked, upset>>
      /\ call[c] \in Call /\ upset \in BOOLEAN
  BY DEF FetchService, IInv, TypeOK
<1>2. CASE cache[r] # 0 /\ Sends(c, cache[r]) /\ UNCHANGED lock
  <2>1. cache[r] \in 0 .. MaxGrants /\ cache[r] <= issued /\ cache[r] \in Nat
    BY <1>1, TokensAssumption DEF IInv, TypeOK, Safety, TokensOfThePast, TokensAssumption
  <2>2. call[c].try = 2 => cache[r] # call[c].first
    BY <1>1 DEF IInv, Safety, RefusedIsOut
  <2>3. \A d \in Calls \ {c} : At(d, "granted") => call[d].token # cache[r]
    BY <1>1 DEF IInv, Safety, GrantIsFresh
  <2>4. QED
    BY <1>1, <1>2, <2>1, <2>2, <2>3, Sent, HandOver DEF IInv
<1>3. CASE Free(c) /\ Go(c, "asking") /\ Hold(c)
  <2>1. /\ call' \in [Calls -> Call]
        /\ \A d \in Calls \ {c} : call'[d] = call[d]
        /\ call'[c].at = "asking" /\ call'[c].token = call[c].token
        /\ call'[c].try = call[c].try /\ call'[c].first = call[c].first
    BY <1>1, <1>3 DEF IInv, TypeOK, Go, Call
  <2>2. QED
    BY <1>1, <1>3, <2>1, AsksStep
<1>4. QED
  BY <1>2, <1>3 DEF FetchService

-----------------------------------------------------------------------------
(* The answer *)

LEMMA GrantStep ==
  ASSUME IInv, NEW c \in Calls, Grant(c)
  PROVE  IInv'
<1> DEFINE n == issued + 1
           old == call[c].loaded.refresh
<1>1. /\ At(c, "asking") /\ n \in Grants /\ issued' = n /\ live' = live \cup {n}
      /\ UNCHANGED <<setting, row, flagged, cache, lock, revoked, upset>>
      /\ call[c] \in Call /\ issued \in Nat /\ n # 0 /\ n \in 0 .. MaxGrants /\ issued < n
      /\ provider \in {"user", "service"}
  <2>1. issued \in Nat
    BY TokensAssumption DEF IInv, TypeOK, TokensAssumption
  <2>2. n \in Grants => n \in 0 .. MaxGrants /\ n # 0
    BY <2>1 DEF Grants
  <2>3. QED
    BY <2>1, <2>2 DEF Grant, IInv, TypeOK
<1> HIDE DEF n
<1>2. PICK new \in 0 .. MaxGrants :
         /\ call' \in [Calls -> Call]
         /\ \A d \in Calls \ {c} : call'[d] = call[d]
         /\ call'[c].at = "granted" /\ call'[c].token = n
         /\ call'[c].try = call[c].try /\ call'[c].first = call[c].first
         /\ call'[c].loaded = call[c].loaded
         /\ renewable' \subseteq Grants
         /\ provider = "service" => renewable' = renewable
         /\ provider = "user" => call'[c].renew = new /\ new \in renewable'
  <2>1. CASE provider = "service"
    <3>1. call' = [call EXCEPT ![c].at = "granted", ![c].token = n] /\ renewable' = renewable
      BY <2>1 DEF Grant, n
    <3>2. QED
      BY <1>1, <2>1, <3>1 DEF IInv, TypeOK, Call
  <2>2. CASE provider = "user"
    <3>1. PICK new \in {old, n} :
             /\ renewable' = (renewable \ {old}) \cup {new}
             /\ old \in renewable
             /\ call' = [call EXCEPT ![c].at = "granted", ![c].token = n, ![c].renew = new]
      BY <2>2 DEF Grant, n
    <3>2. new \in 0 .. MaxGrants /\ renewable' \subseteq Grants
      BY <1>1, <3>1 DEF IInv, TypeOK, Call, Row
    <3> HIDE DEF old
    <3>3. QED
      BY <1>1, <2>2, <3>1, <3>2 DEF IInv, TypeOK, Call
  <2>3. QED
    BY <1>1, <2>1, <2>2
<1>3. UNCHANGED <<provider, replicaOf>>
  BY <1>1 DEF setting
<1>4. TypeOK'
  BY <1>1, <1>2, <1>3 DEF IInv, TypeOK
<1>5. TokensOfThePast'
  <2>1. /\ row.access \in Nat /\ \A r \in Replicas : cache[r] \in Nat
        /\ \A d \in Calls : call[d].token \in Nat /\ call[d].first \in Nat
    BY TokensAssumption DEF IInv, TypeOK, Row, Call, TokensAssumption
  <2>2. n \in Nat
    BY <1>1 DEF n
  <2>3. QED
    BY <1>1, <1>2, <2>1, <2>2 DEF IInv, Safety, TokensOfThePast
<1>6. RowShape'
  BY <1>1 DEF IInv, Safety, RowShape
<1>7. Refreshing' = Refreshing /\ (provider = "user" => c \in Refreshing)
      /\ (provider = "service" => Refreshing = {})
  BY <1>1, <1>2, <1>3 DEF Refreshing, At
<1>8. CallShape'
  BY <1>1, <1>2, <1>3, <1>7 DEF IInv, Safety, CallShape
<1>9. SingleFlight'
  BY <1>1, <1>2, <1>3 DEF IInv, Safety, SingleFlight, Asking, At
<1>10. GrantIsFresh'
  <2>1. /\ row.access # n /\ \A r \in Replicas : cache[r] # n
        /\ \A d \in Calls : call[d].token # n /\ call[d].first # n
    BY <1>1 DEF IInv, Safety, TokensOfThePast
  <2>2. QED
    BY <1>1, <1>2, <1>3, <2>1 DEF IInv, Safety, GrantIsFresh, At
<1>11. RefusedIsOut' /\ RetryUsesAnotherToken'
  BY <1>1, <1>2, <1>3 DEF IInv, Safety, RefusedIsOut, RetryUsesAnotherToken, At
<1>12. OneRenewal'
  <2>1. CASE provider = "service"
    BY <1>1, <1>2, <1>7, <2>1 DEF IInv, Safety, OneRenewal
  <2>2. CASE provider = "user"
    BY <1>1, <1>2, <1>7, <2>2 DEF IInv, Safety, OneRenewal, At
  <2>3. QED
    BY <1>1, <2>1, <2>2
<1>13. QED
  BY <1>4, <1>5, <1>6, <1>8, <1>9, <1>10, <1>11, <1>12 DEF IInv, Safety

LEMMA DenyStep ==
  ASSUME IInv, NEW c \in Calls, Deny(c)
  PROVE  IInv'
<1>1. /\ call[c].at \in {"asking", "granted"} /\ Release(c)
      /\ upset' = (upset \/ At(c, "granted"))
      /\ UNCHANGED <<provider, replicaOf, row, flagged, cache, issued, live, renewable, revoked>>
      /\ replicaOf[c] \in Replicas /\ provider \in {"user", "service"}
  BY DEF Deny, setting, server, IInv, TypeOK
<1>2. /\ call' \in [Calls -> Call]
      /\ call'[c].at = "ended" /\ call'[c].try = 1
      /\ call'[c].token = 0 /\ call'[c].first = 0
      /\ \A d \in Calls \ {c} : call'[d] = call[d]
  BY Ended DEF Deny, IInv
<1>3. /\ lock' \in [Replicas -> Calls \cup {None}]
      /\ \A r \in Replicas \ {replicaOf[c]} : lock'[r] = lock[r]
      /\ Asking(replicaOf[c]) = {c}
  BY <1>1 DEF IInv, TypeOK, Safety, SingleFlight, Release, Asking
<1>4. TypeOK'
  BY <1>1, <1>2, <1>3 DEF IInv, TypeOK
<1>5. TokensOfThePast' /\ RowShape'
  BY <1>1, <1>2, TokensAssumption
  DEF IInv, TypeOK, Safety, TokensOfThePast, RowShape, TokensAssumption
<1>6. Refreshing' = Refreshing \ {c} /\ (provider = "user" => c \in Refreshing)
      /\ (provider = "service" => Refreshing = {})
  BY <1>1, <1>2 DEF Refreshing
<1>7. CallShape'
  BY <1>2, <1>6 DEF IInv, Safety, CallShape
<1>8. SingleFlight'
  BY <1>1, <1>2, <1>3 DEF IInv, Safety, SingleFlight, Asking
<1>9. GrantIsFresh'
  <2>1. \A d \in Calls : At(d, "granted") => call[d].token # 0
    BY DEF IInv, Safety, CallShape, At
  <2>2. QED
    BY <1>1, <1>2, <2>1 DEF IInv, Safety, GrantIsFresh, At
<1>10. RefusedIsOut' /\ RetryUsesAnotherToken'
  BY <1>1, <1>2 DEF IInv, Safety, RefusedIsOut, RetryUsesAnotherToken, At
<1>11. OneRenewal'
  <2> SUFFICES ASSUME ~upset' PROVE OneRenewal'
    BY DEF OneRenewal
  <2>1. ~upset /\ At(c, "asking")
    BY <1>1 DEF At
  <2>2. CASE provider = "service"
    BY <1>1, <1>2, <1>6, <2>1, <2>2 DEF IInv, Safety, OneRenewal
  <2>3. CASE provider = "user"
    <3>1. Refreshing = {c} /\ Refreshing' = {}
      BY <1>6, <2>1, <2>3 DEF IInv, Safety, OneRenewal
    <3>2. QED
      BY <1>1, <2>1, <3>1 DEF IInv, Safety, OneRenewal
  <2>4. QED
    BY <1>1, <2>2, <2>3
<1>12. QED
  BY <1>4, <1>5, <1>7, <1>8, <1>9, <1>10, <1>11 DEF IInv, Safety

LEMMA StoreUserStep ==
  ASSUME IInv, NEW c \in Calls, StoreUser(c)
  PROVE  IInv'
<1> DEFINE w == [access |-> call[c].token, refresh |-> call[c].renew,
                 until |-> "later", id |-> row.id]
           stores == row.id = call[c].loaded.id
<1>1. /\ provider = "user" /\ At(c, "granted") /\ Release(c)
      /\ UNCHANGED <<provider, replicaOf, cache, issued, live, renewable, revoked, upset>>
      /\ replicaOf[c] \in Replicas /\ call[c] \in Call
      /\ stores => row' = w /\ flagged' = flagged \ {replicaOf[c]} /\ Sends(c, call[c].token)
      /\ ~stores => row' = row /\ flagged' = flagged /\ Ends(c, "ended")
  BY DEF StoreUser, setting, server, IInv, TypeOK
<1>2. /\ call' \in [Calls -> Call]
      /\ \A d \in Calls \ {c} : call'[d] = call[d]
      /\ stores => /\ call'[c].at = "calling" /\ call'[c].token = call[c].token
                   /\ call'[c].try = call[c].try /\ call'[c].first = call[c].first
      /\ ~stores => /\ call'[c].at = "ended" /\ call'[c].try = 1
                    /\ call'[c].token = 0 /\ call'[c].first = 0
  <2>1. call[c].token \in 0 .. MaxGrants
    BY <1>1 DEF Call
  <2>2. QED
    BY <1>1, <2>1, Sent, Ended DEF IInv
<1>3. /\ lock' \in [Replicas -> Calls \cup {None}]
      /\ \A r \in Replicas \ {replicaOf[c]} : lock'[r] = lock[r]
      /\ Asking(replicaOf[c]) = {c}
  BY <1>1 DEF IInv, TypeOK, Safety, SingleFlight, Release, Asking, At
<1>4. row' \in Row /\ (stores => row'.access = call[c].token /\ row'.refresh = call[c].renew
                                 /\ row'.id = row.id)
  <2>1. w \in Row
    BY <1>1 DEF Row, Call, IInv, TypeOK
  <2>2. QED
    BY <1>1, <2>1 DEF IInv, TypeOK
<1>5. TypeOK'
  BY <1>1, <1>2, <1>3, <1>4 DEF IInv, TypeOK
<1>6. TokensOfThePast'
  BY <1>1, <1>2, <1>4, TokensAssumption
  DEF IInv, TypeOK, Safety, TokensOfThePast, TokensAssumption
<1>7. c \in Refreshing /\ Refreshing' = Refreshing \ {c}
  BY <1>1, <1>2 DEF Refreshing, At
<1>8. RowShape'
  BY <1>1, <1>4, <1>7 DEF IInv, Safety, RowShape, CallShape, At
<1>9. CallShape'
  BY <1>1, <1>2, <1>7 DEF IInv, Safety, CallShape, At
<1>10. SingleFlight'
  BY <1>1, <1>2, <1>3 DEF IInv, Safety, SingleFlight, Asking
<1>11. GrantIsFresh'
  <2>1. \A d \in Calls : At(d, "granted") => call[d].token # 0
    BY DEF IInv, Safety, CallShape, At
  <2>2. \A d \in Calls \ {c} : At(d, "granted") => call[d].token # call[c].token
    BY <1>1 DEF IInv, Safety, GrantIsFresh, At
  <2>3. CASE stores
    BY <1>1, <1>2, <1>4, <2>1, <2>2, <2>3 DEF IInv, Safety, GrantIsFresh, At
  <2>4. CASE ~stores
    BY <1>1, <1>2, <2>1, <2>4 DEF IInv, Safety, GrantIsFresh, At
  <2>5. QED
    BY <2>3, <2>4
<1>12. RefusedIsOut' /\ RetryUsesAnotherToken'
  <2>1. \A d \in Calls : call[d].first # call[c].token
    BY <1>1 DEF IInv, Safety, GrantIsFresh
  <2>2. CASE stores
    BY <1>1, <1>2, <1>4, <2>1, <2>2 DEF IInv, Safety, RefusedIsOut, RetryUsesAnotherToken, At
  <2>3. CASE ~stores
    BY <1>1, <1>2, <2>3 DEF IInv, Safety, RefusedIsOut, RetryUsesAnotherToken, At
  <2>4. QED
    BY <2>2, <2>3
<1>13. OneRenewal'
  <2> SUFFICES ASSUME ~upset PROVE OneRenewal'
    BY <1>1 DEF OneRenewal
  <2>1. Refreshing = {c} /\ Refreshing' = {}
    BY <1>7 DEF IInv, Safety, OneRenewal
  <2>2. call[c].renew \in renewable \cup revoked
    BY <1>1, <2>1 DEF IInv, Safety, OneRenewal
  <2>3. stores \/ row = NoRow
    BY <2>1 DEF IInv, Safety, OneRenewal
  <2>4. QED
    BY <1>1, <1>4, <2>1, <2>2, <2>3 DEF OneRenewal, NoRow
<1>14. QED
  BY <1>5, <1>6, <1>8, <1>9, <1>10, <1>11, <1>12, <1>13 DEF IInv, Safety

LEMMA StoreServiceStep ==
  ASSUME IInv, NEW c \in Calls, StoreService(c)
  PROVE  IInv'
<1> DEFINE r == replicaOf[c]
           t == call[c].token
<1>1. /\ provider = "service" /\ At(c, "granted") /\ Release(c) /\ Sends(c, t)
      /\ cache' = [cache EXCEPT ![r] = t]
      /\ UNCHANGED <<provider, replicaOf, row, flagged, issued, live, renewable, revoked, upset>>
      /\ r \in Replicas /\ t \in 0 .. MaxGrants
  BY DEF StoreService, setting, server, IInv, TypeOK, Call
<1>2. /\ call' \in [Calls -> Call]
      /\ call'[c].at = "calling" /\ call'[c].token = t
      /\ call'[c].try = call[c].try /\ call'[c].first = call[c].first
      /\ \A d \in Calls \ {c} : call'[d] = call[d]
  BY <1>1, Sent DEF IInv
<1>3. /\ lock' \in [Replicas -> Calls \cup {None}]
      /\ \A q \in Replicas \ {r} : lock'[q] = lock[q]
      /\ Asking(r) = {c}
  BY <1>1 DEF IInv, TypeOK, Safety, SingleFlight, Release, Asking, At
<1>4. cache' \in [Replicas -> 0 .. MaxGrants] /\ \A q \in Replicas : cache'[q] \in {t, cache[q]}
  BY <1>1 DEF IInv, TypeOK
<1>5. TypeOK'
  BY <1>1, <1>2, <1>3, <1>4 DEF IInv, TypeOK
<1>6. TokensOfThePast' /\ RowShape'
  BY <1>1, <1>2, <1>4 DEF IInv, Safety, TokensOfThePast, RowShape
<1>7. Refreshing = {} /\ Refreshing' = {}
  BY <1>1 DEF Refreshing
<1>8. CallShape'
  BY <1>1, <1>2, <1>7 DEF IInv, Safety, CallShape, At
<1>9. SingleFlight'
  BY <1>1, <1>2, <1>3 DEF IInv, Safety, SingleFlight, Asking
<1>10. GrantIsFresh'
  <2>1. \A d \in Calls \ {c} : At(d, "granted") => call[d].token # t
    BY <1>1 DEF IInv, Safety, GrantIsFresh, At
  <2>2. QED
    BY <1>1, <1>2, <1>4, <2>1 DEF IInv, Safety, GrantIsFresh, At
<1>11. RefusedIsOut' /\ RetryUsesAnotherToken'
  <2>1. \A d \in Calls : call[d].first # t
    BY <1>1 DEF IInv, Safety, GrantIsFresh
  <2>2. QED
    BY <1>1, <1>2, <1>4, <2>1 DEF IInv, TypeOK, Safety, RefusedIsOut, RetryUsesAnotherToken, At
<1>12. OneRenewal'
  BY <1>1, <1>7 DEF IInv, Safety, OneRenewal
<1>13. QED
  BY <1>5, <1>6, <1>8, <1>9, <1>10, <1>11, <1>12 DEF IInv, Safety

-----------------------------------------------------------------------------
(* The call *)

LEMMA ServedStep ==
  ASSUME IInv, NEW c \in Calls, Served(c)
  PROVE  IInv'
  BY Ended, HandOver, TokensAssumption DEF Served, IInv, TokensAssumption

LEMMA UnauthorizedStep ==
  ASSUME IInv, NEW c \in Calls, Unauthorized(c)
  PROVE  IInv'
<1>1. /\ At(c, "calling")
      /\ UNCHANGED <<setting, row, flagged, cache, lock, server, revoked, upset>>
      /\ call[c] \in Call
  BY DEF Unauthorized, IInv, TypeOK
<1>2. CASE call[c].try = 1
  <2>1. /\ call' \in [Calls -> Call]
        /\ \A d \in Calls \ {c} : call'[d] = call[d]
        /\ call'[c].at = "refused" /\ call'[c].token = call[c].token
        /\ call'[c].try = call[c].try /\ call'[c].first = call[c].first
    <3> DEFINE next == [call[c] EXCEPT !.at = "refused"]
    <3>1. /\ next \in Call /\ next.at = "refused" /\ next.token = call[c].token
          /\ next.try = call[c].try /\ next.first = call[c].first
      BY <1>1 DEF Call
    <3>2. call' = [call EXCEPT ![c] = next] /\ TypeOK
      BY <1>2 DEF Unauthorized, Go, IInv
    <3> HIDE DEF next
    <3>3. QED
      BY <3>1, <3>2, CallMoves
  <2>2. call[c].token \in Nat /\ call[c].token # 0 /\ call[c].token <= issued
    BY <1>1, TokensAssumption
    DEF Call, IInv, Safety, CallShape, TokensOfThePast, At, TokensAssumption
  <2>3. \A d \in Calls \ {c} : At(d, "granted") => call[d].token # call[c].token
    BY <1>1 DEF IInv, Safety, GrantIsFresh, At
  <2>4. QED
    BY <1>1, <2>1, <2>2, <2>3, HandOver
<1>3. CASE call[c].try # 1
  BY <1>1, <1>3, Ended, HandOver, TokensAssumption
  DEF Unauthorized, IInv, TokensAssumption
<1>4. QED
  BY <1>2, <1>3

LEMMA InvalidateStep ==
  ASSUME IInv, NEW c \in Calls, Invalidate(c)
  PROVE  IInv'
<1> DEFINE r == replicaOf[c]
           next == [call[c] EXCEPT !.at = "fetch", !.try = 2,
                                   !.first = call[c].token, !.token = 0]
<1>1. /\ At(c, "refused") /\ Free(c)
      /\ UNCHANGED <<provider, replicaOf, row, lock, issued, live, renewable, revoked, upset>>
      /\ r \in Replicas /\ call[c] \in Call /\ provider \in {"user", "service"}
      /\ provider = "user" => flagged' = flagged \cup {r} /\ cache' = cache
      /\ provider = "service" => cache' = [cache EXCEPT ![r] = 0] /\ flagged' = flagged
  BY DEF Invalidate, setting, server, IInv, TypeOK
<1>2. 0 \in 0 .. MaxGrants
  BY TokensAssumption DEF TokensAssumption
<1>3. /\ call' \in [Calls -> Call]
      /\ \A d \in Calls \ {c} : call'[d] = call[d]
      /\ call'[c].at = "fetch" /\ call'[c].try = 2
      /\ call'[c].first = call[c].token /\ call'[c].token = 0
  BY <1>1, <1>2 DEF Invalidate, IInv, TypeOK, Call
<1>4. /\ cache' \in [Replicas -> 0 .. MaxGrants] /\ flagged' \subseteq Replicas
      /\ \A q \in Replicas : cache'[q] \in {0, cache[q]}
      /\ flagged \subseteq flagged'
  BY <1>1, <1>2 DEF IInv, TypeOK
<1>5. TypeOK'
  BY <1>1, <1>3, <1>4 DEF IInv, TypeOK
<1>6. TokensOfThePast' /\ RowShape'
  BY <1>1, <1>3, <1>4, TokensAssumption
  DEF IInv, TypeOK, Safety, TokensOfThePast, RowShape, TokensAssumption
<1>7. Refreshing' = Refreshing /\ c \notin Refreshing
  BY <1>1, <1>3 DEF Refreshing, At
<1>8. CallShape' /\ SingleFlight'
  BY <1>1, <1>3, <1>7 DEF IInv, Safety, CallShape, SingleFlight, Asking, At
<1>9. GrantIsFresh'
  <2>1. \A d \in Calls : At(d, "granted") => call[d].token # 0 /\ d # c
    BY <1>1 DEF IInv, Safety, CallShape, At
  <2>2. QED
    BY <1>1, <1>3, <1>4, <2>1 DEF IInv, Safety, GrantIsFresh, At
<1>10. RefusedIsOut'
  <2>1. call[c].token # 0
    BY <1>1 DEF IInv, Safety, CallShape, At
  <2>2. provider = "user" => r \in flagged'
    BY <1>1
  <2>3. provider = "service" => cache'[r] = 0
    BY <1>1 DEF IInv, TypeOK
  <2>4. QED
    BY <1>1, <1>3, <1>4, <2>1, <2>2, <2>3 DEF IInv, TypeOK, Safety, RefusedIsOut, At
<1>11. RetryUsesAnotherToken'
  BY <1>1, <1>3 DEF IInv, Safety, RetryUsesAnotherToken, At
<1>12. OneRenewal'
  <2>1. Refreshing \subseteq Calls /\ \A d \in Refreshing : call'[d] = call[d]
    BY <1>3, <1>7 DEF Refreshing
  <2>2. QED
    BY <1>1, <1>7, <2>1 DEF IInv, Safety, OneRenewal, At
<1>13. QED
  BY <1>5, <1>6, <1>8, <1>9, <1>10, <1>11, <1>12 DEF IInv, Safety

-----------------------------------------------------------------------------
(* The user, time and the servers *)

\* The row changes, tokens are forgotten or revoked; no call moves.
LEMMA RowStep ==
  ASSUME IInv,
         UNCHANGED <<setting, flagged, lock, call>>,
         row' \in Row, row' = NoRow \/ (row'.id # 0 /\ row'.access # 0),
         \/ row'.access \in {0, row.access} /\ issued' = issued
         \/ row'.access = issued + 1 /\ issued' = issued + 1,
         cache' \in [Replicas -> 0 .. MaxGrants],
         \A r \in Replicas : cache'[r] \in {0, cache[r]},
         issued' \in 0 .. MaxGrants,
         live' \subseteq Grants, renewable' \subseteq Grants, revoked' \subseteq Grants,
         upset' \in BOOLEAN,
         OneRenewal'
  PROVE  IInv'
<1> USE DEF setting
<1>1. issued \in Nat /\ \A c \in Calls : call[c].token \in Nat /\ call[c].first \in Nat
      /\ row.access \in Nat /\ \A r \in Replicas : cache[r] \in Nat
  BY TokensAssumption DEF IInv, TypeOK, Call, Row, TokensAssumption
<1>2. TypeOK'
  BY DEF IInv, TypeOK
<1>3. TokensOfThePast'
  BY <1>1 DEF IInv, Safety, TokensOfThePast
<1>4. RowShape' /\ CallShape' /\ SingleFlight' /\ RetryUsesAnotherToken'
  BY DEF IInv, Safety, RowShape, CallShape, SingleFlight, RetryUsesAnotherToken, Refreshing,
     Asking, At
<1>5. \A c \in Calls : call[c].token # issued + 1 /\ call[c].first # issued + 1
  BY <1>1 DEF IInv, Safety, TokensOfThePast
<1>6. GrantIsFresh'
  <2>1. \A c \in Calls : At(c, "granted") => call[c].token # 0
    BY DEF IInv, Safety, CallShape, At
  <2>2. QED
    BY <1>5, <2>1 DEF IInv, Safety, GrantIsFresh, At
<1>7. RefusedIsOut'
  BY <1>5 DEF IInv, TypeOK, Safety, RefusedIsOut, At
<1>8. QED
  BY <1>2, <1>3, <1>4, <1>6, <1>7 DEF IInv, Safety

LEMMA ConnectStep ==
  ASSUME IInv, NEW until \in {"later", "open"}, NEW renews \in BOOLEAN, Connect(until, renews)
  PROVE  IInv'
<1> DEFINE n == issued + 1
           refresh == IF renews THEN n ELSE 0
           id == IF row = NoRow THEN n ELSE row.id
<1>1. /\ provider = "user" /\ n \in Grants /\ issued' = n /\ live' = live \cup {n}
      /\ renewable' = IF renews THEN renewable \cup {n} ELSE renewable
      /\ row' = [access |-> n, refresh |-> refresh, until |-> until, id |-> id]
      /\ upset' = (upset \/ Refreshing # {})
      /\ UNCHANGED <<setting, flagged, cache, lock, call, revoked>>
  BY DEF Connect
<1>2. n # 0 /\ n \in 0 .. MaxGrants /\ 0 \in 0 .. MaxGrants
  BY <1>1, TokensAssumption DEF IInv, TypeOK, Grants, TokensAssumption
<1>3. id \in 0 .. MaxGrants /\ id # 0 /\ refresh \in 0 .. MaxGrants
  <2>1. row # NoRow => row.id # 0
    BY DEF IInv, Safety, RowShape
  <2>2. row.id \in 0 .. MaxGrants
    BY DEF IInv, TypeOK, Row
  <2>3. QED
    BY <1>2, <2>1, <2>2
<1> HIDE DEF id
<1>4. row' \in Row /\ row'.id # 0 /\ row'.access # 0
  BY <1>1, <1>2, <1>3 DEF Row
<1>5. OneRenewal'
  <2> SUFFICES ASSUME ~upset' PROVE OneRenewal'
    BY DEF OneRenewal
  <2>1. Refreshing = {} /\ Refreshing' = {}
    BY <1>1 DEF Refreshing, setting
  <2>2. row'.refresh # 0 => row'.refresh \in renewable'
    BY <1>1
  <2>3. QED
    BY <2>1, <2>2 DEF OneRenewal
<1>6. /\ cache' \in [Replicas -> 0 .. MaxGrants]
      /\ live' \subseteq Grants /\ renewable' \subseteq Grants /\ revoked' \subseteq Grants
      /\ upset' \in BOOLEAN
  BY <1>1 DEF IInv, TypeOK
<1>7. row'.access = issued + 1 /\ issued' = issued + 1 /\ issued' \in 0 .. MaxGrants
      /\ \A r \in Replicas : cache'[r] \in {0, cache[r]}
  BY <1>1, <1>2
<1>8. QED
  BY <1>1, <1>4, <1>5, <1>6, <1>7, RowStep

LEMMA DisconnectStep ==
  ASSUME IInv, Disconnect
  PROVE  IInv'
<1>1. /\ row' = NoRow
      /\ UNCHANGED <<setting, flagged, cache, lock, call, server, revoked, upset>>
  BY DEF Disconnect
<1>2. OneRenewal'
  <2> SUFFICES ASSUME ~upset PROVE OneRenewal'
    BY <1>1 DEF OneRenewal
  <2>1. Refreshing' = Refreshing /\ row'.refresh = 0
    BY <1>1 DEF Refreshing, setting, NoRow
  <2>2. /\ \A c, d \in Refreshing : c = d
        /\ \A c \in Refreshing : call[c].at = "granted" => call[c].renew \in renewable \cup revoked
    BY DEF IInv, Safety, OneRenewal, At
  <2>3. call' = call /\ renewable' = renewable /\ revoked' = revoked /\ row' = NoRow
    BY <1>1 DEF server
  <2> HIDE DEF Refreshing
  <2>4. QED
    BY <2>1, <2>2, <2>3 DEF OneRenewal, At
<1>3. row' \in Row /\ row'.access = 0
  BY <1>1, Typical DEF NoRow
<1>4. QED
  BY <1>1, <1>2, <1>3, RowStep DEF IInv, TypeOK, server

LEMMA ExpireStep ==
  ASSUME IInv, Expire
  PROVE  IInv'
<1>1. CASE /\ row.until = "later"
           /\ row' = [row EXCEPT !.until = "past"]
           /\ UNCHANGED <<setting, flagged, cache, lock, call, server, revoked, upset>>
  <2>1. /\ row' \in Row /\ row'.access = row.access /\ row'.id = row.id
        /\ row'.refresh = row.refresh /\ row # NoRow
    BY <1>1 DEF IInv, TypeOK, Row, NoRow
  <2>2. row'.id # 0 /\ row'.access # 0
    BY <2>1 DEF IInv, Safety, RowShape
  <2>3. OneRenewal'
    BY <1>1, <2>1 DEF IInv, Safety, OneRenewal, Refreshing, setting, server, At
  <2>4. QED
    BY <1>1, <2>1, <2>2, <2>3, RowStep DEF IInv, TypeOK, server
<1>2. CASE /\ \E r \in Replicas : cache[r] # 0 /\ cache' = [cache EXCEPT ![r] = 0]
           /\ UNCHANGED <<setting, row, flagged, lock, call, server, revoked, upset>>
  <2>1. 0 \in 0 .. MaxGrants
    BY TokensAssumption DEF TokensAssumption
  <2>2. /\ cache' \in [Replicas -> 0 .. MaxGrants]
        /\ \A r \in Replicas : cache'[r] \in {0, cache[r]}
    BY <1>2, <2>1 DEF IInv, TypeOK
  <2>3. OneRenewal'
    BY <1>2 DEF IInv, Safety, OneRenewal, Refreshing, setting, server, At
  <2>4. QED
    BY <1>2, <2>2, <2>3, RowStep DEF IInv, TypeOK, Safety, RowShape, server
<1>3. QED
  BY <1>1, <1>2 DEF Expire

LEMMA RevokeStep ==
  ASSUME IInv, Revoke
  PROVE  IInv'
<1>1. /\ UNCHANGED <<setting, row, flagged, cache, lock, call, issued, upset>>
      /\ live' \subseteq live /\ renewable' \subseteq Grants /\ revoked' \subseteq Grants
      /\ renewable \cup revoked \subseteq renewable' \cup revoked'
  BY DEF Revoke, gateway, IInv, TypeOK
<1>2. OneRenewal'
  BY <1>1 DEF IInv, Safety, OneRenewal, Refreshing, setting, At
<1>3. QED
  BY <1>1, <1>2, RowStep DEF IInv, TypeOK, Safety, RowShape

-----------------------------------------------------------------------------
LEMMA StepIInv == IInv /\ [Next]_vars => IInv'
<1> SUFFICES ASSUME IInv, [Next]_vars PROVE IInv'
  OBVIOUS
<1>1. ASSUME NEW c \in Calls, Fetch(c) \/ Answer(c) \/ CallTool(c)
      PROVE  IInv'
  BY <1>1, FetchUserStep, FetchServiceStep, GrantStep, DenyStep, StoreUserStep,
     StoreServiceStep, ServedStep, UnauthorizedStep, InvalidateStep
  DEF Fetch, Store, Answer, CallTool
<1>2. CASE UNCHANGED vars
  BY <1>2 DEF vars, setting, gateway, server, IInv, TypeOK, Safety, TokensOfThePast, RowShape,
     CallShape, SingleFlight, Asking, GrantIsFresh, RefusedIsOut, RetryUsesAnotherToken,
     OneRenewal, Refreshing, At
<1>3. QED
  BY <1>1, <1>2, ConnectStep, DisconnectStep, ExpireStep, RevokeStep DEF Next

LEMMA InvariantHolds == Spec => []IInv
  BY InitIInv, StepIInv, PTL DEF Spec

-----------------------------------------------------------------------------
(* Theorems *)

\* Every variable keeps its type.
THEOREM TypeCorrect == Spec => []TypeOK
<1>1. IInv => TypeOK
  BY DEF IInv
<1>2. QED
  BY <1>1, InvariantHolds, PTL

\* However many calls fetch, are refused and retry together, the authorization server
\* sees one token request of a replica at a time, made under the lock.
THEOREM OneRequestAtATime == Spec => []SingleFlight
<1>1. IInv => SingleFlight
  BY DEF IInv, Safety
<1>2. QED
  BY <1>1, InvariantHolds, PTL

\* The retry after a 401 never presents the token that was refused.
THEOREM RetriesUseAnotherToken == Spec => []RetryUsesAnotherToken
<1>1. IInv => RetryUsesAnotherToken
  BY DEF IInv, Safety
<1>2. QED
  BY <1>1, InvariantHolds, PTL

\* A stored refresh token is good or revoked, unless a refresh was overtaken or lost.
THEOREM RefreshTokensAreKept == Spec => []RefreshTokenKept
<1>1. IInv => RefreshTokenKept
  BY DEF IInv, Safety, OneRenewal, RefreshTokenKept
<1>2. QED
  BY <1>1, InvariantHolds, PTL

Stays == row = NoRow /\ row' # NoRow => issued' > issued

\* No refresh brings back the row of a user who has disconnected.
THEOREM DisconnectedUsersStay == Spec => DisconnectedStays
<1>1. IInv /\ [Next]_vars => [Stays]_vars
  <2> SUFFICES ASSUME IInv, [Next]_vars, row = NoRow, row' # NoRow
               PROVE  issued' > issued
    BY DEF Stays
  <2>1. issued \in Nat
    BY TokensAssumption DEF IInv, TypeOK, TokensAssumption
  <2>2. \A c \in Calls : StoreUser(c) => row' = row
    BY DEF StoreUser, IInv, Safety, CallShape, Refreshing, At, NoRow
  <2>3. \E until \in {"later", "open"}, renews \in BOOLEAN : Connect(until, renews)
    BY <2>2 DEF Next, vars, gateway, setting, server, Fetch, FetchUser, FetchService, Answer,
       Grant, Deny, Store, StoreService, CallTool, Served, Unauthorized, Invalidate,
       Disconnect, Expire, Revoke, NoRow
  <2>4. QED
    BY <2>1, <2>3 DEF Connect
<1>2. QED
  BY <1>1, InvariantHolds, PTL DEF Spec, DisconnectedStays, Stays
=============================================================================
