------------------------ MODULE AccessRequests_proofs ------------------------
(***************************************************************************)
(* Proofs about AccessRequests and its races, for every number of workers,  *)
(* rows and every set of policies.                                          *)
(***************************************************************************)
EXTENDS AccessRaces, TLAPS

\* What the transactions under way carry: an automatic elevation has a duration,
\* and an approval of a JIT request has one that, once checked, is not longer
\* than what was asked for.
TimesOK ==
    \A w \in Workers :
        /\ tx[w].op \in {"jit", "elevate"} => tx[w].time # 0
        /\ tx[w].op = "approve" /\ requests[tx[w].on].asked # 0 =>
            /\ tx[w].time # 0
            /\ tx[w].step = "checked" /\ ~tx[w].covered
                => tx[w].time <= requests[tx[w].on].asked

\* A grant names a request that exists.
ForExists == \A g \in 1..Len(grants) : grants[g].for \in 0..Len(requests)

IInv == TypeOK /\ TimesOK /\ ForExists /\ JitIsTemporary

-----------------------------------------------------------------------------
(* The rows *)

\* What a row is appended to a table keeps the rows it had.
LEMMA Appended ==
    ASSUME NEW S, NEW s \in Seq(S), NEW e \in S
    PROVE  /\ Append(s, e) \in Seq(S)
           /\ Len(Append(s, e)) = Len(s) + 1
           /\ \A i \in 1..Len(s) : Append(s, e)[i] = s[i]
           /\ Append(s, e)[Len(s) + 1] = e
  OBVIOUS

\* Deciding a request writes its status, and the grant if there is one, over its
\* row and keeps all the rest.
LEMMA Decided ==
    ASSUME requests \in Seq(Request), NEW r \in 1..Len(requests),
           NEW status \in {"approved", "declined", "withdrawn"},
           NEW grant \in 0..MaxGrants, Decide(r, status, grant)
    PROVE  /\ requests' \in Seq(Request)
           /\ Len(requests') = Len(requests)
           /\ \A i \in 1..Len(requests) : requests'[i].asked = requests[i].asked
           /\ \A i \in 1..Len(requests) : i # r => requests'[i] = requests[i]
           /\ requests'[r].status = status
           /\ requests'[r].grant = IF grant = 0 THEN requests[r].grant ELSE grant
  <1> DEFINE e ==
        [status |-> status, tool |-> requests[r].tool, asked |-> requests[r].asked,
         grant |-> IF grant = 0 THEN requests[r].grant ELSE grant]
  <1>1. requests[r] \in Request
    OBVIOUS
  <1>2. /\ e \in Request /\ e.asked = requests[r].asked /\ e.status = status
        /\ e.grant = IF grant = 0 THEN requests[r].grant ELSE grant
    BY <1>1 DEF Request
  <1>3. requests' = [requests EXCEPT ![r] = e]
    BY DEF Decide
  <1> HIDE DEF e
  <1>4. requests' \in Seq(Request) /\ Len(requests') = Len(requests)
    BY <1>2, <1>3
  <1>5. \A i \in 1..Len(requests) : requests'[i] = IF i = r THEN e ELSE requests[i]
    BY <1>3
  <1> QED BY <1>2, <1>4, <1>5

\* Inserting a grant.
LEMMA Inserted ==
    ASSUME TypeOK, NEW kind \in {"user", "group", "tool"},
           NEW via \in {"operator", "jit_auto", "jit_approved"},
           NEW left \in Forever..MaxDuration, NEW r \in 0..MaxRequests,
           Insert(kind, via, left, r)
    PROVE  /\ grants' \in Seq(Grant)
           /\ Len(grants') = Len(grants) + 1
           /\ Len(grants') <= MaxGrants
           /\ \A g \in 1..Len(grants) : grants'[g] = grants[g]
           /\ grants'[Len(grants) + 1] =
                [kind |-> kind, via |-> via, left |-> left, revoked |-> FALSE, for |-> r]
  <1> DEFINE e == [kind |-> kind, via |-> via, left |-> left, revoked |-> FALSE, for |-> r]
  <1>1. e \in Grant
    BY DEF Grant
  <1>2. Len(grants) < MaxGrants /\ grants' = Append(grants, e)
    BY DEF Insert
  <1>3. grants \in Seq(Grant) /\ Len(grants) \in Nat
    BY DEF TypeOK
  <1> HIDE DEF e
  <1>4. /\ Append(grants, e) \in Seq(Grant)
        /\ Len(Append(grants, e)) = Len(grants) + 1
        /\ \A i \in 1..Len(grants) : Append(grants, e)[i] = grants[i]
        /\ Append(grants, e)[Len(grants) + 1] = e
    BY <1>1, <1>3, Appended
  <1>5. Len(grants) + 1 <= MaxGrants
    BY <1>2, <1>3, AccessAssumption DEF AccessAssumption
  <1> QED BY <1>2, <1>4, <1>5 DEF e

-----------------------------------------------------------------------------
(* The inductive invariant *)

LEMMA InitInv == Init => IInv
  <1> SUFFICES ASSUME Init PROVE IInv
    OBVIOUS
  <1> USE AccessAssumption DEF AccessAssumption, Init
  <1>1. NoTx \in Transaction
    BY DEF NoTx, Transaction
  <1>2. TypeOK
    <2>1. requests \in Seq(Request) /\ Len(requests) <= MaxRequests
      OBVIOUS
    <2>2. grants \in Seq(Grant) /\ Len(grants) <= MaxGrants
      OBVIOUS
    <2>3. policy \in [enabled : BOOLEAN, auto : BOOLEAN, ceiling : Durations]
      BY DEF Durations
    <2>4. tx \in [Workers -> Transaction]
      BY <1>1
    <2>5. \A w \in Workers : tx[w].op \notin {"approve", "decline", "withdraw"}
      BY DEF NoTx
    <2>6. public \in BOOLEAN /\ member \in BOOLEAN /\ toolCeiling \in 0..MaxDuration
      OBVIOUS
    <2> QED BY <2>1, <2>2, <2>3, <2>4, <2>5, <2>6 DEF TypeOK
  <1>3. TimesOK /\ ForExists /\ JitIsTemporary
    BY DEF TimesOK, NoTx, ForExists, JitIsTemporary
  <1> QED BY <1>2, <1>3 DEF IInv

\* The steps that write neither table: a transaction w goes on as t.
LEMMA Proceeds ==
    ASSUME IInv, NEW w \in Workers, NEW t \in Transaction,
           tx' = [tx EXCEPT ![w] = t], UNCHANGED <<config, rows>>,
           t.op \in {"approve", "decline", "withdraw"} => t.on \in 1..Len(requests),
           t.op \in {"jit", "elevate"} => t.time # 0,
           t.op = "approve" /\ requests[t.on].asked # 0 =>
            /\ t.time # 0
            /\ t.step = "checked" /\ ~t.covered => t.time <= requests[t.on].asked
    PROVE  IInv'
  <1> USE DEF config, rows
  <1>1. TypeOK'
    BY DEF IInv, TypeOK
  <1>2. TimesOK'
    BY DEF IInv, TypeOK, TimesOK
  <1>3. ForExists' /\ JitIsTemporary'
    BY DEF IInv, ForExists, JitIsTemporary
  <1> QED BY <1>1, <1>2, <1>3 DEF IInv

\* The steps that append a grant that obeys JitIsTemporary, and may end a
\* transaction and decide a request.
LEMMA Issues ==
    ASSUME IInv, UNCHANGED config,
           NEW kind \in {"user", "group", "tool"},
           NEW via \in {"operator", "jit_auto", "jit_approved"},
           NEW left \in Forever..MaxDuration, NEW r \in 0..Len(requests),
           Insert(kind, via, left, r),
           via # "operator" => left # Forever,
           r # 0 /\ requests[r].asked # 0 => left \in 0..requests[r].asked,
           requests' \in Seq(Request), Len(requests') = Len(requests),
           \A i \in 1..Len(requests) : requests'[i].asked = requests[i].asked,
           \A w \in Workers : tx'[w] = tx[w] \/ tx'[w] = NoTx,
           tx' \in [Workers -> Transaction]
    PROVE  IInv'
  <1> USE DEF config
  <1>1. r \in 0..MaxRequests /\ Len(requests) \in Nat /\ Len(grants) \in Nat
    BY AccessAssumption DEF AccessAssumption, IInv, TypeOK
  <1>2. /\ grants' \in Seq(Grant)
        /\ Len(grants') = Len(grants) + 1
        /\ Len(grants') <= MaxGrants
        /\ \A g \in 1..Len(grants) : grants'[g] = grants[g]
        /\ grants'[Len(grants) + 1] =
             [kind |-> kind, via |-> via, left |-> left, revoked |-> FALSE, for |-> r]
    BY <1>1, Inserted DEF IInv
  <1>3. TypeOK'
    BY <1>2 DEF IInv, TypeOK, NoTx
  <1>4. TimesOK'
    BY DEF IInv, TypeOK, TimesOK, NoTx
  <1>5. ForExists'
    <2> SUFFICES ASSUME NEW g \in 1..Len(grants') PROVE grants'[g].for \in 0..Len(requests)
      BY DEF ForExists
    <2>1. CASE g \in 1..Len(grants)
      BY <1>2, <2>1 DEF IInv, ForExists
    <2>2. CASE g = Len(grants) + 1
      BY <1>2, <2>2
    <2> QED BY <1>1, <1>2, <2>1, <2>2
  <1>6. JitIsTemporary'
    <2> SUFFICES ASSUME NEW g \in 1..Len(grants')
                 PROVE  /\ grants'[g].via # "operator" => grants'[g].left # Forever
                        /\ grants'[g].for # 0 =>
                            LET asked == requests'[grants'[g].for].asked
                            IN  asked # 0 => grants'[g].left \in 0..asked
      BY DEF JitIsTemporary
    <2>1. CASE g \in 1..Len(grants)
      <3>1. grants'[g] = grants[g] /\ grants[g].for \in 0..Len(requests)
        BY <1>2, <2>1 DEF IInv, ForExists
      <3>2. grants[g].for # 0 =>
                requests'[grants[g].for].asked = requests[grants[g].for].asked
        BY <1>1, <3>1
      <3> QED BY <2>1, <3>1, <3>2 DEF IInv, JitIsTemporary
    <2>2. CASE g = Len(grants) + 1
      <3>1. r # 0 => requests'[r].asked = requests[r].asked
        BY <1>1
      <3> QED BY <1>2, <2>2, <3>1
    <2> QED BY <1>1, <1>2, <2>1, <2>2
  <1> QED BY <1>3, <1>4, <1>5, <1>6 DEF IInv

\* A transaction ends, whatever it did to the rows of neither table.
LEMMA GivesUp ==
    ASSUME IInv, NEW w \in Workers, Ends(w), UNCHANGED <<config, rows>>
    PROVE  IInv'
  <1>1. NoTx \in Transaction /\ NoTx.op = "none"
    BY AccessAssumption DEF AccessAssumption, NoTx, Transaction
  <1> QED BY <1>1, Proceeds DEF Ends

\* Ending a transaction keeps the others.
LEMMA Ended ==
    ASSUME TypeOK, NEW w \in Workers, Ends(w)
    PROVE  /\ tx' \in [Workers -> Transaction]
           /\ \A v \in Workers : tx'[v] = tx[v] \/ tx'[v] = NoTx
  <1>1. NoTx \in Transaction
    BY AccessAssumption DEF AccessAssumption, NoTx, Transaction
  <1> QED BY <1>1 DEF TypeOK, Ends

\* The steps that only write requests and end a transaction.
LEMMA Records ==
    ASSUME IInv, UNCHANGED <<config, grants>>,
           NEW w \in Workers, Ends(w),
           requests' \in Seq(Request), Len(requests') <= MaxRequests,
           Len(requests) <= Len(requests'),
           \A i \in 1..Len(requests) : requests'[i].asked = requests[i].asked
    PROVE  IInv'
  <1> USE DEF config
  <1>0. Len(requests) \in Nat /\ Len(requests') \in Nat
    BY DEF IInv, TypeOK
  <1>1. /\ tx' \in [Workers -> Transaction]
        /\ \A v \in Workers : tx'[v] = tx[v] \/ tx'[v] = NoTx
    BY Ended DEF IInv
  <1>2. TypeOK'
    BY <1>0, <1>1 DEF IInv, TypeOK, NoTx
  <1>3. TimesOK'
    BY <1>0, <1>1 DEF IInv, TypeOK, TimesOK, NoTx
  <1>4. ForExists'
    BY <1>0 DEF IInv, ForExists
  <1>5. JitIsTemporary'
    BY <1>0 DEF IInv, ForExists, JitIsTemporary
  <1> QED BY <1>2, <1>3, <1>4, <1>5 DEF IInv

\* The steps that change one setting.
LEMMA Configures ==
    ASSUME IInv, UNCHANGED <<rows, tx>>,
           public' \in BOOLEAN, member' \in BOOLEAN, toolCeiling' \in 0..MaxDuration,
           policy' \in [enabled : BOOLEAN, auto : BOOLEAN, ceiling : Durations]
    PROVE  IInv'
  <1> USE DEF rows
  <1>1. TypeOK'
    BY DEF IInv, TypeOK
  <1>2. TimesOK' /\ ForExists' /\ JitIsTemporary'
    BY DEF IInv, TimesOK, ForExists, JitIsTemporary
  <1> QED BY <1>1, <1>2 DEF IInv

-----------------------------------------------------------------------------
(* The actions *)

LEMMA AskInv == ASSUME IInv, NEW w \in Workers, Ask(w) PROVE IInv'
  <1> USE AccessAssumption DEF AccessAssumption
  <1>0. tx[w] \in Transaction /\ TypeOK
    BY DEF IInv, TypeOK
  <1>1. CASE LoadStanding(w)
    <2>1. PICK t : t = [NoTx EXCEPT !.op = "submit"]
      OBVIOUS
    <2>2. t = [op |-> "submit", step |-> "loaded", on |-> 0, time |-> 0,
               auto |-> FALSE, covered |-> FALSE]
      BY <2>1 DEF NoTx
    <2>3. t \in Transaction /\ t.op = "submit"
      BY <2>2 DEF Transaction
    <2> QED BY <1>1, <2>1, <2>3, Proceeds DEF LoadStanding, Goes
  <1>2. ASSUME NEW d \in Durations, LoadJit(w, d) PROVE IInv'
    <2>1. PICK t : t = [NoTx EXCEPT !.op = "jit", !.time = d, !.auto = policy.auto]
      OBVIOUS
    <2>2. t = [op |-> "jit", step |-> "loaded", on |-> 0, time |-> d,
               auto |-> policy.auto, covered |-> FALSE]
      BY <2>1 DEF NoTx
    <2>3. policy.auto \in BOOLEAN
      BY <1>0 DEF TypeOK
    <2>4. t \in Transaction /\ t.op = "jit" /\ t.time # 0
      BY <2>2, <2>3 DEF Transaction, Durations
    <2> QED BY <1>2, <2>1, <2>4, Proceeds DEF LoadJit, Goes
  <1>3. ASSUME NEW d \in Durations, LoadTool(w, d) PROVE IInv'
    <2>1. PICK t : t = [NoTx EXCEPT !.op = "elevate", !.time = d, !.auto = policy.auto]
      OBVIOUS
    <2>2. t = [op |-> "elevate", step |-> "loaded", on |-> 0, time |-> d,
               auto |-> policy.auto, covered |-> FALSE]
      BY <2>1 DEF NoTx
    <2>3. policy.auto \in BOOLEAN
      BY <1>0 DEF TypeOK
    <2>4. t \in Transaction /\ t.op = "elevate" /\ t.time # 0
      BY <2>2, <2>3 DEF Transaction, Durations
    <2> QED BY <1>3, <2>1, <2>4, Proceeds DEF LoadTool, Goes
  <1>4. CASE CheckRequest(w)
    <2>1. CASE Ends(w)
      BY <1>4, <2>1, GivesUp DEF CheckRequest
    <2>2. CASE Goes(w, [tx[w] EXCEPT !.step = "checked"])
      <3>1. PICK t : t = [tx[w] EXCEPT !.step = "checked"]
        OBVIOUS
      <3>2. t \in Transaction /\ t.op = tx[w].op /\ t.time = tx[w].time
        BY <1>0, <3>1 DEF Transaction
      <3>3. t.op \in {"jit", "elevate"} => t.time # 0
        BY <3>2 DEF IInv, TimesOK
      <3> QED BY <1>4, <2>2, <3>1, <3>2, <3>3, Proceeds DEF CheckRequest, Goes
    <2> QED BY <1>4, <2>1, <2>2 DEF CheckRequest
  <1>5. CASE Enqueue(w)
    <2>0. requests \in Seq(Request) /\ Len(requests) \in Nat /\ Len(requests) <= MaxRequests
      BY <1>0 DEF TypeOK
    <2>1. CASE UNCHANGED requests
      BY <1>5, <2>0, <2>1, Records DEF Enqueue
    <2>2. CASE requests' # requests
      <3>1. PICK e : e = [status |-> "pending", tool |-> tx[w].op = "elevate",
                          asked |-> tx[w].time, grant |-> 0]
        OBVIOUS
      <3>2. e \in Request
        BY <1>0, <3>1 DEF Request, Transaction
      <3>3. requests' = Append(requests, e) /\ Len(requests) < MaxRequests
        BY <1>5, <2>2, <3>1 DEF Enqueue
      <3>4. /\ requests' \in Seq(Request)
            /\ Len(requests') = Len(requests) + 1
            /\ \A i \in 1..Len(requests) : requests'[i] = requests[i]
        BY <2>0, <3>2, <3>3, Appended
      <3>5. Len(requests') <= MaxRequests /\ Len(requests) <= Len(requests')
        BY <2>0, <3>3, <3>4
      <3> QED BY <1>5, <3>4, <3>5, Records DEF Enqueue
    <2> QED BY <2>1, <2>2
  <1>6. CASE AutoGrant(w)
    <2>1. /\ tx' \in [Workers -> Transaction]
          /\ \A v \in Workers : tx'[v] = tx[v] \/ tx'[v] = NoTx
      BY <1>0, <1>6, Ended DEF AutoGrant
    <2>2. tx[w].time \in Forever..MaxDuration /\ tx[w].time # Forever
      BY <1>0 DEF Transaction, Forever
    <2>3. PICK kind \in {"user", "group", "tool"} :
              Insert(kind, "jit_auto", tx[w].time, 0)
      BY <1>6 DEF AutoGrant
    <2>4. requests' = requests /\ requests \in Seq(Request) /\ Len(requests) \in Nat
      BY <1>0, <1>6 DEF AutoGrant, TypeOK
    <2>5. 0 \in 0..Len(requests)
      BY <2>4
    <2> QED BY <1>6, <2>1, <2>2, <2>3, <2>4, <2>5, Issues DEF AutoGrant
  <1> QED BY <1>1, <1>2, <1>3, <1>4, <1>5, <1>6 DEF Ask

LEMMA LoadPendingInv ==
    ASSUME IInv, NEW w \in Workers, NEW r \in 1..Len(requests), NEW d \in 0..MaxDuration,
           NEW op \in {"approve", "decline", "withdraw"}, LoadPending(w, op, r, d)
    PROVE  IInv'
  <1> USE AccessAssumption DEF AccessAssumption
  <1>1. requests[r] \in Request /\ r \in 0..MaxRequests
    BY DEF IInv, TypeOK
  <1>2. PICK t : t = [NoTx EXCEPT !.op = op, !.on = r,
                          !.time = IF d = 0 THEN requests[r].asked ELSE d]
    OBVIOUS
  <1>3. /\ t.op = op /\ t.on = r /\ t.step = "loaded"
        /\ t.time = IF d = 0 THEN requests[r].asked ELSE d
    BY <1>2 DEF NoTx
  <1>4. t.time \in 0..MaxDuration
    BY <1>1, <1>3 DEF Request
  <1>5. t \in Transaction
    BY <1>1, <1>2, <1>4 DEF NoTx, Transaction, Request
  <1>6. requests[r].asked # 0 => t.time # 0
    BY <1>3
  <1> QED BY <1>2, <1>3, <1>5, <1>6, Proceeds DEF LoadPending, Goes

LEMMA CheckApprovalInv ==
    ASSUME IInv, NEW w \in Workers, CheckApproval(w)
    PROVE  IInv'
  <1>1. CASE Ends(w)
    BY <1>1, GivesUp DEF CheckApproval
  <1>2. CASE ~Ends(w)
    <2>0. tx[w] \in Transaction /\ tx[w].on \in 1..Len(requests)
      BY DEF CheckApproval, IInv, TypeOK
    <2>1. PICK covered \in BOOLEAN :
            /\ covered = (~requests[tx[w].on].tool /\ HasAccess)
            /\ covered \/ WithinLimits(tx[w].on, tx[w].time)
            /\ Goes(w, [tx[w] EXCEPT !.step = "checked", !.covered = covered])
      BY <1>2, Zenon DEF CheckApproval
    <2>2. PICK t : t = [tx[w] EXCEPT !.step = "checked", !.covered = covered]
      OBVIOUS
    <2>3. /\ t \in Transaction /\ t.op = "approve" /\ t.on = tx[w].on
          /\ t.time = tx[w].time
      BY <2>0, <2>2 DEF Transaction, CheckApproval
    <2>4. t.covered = covered
      BY <2>0, <2>2 DEF Transaction
    <2>5. requests[t.on].asked # 0 => t.time # 0
      BY <2>3 DEF IInv, TimesOK, CheckApproval
    <2>6. requests[t.on].asked # 0 /\ ~t.covered => t.time <= requests[t.on].asked
      BY <2>1, <2>3, <2>4 DEF WithinLimits
    <2> QED BY <2>0, <2>1, <2>2, <2>3, <2>5, <2>6, Proceeds DEF CheckApproval, Goes
  <1> QED BY <1>1, <1>2

LEMMA CommitApprovalInv ==
    ASSUME IInv, NEW w \in Workers, CommitApproval(w)
    PROVE  IInv'
  <1> USE AccessAssumption DEF AccessAssumption
  <1> DEFINE t == tx[w]
             r == tx[w].on
  <1>0. /\ t \in Transaction /\ r \in 1..Len(requests) /\ requests[r] \in Request
        /\ TypeOK /\ requests \in Seq(Request) /\ Len(requests) \in Nat
        /\ Len(requests) <= MaxRequests
    BY DEF CommitApproval, IInv, TypeOK
  <1>1. PICK grant \in 0..MaxGrants : Decide(r, "approved", grant)
    <2>1. CASE t.covered \/ requests[r].tool
      <3>1. Decide(r, "approved", 0) /\ 0 \in 0..MaxGrants
        BY <2>1 DEF CommitApproval
      <3> QED BY <3>1
    <2>2. CASE ~(t.covered \/ requests[r].tool)
      <3>1. Decide(r, "approved", Len(grants) + 1) /\ Len(grants) < MaxGrants
        BY <2>2 DEF CommitApproval, Insert
      <3>2. Len(grants) + 1 \in 0..MaxGrants
        BY <1>0, <3>1 DEF TypeOK
      <3> QED BY <3>1, <3>2
    <2> QED BY <2>1, <2>2
  <1>2. /\ requests' \in Seq(Request)
        /\ Len(requests') = Len(requests)
        /\ \A i \in 1..Len(requests) : requests'[i].asked = requests[i].asked
    BY <1>0, <1>1, Decided
  <1>3. CASE t.covered
    <2>1. UNCHANGED <<config, grants>> /\ Ends(w)
      BY <1>3 DEF CommitApproval
    <2>2. Len(requests') <= MaxRequests /\ Len(requests) <= Len(requests')
      BY <1>0, <1>2
    <2> QED BY <1>2, <2>1, <2>2, Records
  <1>4. CASE ~t.covered
    <2>1. PICK kind \in {"user", "group", "tool"},
               via \in {"operator", "jit_auto", "jit_approved"},
               left \in {Forever, t.time} :
              /\ Insert(kind, via, left, r)
              /\ via = IF t.time = 0 THEN "operator" ELSE "jit_approved"
              /\ left = IF t.time = 0 THEN Forever ELSE t.time
      BY <1>4 DEF CommitApproval
    <2>2. left \in Forever..MaxDuration
      BY <1>0, <2>1 DEF Transaction, Forever
    <2>3. via # "operator" => left # Forever
      BY <1>0, <2>1 DEF Transaction, Forever
    <2>4. requests[r].asked # 0 => left \in 0..requests[r].asked
      <3>1. requests[r].asked # 0 => t.time # 0 /\ t.time <= requests[r].asked
        BY <1>4 DEF IInv, TimesOK, CommitApproval
      <3> QED BY <1>0, <2>1, <3>1 DEF Transaction, Request
    <2>5. /\ tx' \in [Workers -> Transaction]
          /\ \A v \in Workers : tx'[v] = tx[v] \/ tx'[v] = NoTx
      BY <1>0, Ended DEF CommitApproval
    <2>6. r \in 0..Len(requests) /\ UNCHANGED config
      BY <1>0 DEF CommitApproval
    <2> HIDE DEF t, r
    <2> QED BY <1>2, <2>1, <2>2, <2>3, <2>4, <2>5, <2>6, Issues
  <1> QED BY <1>3, <1>4

LEMMA CommitRefusalInv ==
    ASSUME IInv, NEW w \in Workers, CommitRefusal(w)
    PROVE  IInv'
  <1>0. /\ tx[w].on \in 1..Len(requests)
        /\ requests \in Seq(Request) /\ Len(requests) \in Nat
        /\ Len(requests) <= MaxRequests /\ 0 \in 0..MaxGrants
    BY AccessAssumption DEF AccessAssumption, CommitRefusal, IInv, TypeOK
  <1>1. PICK status \in {"approved", "declined", "withdrawn"} : Decide(tx[w].on, status, 0)
    BY DEF CommitRefusal
  <1>2. /\ requests' \in Seq(Request)
        /\ Len(requests') = Len(requests)
        /\ \A i \in 1..Len(requests) : requests'[i].asked = requests[i].asked
    BY <1>0, <1>1, Decided
  <1>3. Len(requests') <= MaxRequests /\ Len(requests) <= Len(requests')
    BY <1>0, <1>2
  <1> QED BY <1>2, <1>3, Records DEF CommitRefusal

LEMMA AdministerInv == ASSUME IInv, Administer PROVE IInv'
  <1> USE AccessAssumption DEF AccessAssumption
  <1>0. TypeOK
    BY DEF IInv
  <1>1. CASE IssueGrant
    <2>1. PICK kind \in {"user", "group"}, left \in {Forever} \cup Durations :
              Insert(kind, "operator", left, 0)
      BY <1>1 DEF IssueGrant
    <2>2. left \in Forever..MaxDuration
      BY DEF Forever, Durations
    <2>3. /\ requests' = requests /\ requests \in Seq(Request) /\ Len(requests) \in Nat
          /\ tx' = tx /\ tx \in [Workers -> Transaction] /\ UNCHANGED config
      BY <1>0, <1>1 DEF IssueGrant, TypeOK
    <2>4. 0 \in 0..Len(requests)
      BY <2>3
    <2> QED BY <2>1, <2>2, <2>3, <2>4, Issues
  <1>2. CASE RevokeGrant
    <2>1. PICK g \in 1..Len(grants) : grants' = [grants EXCEPT ![g].revoked = TRUE]
      BY <1>2 DEF RevokeGrant
    <2>2. grants \in Seq(Grant) /\ grants[g] \in Grant
      BY <1>0 DEF TypeOK
    <2>3. PICK e : e = [grants[g] EXCEPT !.revoked = TRUE]
      OBVIOUS
    <2>4. /\ e \in Grant /\ e.via = grants[g].via /\ e.left = grants[g].left
          /\ e.for = grants[g].for
      BY <2>2, <2>3 DEF Grant
    <2>5. grants' = [grants EXCEPT ![g] = e]
      BY <2>1, <2>3
    <2>6. /\ grants' \in Seq(Grant) /\ Len(grants') = Len(grants)
          /\ \A h \in 1..Len(grants) :
                /\ grants'[h].via = grants[h].via /\ grants'[h].left = grants[h].left
                /\ grants'[h].for = grants[h].for
      BY <2>2, <2>4, <2>5
    <2>7. UNCHANGED <<config, requests, tx>>
      BY <1>2 DEF RevokeGrant
    <2>8. TypeOK'
      BY <1>0, <2>6, <2>7 DEF TypeOK, config
    <2>9. TimesOK' /\ ForExists' /\ JitIsTemporary'
      BY <2>6, <2>7 DEF IInv, TimesOK, ForExists, JitIsTemporary
    <2> QED BY <2>8, <2>9 DEF IInv
  <1>3. CASE ConfigureJit
    BY <1>0, <1>3, Configures DEF ConfigureJit, TypeOK, Durations
  <1>4. CASE ConfigureTools
    BY <1>0, <1>4, Configures DEF ConfigureTools, TypeOK
  <1>5. CASE SetVisibility
    BY <1>0, <1>5, Configures DEF SetVisibility, TypeOK
  <1>6. CASE SetMembership
    BY <1>0, <1>6, Configures DEF SetMembership, TypeOK
  <1> QED BY <1>1, <1>2, <1>3, <1>4, <1>5, <1>6 DEF Administer

LEMMA TickInv == ASSUME IInv, Tick PROVE IInv'
  <1>0. TypeOK /\ grants \in Seq(Grant) /\ Len(grants) \in Nat
    BY DEF IInv, TypeOK
  <1>1. \A g \in 1..Len(grants) :
            /\ grants'[g] = [grants[g] EXCEPT
                    !.left = IF grants[g].left > 0 THEN grants[g].left - 1 ELSE grants[g].left]
    BY <1>0 DEF Tick
  <1>2. \A g \in 1..Len(grants) :
            /\ grants'[g] \in Grant
            /\ grants'[g].via = grants[g].via /\ grants'[g].for = grants[g].for
            /\ grants[g].left # Forever => grants'[g].left \in 0..grants[g].left
    <2> SUFFICES ASSUME NEW g \in 1..Len(grants)
                 PROVE /\ grants'[g] \in Grant
                       /\ grants'[g].via = grants[g].via /\ grants'[g].for = grants[g].for
                       /\ grants[g].left # Forever => grants'[g].left \in 0..grants[g].left
      OBVIOUS
    <2>1. grants[g] \in Grant
      BY <1>0
    <2>2. PICK left : left = IF grants[g].left > 0 THEN grants[g].left - 1 ELSE grants[g].left
      OBVIOUS
    <2>3. /\ left \in Forever..MaxDuration
          /\ grants[g].left # Forever => left \in 0..grants[g].left
      BY <2>1, <2>2, AccessAssumption DEF AccessAssumption, Grant, Forever
    <2>4. grants'[g] = [grants[g] EXCEPT !.left = left]
      BY <1>1, <2>2
    <2> QED BY <2>1, <2>3, <2>4 DEF Grant
  <1>3. grants' \in Seq(Grant) /\ Len(grants') = Len(grants)
    BY <1>0, <1>2 DEF Tick
  <1>4. UNCHANGED <<config, requests, tx>>
    BY DEF Tick
  <1>5. TypeOK'
    BY <1>0, <1>3, <1>4 DEF TypeOK, config
  <1>6. TimesOK' /\ ForExists'
    BY <1>2, <1>3, <1>4 DEF IInv, TimesOK, ForExists
  <1>7. JitIsTemporary'
    <2> SUFFICES ASSUME NEW g \in 1..Len(grants)
                 PROVE  /\ grants'[g].via # "operator" => grants'[g].left # Forever
                        /\ grants'[g].for # 0 =>
                            LET asked == requests[grants'[g].for].asked
                            IN  asked # 0 => grants'[g].left \in 0..asked
      BY <1>3, <1>4 DEF JitIsTemporary
    <2>1. grants[g].via # "operator" => grants[g].left # Forever
      BY DEF IInv, JitIsTemporary
    <2>2. CASE grants[g].for = 0 \/ requests[grants[g].for].asked = 0
      BY <1>2, <2>1, <2>2 DEF Forever
    <2>3. CASE grants[g].for # 0 /\ requests[grants[g].for].asked # 0
      <3>1. requests[grants[g].for] \in Request
        BY <1>0, <2>3 DEF IInv, TypeOK, ForExists
      <3>2. grants[g].left \in 0..requests[grants[g].for].asked
        BY <2>3 DEF IInv, JitIsTemporary
      <3>3. grants'[g].left \in 0..grants[g].left
        BY <1>2, <3>1, <3>2 DEF Request, Forever
      <3>4. grants'[g].left \in 0..requests[grants[g].for].asked
        BY <3>1, <3>2, <3>3 DEF Request
      <3> QED BY <1>2, <3>3, <3>4 DEF Forever
    <2> QED BY <2>2, <2>3
  <1> QED BY <1>5, <1>6, <1>7 DEF IInv

-----------------------------------------------------------------------------
(* Decisions that overlap *)

\* Every overlap is remembered.
RacesOK == raced \subseteq 1..Len(requests) /\ Overlap \subseteq raced

\* A request that is being decided by one worker only is still pending: nobody
\* else decides it between the load and the commit.
OnPending ==
    \A w \in Workers :
        /\ tx[w].on \in 0..Len(requests)
        /\ tx[w].on \notin raced \cup {0} => requests[tx[w].on].status = "pending"

\* A request names a grant that exists.
NamesGrant ==
    \A i \in 1..Len(requests) : requests[i].grant # 0 => requests[i].grant \in 1..Len(grants)

RaceInv == RacesOK /\ OnPending /\ NamesGrant /\ GrantMatchesDecision

\* What worker w is deciding after a step: nothing, what it was deciding, or a
\* pending request that it loaded.
Follows(w) ==
    \/ tx'[w].on \in {0, tx[w].on}
    \/ tx'[w].on \in 1..Len(requests) /\ requests[tx'[w].on].status = "pending"

LEMMA RaceInit == IInv /\ RInit => RaceInv
  <1> SUFFICES ASSUME IInv, RInit PROVE RaceInv
    OBVIOUS
  <1> USE DEF RInit, Init
  <1>1. \A w \in Workers : tx[w].on = 0
    BY DEF NoTx
  <1>2. RacesOK
    BY DEF RacesOK, Overlap
  <1>3. OnPending
    BY <1>1 DEF OnPending
  <1>4. NamesGrant /\ GrantMatchesDecision
    BY DEF NamesGrant, GrantMatchesDecision
  <1> QED BY <1>2, <1>3, <1>4 DEF RaceInv

\* The history only grows, as the table does.
LEMMA RacesGrow ==
    ASSUME RacesOK, raced' = raced \cup Overlap', Len(requests) \in Nat,
           Len(requests') \in Nat, Len(requests) <= Len(requests')
    PROVE  RacesOK' /\ raced \subseteq raced'
  <1>1. Overlap' \subseteq 1..Len(requests')
    BY DEF Overlap
  <1>2. 1..Len(requests) \subseteq 1..Len(requests')
    OBVIOUS
  <1> QED BY <1>1, <1>2 DEF RacesOK

\* The steps that decide nothing and insert at most grants that no request led to.
LEMMA Unrelated ==
    ASSUME IInv, RaceInv, raced' = raced \cup Overlap', requests' = requests,
           grants' \in Seq(Grant), Len(grants) <= Len(grants'),
           \A g \in 1..Len(grants) :
                grants'[g].for = grants[g].for /\ grants'[g].kind = grants[g].kind,
           \A g \in 1..Len(grants') : g \notin 1..Len(grants) => grants'[g].for = 0,
           \A w \in Workers : Follows(w)
    PROVE  RaceInv'
  <1>0. Len(requests) \in Nat /\ Len(grants) \in Nat /\ Len(grants') \in Nat
    BY DEF IInv, TypeOK
  <1>1. RacesOK' /\ raced \subseteq raced'
    BY <1>0, RacesGrow DEF RaceInv
  <1>2. OnPending'
    BY <1>0, <1>1 DEF RaceInv, OnPending, Follows
  <1>3. NamesGrant'
    BY <1>0 DEF RaceInv, NamesGrant
  <1>4. ASSUME NEW g \in 1..Len(grants'), grants'[g].for \notin raced' \cup {0}
        PROVE  /\ requests'[grants'[g].for].status = "approved"
               /\ \A h \in 1..Len(grants') : grants'[h].for = grants'[g].for => h = g
               /\ grants'[g].kind = "user" => requests'[grants'[g].for].grant = g
    <2>1. g \in 1..Len(grants) /\ grants[g].for \notin raced \cup {0}
      BY <1>1, <1>4
    <2>2. /\ requests[grants[g].for].status = "approved"
          /\ \A h \in 1..Len(grants) : grants[h].for = grants[g].for => h = g
          /\ grants[g].kind = "user" => requests[grants[g].for].grant = g
      BY <2>1 DEF RaceInv, GrantMatchesDecision
    <2> QED BY <1>4, <2>1, <2>2
  <1>5. \A i \in 1..Len(requests') :
            requests'[i].grant # 0 => grants'[requests'[i].grant].for = i
    BY DEF RaceInv, NamesGrant, GrantMatchesDecision
  <1>6. GrantMatchesDecision'
    BY <1>4, <1>5 DEF GrantMatchesDecision
  <1> QED BY <1>1, <1>2, <1>3, <1>6 DEF RaceInv

\* A step that does not touch the tables' rows but for the validity of grants.
LEMMA Untouched ==
    ASSUME IInv, RaceInv, raced' = raced \cup Overlap', UNCHANGED rows,
           \A w \in Workers : Follows(w)
    PROVE  RaceInv'
  <1>1. grants \in Seq(Grant) /\ Len(grants) \in Nat
    BY DEF IInv, TypeOK
  <1> QED BY <1>1, Unrelated DEF rows

\* A worker goes on as t, and the others are where they were.
LEMMA Followed ==
    ASSUME TypeOK, NEW w \in Workers, NEW t, Goes(w, t),
           \/ t.on \in {0, tx[w].on}
           \/ t.on \in 1..Len(requests) /\ requests[t.on].status = "pending"
    PROVE  \A v \in Workers : Follows(v)
  <1>1. \A v \in Workers : tx'[v] = IF v = w THEN t ELSE tx[v]
    BY DEF TypeOK, Goes
  <1> QED BY <1>1 DEF Follows

LEMMA Idles ==
    ASSUME TypeOK, NEW w \in Workers, Ends(w)
    PROVE  /\ \A v \in Workers : Follows(v)
           /\ \A v \in Workers : tx'[v] = IF v = w THEN NoTx ELSE tx[v]
           /\ tx'[w].on = 0
  <1>1. \A v \in Workers : tx'[v] = IF v = w THEN NoTx ELSE tx[v]
    BY DEF TypeOK, Ends
  <1> QED BY <1>1 DEF Follows, NoTx

\* A grant that no request led to is inserted.
LEMMA Inserting ==
    ASSUME IInv, RaceInv, raced' = raced \cup Overlap', requests' = requests,
           NEW kind \in {"user", "group", "tool"},
           NEW via \in {"operator", "jit_auto", "jit_approved"},
           NEW left \in Forever..MaxDuration, Insert(kind, via, left, 0),
           \A w \in Workers : Follows(w)
    PROVE  RaceInv'
  <1>1. /\ grants' \in Seq(Grant)
        /\ Len(grants') = Len(grants) + 1
        /\ \A g \in 1..Len(grants) : grants'[g] = grants[g]
        /\ grants'[Len(grants) + 1].for = 0
    <2>1. TypeOK /\ 0 \in 0..MaxRequests
      BY AccessAssumption DEF AccessAssumption, IInv
    <2>2. /\ grants' \in Seq(Grant)
          /\ Len(grants') = Len(grants) + 1
          /\ \A g \in 1..Len(grants) : grants'[g] = grants[g]
          /\ grants'[Len(grants) + 1] =
               [kind |-> kind, via |-> via, left |-> left, revoked |-> FALSE, for |-> 0]
      BY <2>1, Inserted
    <2> QED BY <2>2
  <1>2. Len(grants) \in Nat
    BY DEF IInv, TypeOK
  <1>3. \A g \in 1..Len(grants') : g \notin 1..Len(grants) => g = Len(grants) + 1
    BY <1>1, <1>2
  <1> QED BY <1>1, <1>2, <1>3, Unrelated

\* A new request is pending, and no grant is for it.
LEMMA Queued ==
    ASSUME IInv, RaceInv, raced' = raced \cup Overlap', UNCHANGED grants,
           NEW e \in Request, e.status = "pending", e.grant = 0,
           requests' = Append(requests, e),
           \A w \in Workers : tx'[w].on \in {0, tx[w].on}
    PROVE  RaceInv'
  <1>0. requests \in Seq(Request) /\ Len(requests) \in Nat /\ Len(grants) \in Nat
    BY DEF IInv, TypeOK
  <1>1. /\ Len(requests') = Len(requests) + 1
        /\ \A i \in 1..Len(requests) : requests'[i] = requests[i]
        /\ requests'[Len(requests) + 1] = e
    BY <1>0, Appended
  <1>2. RacesOK' /\ raced \subseteq raced'
    BY <1>0, <1>1, RacesGrow DEF RaceInv
  <1>3. OnPending'
    <2> SUFFICES ASSUME NEW w \in Workers
                 PROVE  /\ tx'[w].on \in 0..Len(requests')
                        /\ tx'[w].on \notin raced' \cup {0} =>
                              requests'[tx'[w].on].status = "pending"
      BY DEF OnPending
    <2>1. tx[w].on \in 0..Len(requests)
      BY DEF RaceInv, OnPending
    <2>2. CASE tx'[w].on = 0
      BY <1>0, <1>1, <2>2
    <2>3. CASE tx'[w].on # 0
      <3>1. tx'[w].on = tx[w].on /\ tx[w].on \in 1..Len(requests)
        BY <1>0, <2>1, <2>3
      <3>2. requests'[tx[w].on] = requests[tx[w].on]
        BY <1>1, <3>1
      <3>3. tx[w].on \notin raced \cup {0} => requests[tx[w].on].status = "pending"
        BY DEF RaceInv, OnPending
      <3> QED BY <1>0, <1>1, <1>2, <2>1, <3>1, <3>2, <3>3
    <2> QED BY <2>2, <2>3
  <1>4. \A i \in 1..Len(requests') : i \in 1..Len(requests) \/ i = Len(requests) + 1
    BY <1>0, <1>1
  <1>5. NamesGrant'
    BY <1>1, <1>4 DEF RaceInv, NamesGrant
  <1>6. ASSUME NEW g \in 1..Len(grants), grants[g].for \notin raced' \cup {0}
        PROVE  /\ requests'[grants[g].for].status = "approved"
               /\ \A h \in 1..Len(grants) : grants[h].for = grants[g].for => h = g
               /\ grants[g].kind = "user" => requests'[grants[g].for].grant = g
    <2>1. grants[g].for \in 1..Len(requests)
      BY <1>0, <1>6 DEF IInv, ForExists
    <2>2. requests'[grants[g].for] = requests[grants[g].for]
      BY <1>1, <2>1
    <2> QED BY <1>2, <1>6, <2>2 DEF RaceInv, GrantMatchesDecision
  <1>7. \A i \in 1..Len(requests') :
            requests'[i].grant # 0 => grants[requests'[i].grant].for = i
    BY <1>1, <1>4 DEF RaceInv, GrantMatchesDecision
  <1>8. GrantMatchesDecision'
    BY <1>6, <1>7 DEF GrantMatchesDecision
  <1> QED BY <1>2, <1>3, <1>5, <1>8 DEF RaceInv

\* A worker writes its decision: of a request that nobody else was deciding, it is
\* the first, and a grant that comes of it is the only one.
LEMMA Settled ==
    ASSUME IInv, RaceInv, raced' = raced \cup Overlap',
           NEW w \in Workers, tx[w].on \in 1..Len(requests), Ends(w),
           NEW status \in {"approved", "declined", "withdrawn"},
           NEW grant \in 0..MaxGrants, Decide(tx[w].on, status, grant),
           grants' \in Seq(Grant),
           \/ grants' = grants /\ grant = 0
           \/ /\ status = "approved"
              /\ Len(grants') = Len(grants) + 1
              /\ \A g \in 1..Len(grants) : grants'[g] = grants[g]
              /\ grants'[Len(grants) + 1].for = tx[w].on
              /\ grant = IF grants'[Len(grants) + 1].kind = "user"
                            THEN Len(grants) + 1 ELSE 0
    PROVE  RaceInv'
  <1> DEFINE r == tx[w].on
  <1>0. /\ requests \in Seq(Request) /\ Len(requests) \in Nat
        /\ Len(grants) \in Nat /\ Len(grants') \in Nat /\ Len(grants) <= Len(grants')
    BY DEF IInv, TypeOK
  <1>1. /\ Len(requests') = Len(requests)
        /\ \A i \in 1..Len(requests) : i # r => requests'[i] = requests[i]
        /\ requests'[r].status = status
        /\ requests'[r].grant = IF grant = 0 THEN requests[r].grant ELSE grant
    BY <1>0, Decided
  <1>2. RacesOK' /\ raced \subseteq raced'
    BY <1>0, <1>1, RacesGrow DEF RaceInv
  <1>3. r \notin raced => requests[r].status = "pending"
    BY <1>0 DEF RaceInv, OnPending
  <1>4. \A v \in Workers : tx'[v] = IF v = w THEN NoTx ELSE tx[v]
    BY Idles DEF IInv
  <1>5. \A g \in 1..Len(grants) : grants'[g] = grants[g]
    OBVIOUS
  <1>6. \A g \in 1..Len(grants') : g \in 1..Len(grants) \/
            (g = Len(grants) + 1 /\ Len(grants') = Len(grants) + 1)
    BY <1>0
  \* No request but r loses what it had.
  <1>7. ASSUME NEW g \in 1..Len(grants), grants[g].for \notin raced \cup {0}
        PROVE  /\ grants[g].for # r
               /\ requests'[grants[g].for] = requests[grants[g].for]
               /\ requests[grants[g].for].status = "approved"
               /\ \A h \in 1..Len(grants) : grants[h].for = grants[g].for => h = g
               /\ grants[g].kind = "user" => requests[grants[g].for].grant = g
    <2>1. /\ requests[grants[g].for].status = "approved"
          /\ \A h \in 1..Len(grants) : grants[h].for = grants[g].for => h = g
          /\ grants[g].kind = "user" => requests[grants[g].for].grant = g
      BY <1>7 DEF RaceInv, GrantMatchesDecision
    <2>2. grants[g].for # r
      BY <1>3, <1>7, <2>1
    <2>3. grants[g].for \in 1..Len(requests)
      BY <1>0, <1>7 DEF IInv, ForExists
    <2> QED BY <1>1, <2>1, <2>2, <2>3
  <1>8. OnPending'
    <2> SUFFICES ASSUME NEW v \in Workers
                 PROVE  /\ tx'[v].on \in 0..Len(requests')
                        /\ tx'[v].on \notin raced' \cup {0} =>
                              requests'[tx'[v].on].status = "pending"
      BY DEF OnPending
    <2>1. CASE v = w
      BY <1>0, <1>1, <1>4, <2>1 DEF NoTx
    <2>2. CASE v # w
      <3>1. tx'[v].on = tx[v].on /\ tx[v].on \in 0..Len(requests)
        BY <1>4, <2>2 DEF RaceInv, OnPending
      <3>2. tx[v].on # 0 /\ tx[v].on = r => r \in raced
        BY <2>2 DEF RaceInv, RacesOK, Overlap
      <3>3. ASSUME tx[v].on \notin raced \cup {0}
            PROVE  requests'[tx[v].on].status = "pending"
        <4>1. tx[v].on # r /\ tx[v].on \in 1..Len(requests)
          BY <1>0, <3>1, <3>2, <3>3
        <4>2. requests[tx[v].on].status = "pending"
          BY <3>3 DEF RaceInv, OnPending
        <4> QED BY <1>1, <4>1, <4>2
      <3> QED BY <1>1, <1>2, <3>1, <3>3
    <2> QED BY <2>1, <2>2
  <1>9. NamesGrant'
    <2> SUFFICES ASSUME NEW i \in 1..Len(requests), requests'[i].grant # 0
                 PROVE  requests'[i].grant \in 1..Len(grants')
      BY <1>1 DEF NamesGrant
    <2>1. requests[i].grant # 0 => requests[i].grant \in 1..Len(grants')
      BY <1>0 DEF RaceInv, NamesGrant
    <2>2. grant # 0 => grant \in 1..Len(grants')
      BY <1>0
    <2> QED BY <1>1, <2>1, <2>2
  <1>10. ASSUME NEW g \in 1..Len(grants'), grants'[g].for \notin raced' \cup {0}
         PROVE  /\ requests'[grants'[g].for].status = "approved"
                /\ \A h \in 1..Len(grants') : grants'[h].for = grants'[g].for => h = g
                /\ grants'[g].kind = "user" => requests'[grants'[g].for].grant = g
    <2>1. CASE g \in 1..Len(grants)
      <3>1. grants'[g] = grants[g] /\ grants[g].for \notin raced \cup {0}
        BY <1>2, <1>5, <1>10, <2>1
      <3>2. /\ grants[g].for # r
            /\ requests'[grants[g].for] = requests[grants[g].for]
            /\ requests[grants[g].for].status = "approved"
            /\ \A h \in 1..Len(grants) : grants[h].for = grants[g].for => h = g
            /\ grants[g].kind = "user" => requests[grants[g].for].grant = g
        BY <1>7, <2>1, <3>1
      <3>3. \A h \in 1..Len(grants') : grants'[h].for = grants[g].for => h = g
        BY <1>5, <1>6, <3>2
      <3> QED BY <3>1, <3>2, <3>3
    <2>2. CASE g = Len(grants) + 1 /\ g \notin 1..Len(grants)
      <3>1. /\ status = "approved" /\ grants'[g].for = r
            /\ grant = IF grants'[g].kind = "user" THEN g ELSE 0
        BY <1>0, <2>2
      <3>2. requests[r].status = "pending" /\ r \notin raced \cup {0}
        BY <1>2, <1>3, <1>10, <3>1
      <3>3. \A h \in 1..Len(grants) : grants'[h].for # r
        BY <1>5, <1>7, <3>2
      <3>4. \A h \in 1..Len(grants') : grants'[h].for = r => h = g
        BY <1>6, <2>2, <3>3
      <3>5. grants'[g].kind = "user" => requests'[r].grant = g
        BY <1>0, <1>1, <2>2, <3>1
      <3> QED BY <1>1, <3>1, <3>4, <3>5
    <2> QED BY <1>0, <1>6, <2>1, <2>2
  <1>11. ASSUME NEW i \in 1..Len(requests), requests'[i].grant # 0
         PROVE  grants'[requests'[i].grant].for = i
    <2>1. CASE requests'[i].grant = requests[i].grant
      BY <1>5, <1>11, <2>1 DEF RaceInv, NamesGrant, GrantMatchesDecision
    <2>2. CASE requests'[i].grant # requests[i].grant
      BY <1>1, <2>2
    <2> QED BY <2>1, <2>2
  <1>12. GrantMatchesDecision'
    BY <1>1, <1>10, <1>11 DEF GrantMatchesDecision
  <1> QED BY <1>2, <1>8, <1>9, <1>12 DEF RaceInv

LEMMA AskRaces ==
    ASSUME IInv, RaceInv, raced' = raced \cup Overlap', NEW w \in Workers, Ask(w)
    PROVE  RaceInv'
  <1>0. TypeOK /\ tx[w] \in Transaction
    BY DEF IInv, TypeOK
  <1>1. CASE LoadStanding(w)
    <2>1. Goes(w, [NoTx EXCEPT !.op = "submit"]) /\ [NoTx EXCEPT !.op = "submit"].on = 0
      BY <1>1 DEF LoadStanding, NoTx
    <2>2. \A v \in Workers : Follows(v)
      BY <1>0, <2>1, Followed
    <2> QED BY <1>1, <2>2, Untouched DEF LoadStanding
  <1>2. ASSUME NEW d \in Durations, LoadJit(w, d) PROVE RaceInv'
    <2>1. PICK t : Goes(w, t) /\ t = [NoTx EXCEPT !.op = "jit", !.time = d, !.auto = policy.auto]
      BY <1>2 DEF LoadJit
    <2>2. t.on = 0
      BY <2>1 DEF NoTx
    <2>3. \A v \in Workers : Follows(v)
      BY <1>0, <2>1, <2>2, Followed
    <2> QED BY <1>2, <2>3, Untouched DEF LoadJit
  <1>3. ASSUME NEW d \in Durations, LoadTool(w, d) PROVE RaceInv'
    <2>1. PICK t : Goes(w, t) /\ t = [NoTx EXCEPT !.op = "elevate", !.time = d, !.auto = policy.auto]
      BY <1>3 DEF LoadTool
    <2>2. t.on = 0
      BY <2>1 DEF NoTx
    <2>3. \A v \in Workers : Follows(v)
      BY <1>0, <2>1, <2>2, Followed
    <2> QED BY <1>3, <2>3, Untouched DEF LoadTool
  <1>4. CASE CheckRequest(w)
    <2>1. \A v \in Workers : Follows(v)
      <3>1. CASE Ends(w)
        BY <1>0, <3>1, Idles
      <3>2. CASE Goes(w, [tx[w] EXCEPT !.step = "checked"])
        <4>1. [tx[w] EXCEPT !.step = "checked"].on = tx[w].on
          BY <1>0 DEF Transaction
        <4> QED BY <1>0, <3>2, <4>1, Followed
      <3> QED BY <1>4, <3>1, <3>2 DEF CheckRequest
    <2> QED BY <1>4, <2>1, Untouched DEF CheckRequest
  <1>5. CASE Enqueue(w)
    <2>1. /\ \A v \in Workers : Follows(v)
          /\ \A v \in Workers : tx'[v].on \in {0, tx[v].on}
      BY <1>0, <1>5, Idles DEF Enqueue, NoTx
    <2>2. CASE UNCHANGED requests
      BY <1>5, <2>1, <2>2, Untouched DEF Enqueue, rows
    <2>3. CASE requests' # requests
      <3>1. PICK e : e = [status |-> "pending", tool |-> tx[w].op = "elevate",
                          asked |-> tx[w].time, grant |-> 0]
        OBVIOUS
      <3>2. e \in Request /\ e.status = "pending" /\ e.grant = 0
        BY <1>0, <3>1, AccessAssumption DEF AccessAssumption, Request, Transaction
      <3>3. requests' = Append(requests, e) /\ UNCHANGED grants
        BY <1>5, <2>3, <3>1 DEF Enqueue
      <3> QED BY <2>1, <3>2, <3>3, Queued
    <2> QED BY <2>2, <2>3
  <1>6. CASE AutoGrant(w)
    <2>1. \A v \in Workers : Follows(v)
      BY <1>0, <1>6, Idles DEF AutoGrant
    <2>2. tx[w].time \in Forever..MaxDuration
      BY <1>0 DEF Transaction, Forever
    <2>3. PICK kind \in {"user", "group", "tool"} :
              Insert(kind, "jit_auto", tx[w].time, 0)
      BY <1>6 DEF AutoGrant
    <2>4. requests' = requests
      BY <1>6 DEF AutoGrant
    <2> QED BY <2>1, <2>2, <2>3, <2>4, Inserting
  <1> QED BY <1>1, <1>2, <1>3, <1>4, <1>5, <1>6 DEF Ask

LEMMA LoadPendingRaces ==
    ASSUME IInv, RaceInv, raced' = raced \cup Overlap',
           NEW w \in Workers, NEW r \in 1..Len(requests), NEW d, NEW op,
           LoadPending(w, op, r, d)
    PROVE  RaceInv'
  <1>1. PICK t : Goes(w, t) /\ t = [NoTx EXCEPT !.op = op, !.on = r,
                          !.time = IF d = 0 THEN requests[r].asked ELSE d]
    BY DEF LoadPending
  <1>2. t.on = r /\ requests[r].status = "pending"
    BY <1>1 DEF NoTx, LoadPending
  <1>3. \A v \in Workers : Follows(v)
    BY <1>1, <1>2, Followed DEF IInv
  <1> QED BY <1>3, Untouched DEF LoadPending

LEMMA CheckApprovalRaces ==
    ASSUME IInv, RaceInv, raced' = raced \cup Overlap', NEW w \in Workers, CheckApproval(w)
    PROVE  RaceInv'
  <1>0. TypeOK /\ tx[w] \in Transaction
    BY DEF IInv, TypeOK
  <1>1. CASE Ends(w)
    BY <1>0, <1>1, Idles, Untouched DEF CheckApproval
  <1>2. CASE ~Ends(w)
    <2>1. PICK covered : Goes(w, [tx[w] EXCEPT !.step = "checked", !.covered = covered])
      BY <1>2 DEF CheckApproval
    <2>2. [tx[w] EXCEPT !.step = "checked", !.covered = covered].on = tx[w].on
      BY <1>0 DEF Transaction
    <2>3. \A v \in Workers : Follows(v)
      BY <1>0, <2>1, <2>2, Followed
    <2> QED BY <2>3, Untouched DEF CheckApproval
  <1> QED BY <1>1, <1>2

LEMMA CommitApprovalRaces ==
    ASSUME IInv, RaceInv, raced' = raced \cup Overlap', NEW w \in Workers, CommitApproval(w)
    PROVE  RaceInv'
  <1> DEFINE t == tx[w]
             r == tx[w].on
  <1>0. /\ t \in Transaction /\ r \in 1..Len(requests) /\ r \in 0..MaxRequests
        /\ TypeOK /\ grants \in Seq(Grant) /\ Len(grants) \in Nat /\ Ends(w)
    <2>1. TypeOK /\ t \in Transaction /\ t.op = "approve" /\ Ends(w)
      BY DEF CommitApproval, IInv, TypeOK
    <2>2. r \in 1..Len(requests) /\ r \in 0..MaxRequests
      BY <2>1 DEF TypeOK, Transaction
    <2>3. grants \in Seq(Grant) /\ Len(grants) \in Nat
      BY <2>1 DEF TypeOK
    <2> QED BY <2>1, <2>2, <2>3
  <1>1. CASE t.covered
    <2>1. grants' = grants /\ Decide(r, "approved", 0) /\ 0 \in 0..MaxGrants
      BY <1>1, AccessAssumption DEF AccessAssumption, CommitApproval
    <2> QED BY <1>0, <2>1, Settled
  <1>2. CASE ~t.covered
    <2> DEFINE kind == IF requests[r].tool THEN "tool" ELSE "user"
               via == IF t.time = 0 THEN "operator" ELSE "jit_approved"
               left == IF t.time = 0 THEN Forever ELSE t.time
    <2>1. /\ Insert(kind, via, left, r)
          /\ kind \in {"user", "group", "tool"}
          /\ via \in {"operator", "jit_auto", "jit_approved"}
      BY <1>2 DEF CommitApproval
    <2>2. left \in Forever..MaxDuration
      <3>1. t.time \in 0..MaxDuration
        BY <1>0 DEF Transaction
      <3> HIDE DEF t
      <3> QED BY <3>1, AccessAssumption DEF AccessAssumption, Forever
    <2> HIDE DEF via, left
    <2>3. /\ grants' \in Seq(Grant)
          /\ Len(grants') = Len(grants) + 1
          /\ Len(grants') <= MaxGrants
          /\ \A g \in 1..Len(grants) : grants'[g] = grants[g]
          /\ grants'[Len(grants) + 1] =
               [kind |-> kind, via |-> via, left |-> left, revoked |-> FALSE, for |-> r]
      <3> HIDE DEF kind, r
      <3> QED BY <1>0, <2>1, <2>2, Inserted
    <2>4. PICK grant : /\ grant = IF requests[r].tool THEN 0 ELSE Len(grants) + 1
                       /\ Decide(r, "approved", grant)
      BY <1>2 DEF CommitApproval
    <2>5. grants'[Len(grants) + 1].kind = kind /\ grants'[Len(grants) + 1].for = r
      BY <2>3
    <2>6. grant = IF grants'[Len(grants) + 1].kind = "user" THEN Len(grants) + 1 ELSE 0
      BY <2>1, <2>4, <2>5
    <2>7. grant \in 0..MaxGrants
      BY <1>0, <2>3, <2>4, AccessAssumption DEF AccessAssumption
    <2> QED BY <1>0, <2>3, <2>4, <2>5, <2>6, <2>7, Settled
  <1> QED BY <1>1, <1>2

LEMMA CommitRefusalRaces ==
    ASSUME IInv, RaceInv, raced' = raced \cup Overlap', NEW w \in Workers, CommitRefusal(w)
    PROVE  RaceInv'
  <1>1. tx[w].on \in 1..Len(requests) /\ grants \in Seq(Grant) /\ 0 \in 0..MaxGrants
    BY AccessAssumption DEF AccessAssumption, CommitRefusal, IInv, TypeOK
  <1>2. PICK status \in {"approved", "declined", "withdrawn"} : Decide(tx[w].on, status, 0)
    BY DEF CommitRefusal
  <1>3. Ends(w) /\ grants' = grants
    BY DEF CommitRefusal
  <1> QED BY <1>1, <1>2, <1>3, Settled

LEMMA AdministerRaces ==
    ASSUME IInv, RaceInv, raced' = raced \cup Overlap', Administer \/ Tick
    PROVE  RaceInv'
  <1>1. tx' = tx /\ requests' = requests /\ \A w \in Workers : Follows(w)
    BY DEF Administer, IssueGrant, RevokeGrant, ConfigureJit, ConfigureTools,
           SetVisibility, SetMembership, Tick, rows, Follows
  <1>2. grants \in Seq(Grant) /\ Len(grants) \in Nat
    BY DEF IInv, TypeOK
  <1>3. CASE IssueGrant
    <2>1. PICK kind \in {"user", "group"}, left \in {Forever} \cup Durations :
              Insert(kind, "operator", left, 0)
      BY <1>3 DEF IssueGrant
    <2>2. left \in Forever..MaxDuration
      BY AccessAssumption DEF AccessAssumption, Forever, Durations
    <2> QED BY <1>1, <2>1, <2>2, Inserting
  <1>4. CASE RevokeGrant
    <2>1. PICK g \in 1..Len(grants) : grants' = [grants EXCEPT ![g].revoked = TRUE]
      BY <1>4 DEF RevokeGrant
    <2>2. PICK e : e = [grants[g] EXCEPT !.revoked = TRUE]
      OBVIOUS
    <2>3. e \in Grant /\ e.for = grants[g].for /\ e.kind = grants[g].kind
      <3>1. grants[g] \in Grant
        BY <1>2
      <3> QED BY <2>2, <3>1 DEF Grant
    <2>4. grants' = [grants EXCEPT ![g] = e]
      BY <2>1, <2>2
    <2>5. /\ grants' \in Seq(Grant) /\ Len(grants') = Len(grants)
          /\ \A h \in 1..Len(grants) :
                grants'[h].for = grants[h].for /\ grants'[h].kind = grants[h].kind
      BY <1>2, <2>3, <2>4
    <2> QED BY <1>1, <1>2, <2>5, Unrelated
  <1>5. CASE Tick
    <2>1. \A g \in 1..Len(grants) :
            /\ grants'[g].for = grants[g].for
            /\ grants'[g].kind = grants[g].kind
      <3> SUFFICES ASSUME NEW g \in 1..Len(grants)
                   PROVE  grants'[g].for = grants[g].for /\ grants'[g].kind = grants[g].kind
        OBVIOUS
      <3>1. grants[g] \in Grant
        BY <1>2
      <3>2. PICK left : grants'[g] = [grants[g] EXCEPT !.left = left]
        BY <1>5 DEF Tick
      <3> QED BY <3>1, <3>2 DEF Grant
    <2>2. grants' \in Seq(Grant) /\ Len(grants') = Len(grants)
      <3>1. TypeOK'
        BY <1>5, TickInv DEF IInv
      <3> QED BY <1>2, <1>5, <3>1 DEF Tick, TypeOK
    <2> QED BY <1>1, <1>2, <2>1, <2>2, Unrelated
  <1>6. CASE ConfigureJit \/ ConfigureTools \/ SetVisibility \/ SetMembership
    <2>1. UNCHANGED rows
      BY <1>6 DEF ConfigureJit, ConfigureTools, SetVisibility, SetMembership
    <2> QED BY <1>1, <2>1, Untouched
  <1> QED BY <1>3, <1>4, <1>5, <1>6 DEF Administer

-----------------------------------------------------------------------------
(* The theorems *)

LEMMA InvStep == IInv /\ [Next]_vars => IInv'
  <1> SUFFICES ASSUME IInv, [Next]_vars PROVE IInv'
    OBVIOUS
  <1>1. ASSUME NEW w \in Workers, Settle(w) PROVE IInv'
    <2>1. ASSUME NEW r \in 1..Len(requests), NEW d \in 0..MaxDuration,
                 LoadPending(w, "approve", r, d)
          PROVE IInv'
      BY <2>1, LoadPendingInv
    <2>2. ASSUME NEW r \in 1..Len(requests), NEW op \in {"decline", "withdraw"},
                 LoadPending(w, op, r, 0)
          PROVE IInv'
      <3>1. 0 \in 0..MaxDuration
        BY AccessAssumption DEF AccessAssumption
      <3> QED BY <2>2, <3>1, LoadPendingInv
    <2> QED BY <1>1, <2>1, <2>2, CheckApprovalInv, CommitApprovalInv, CommitRefusalInv
            DEF Settle
  <1>2. CASE UNCHANGED vars
    BY <1>2 DEF vars, IInv, TypeOK, TimesOK, ForExists, JitIsTemporary
  <1> QED BY <1>1, <1>2, AskInv, AdministerInv, TickInv DEF Next

\* Rows and transactions keep their types, and no more rows are written than the
\* bounds, whatever requests are served at once.
THEOREM TypeCorrect == Spec => []TypeOK
  <1>1. IInv => TypeOK
    BY DEF IInv
  <1> QED BY <1>1, InitInv, InvStep, PTL DEF Spec

\* No JIT elevation outlasts what was asked for or becomes standing access,
\* however many requests and decisions are served at once and however the policy
\* changes between their steps.
THEOREM ElevationsAreTemporary == Spec => []JitIsTemporary
  <1>1. IInv => JitIsTemporary
    BY DEF IInv
  <1> QED BY <1>1, InitInv, InvStep, PTL DEF Spec

LEMMA RaceStep == IInv /\ RaceInv /\ [RNext]_<<vars, raced>> => RaceInv'
  <1> SUFFICES ASSUME IInv, RaceInv, [RNext]_<<vars, raced>> PROVE RaceInv'
    OBVIOUS
  <1>1. CASE RNext
    <2>1. raced' = raced \cup Overlap' /\ Next
      BY <1>1 DEF RNext
    <2>2. ASSUME NEW w \in Workers, Settle(w) PROVE RaceInv'
      BY <2>1, <2>2, LoadPendingRaces, CheckApprovalRaces, CommitApprovalRaces,
         CommitRefusalRaces DEF Settle
    <2> QED BY <2>1, <2>2, AskRaces, AdministerRaces DEF Next
  <1>2. CASE UNCHANGED <<vars, raced>>
    BY <1>2 DEF vars, RaceInv, RacesOK, Overlap, OnPending, NamesGrant, GrantMatchesDecision
  <1> QED BY <1>1, <1>2

\* The step from a state of the invariant: what is decided is a request that only
\* one worker holds, and that one is pending.
LEMMA DecidesPending ==
    ASSUME IInv, RaceInv, [RNext]_<<vars, raced>>,
           NEW r \in (1..Len(requests)) \ raced', requests[r].status # "pending"
    PROVE  requests'[r] = requests[r]
  <1>0. requests \in Seq(Request) /\ Len(requests) \in Nat
    BY DEF IInv, TypeOK
  <1>1. CASE UNCHANGED requests
    BY <1>1
  <1>2. ASSUME NEW w \in Workers, Enqueue(w), requests' # requests
        PROVE  requests'[r] = requests[r]
    <2>1. PICK e : requests' = Append(requests, e)
      BY <1>2 DEF Enqueue
    <2> QED BY <1>0, <2>1
  <1>3. ASSUME NEW w \in Workers, CommitApproval(w) \/ CommitRefusal(w), RNext
        PROVE  requests'[r] = requests[r]
    <2>1. PICK status, grant : Decide(tx[w].on, status, grant)
      BY <1>3 DEF CommitApproval, CommitRefusal
    <2>2. tx[w].on \in 1..Len(requests)
      BY <1>3 DEF CommitApproval, CommitRefusal, IInv, TypeOK
    <2>3. r \notin raced /\ tx[w].on # r
      BY <1>0, <1>3, <2>2 DEF RNext, RaceInv, OnPending
    <2> QED BY <1>0, <2>1, <2>2, <2>3 DEF Decide
  <1>4. CASE RNext /\ requests' # requests
    <2>1. \E w \in Workers : Enqueue(w) \/ CommitApproval(w) \/ CommitRefusal(w)
      BY <1>4 DEF RNext, Next, Ask, Settle, Administer, LoadStanding, LoadJit, LoadTool,
         CheckRequest, AutoGrant, LoadPending, CheckApproval, IssueGrant, RevokeGrant,
         ConfigureJit, ConfigureTools, SetVisibility, SetMembership, Tick, rows
    <2> QED BY <1>2, <1>3, <1>4, <2>1
  <1> QED BY <1>1, <1>4 DEF vars

LEMMA RacesInv == RSpec => [](IInv /\ RaceInv)
  <1>1. RInit => IInv /\ RaceInv
    BY InitInv, RaceInit DEF RInit
  <1>2. IInv /\ RaceInv /\ [RNext]_<<vars, raced>> => (IInv /\ RaceInv)'
    <2>1. [RNext]_<<vars, raced>> => [Next]_vars
      BY DEF RNext
    <2> QED BY <2>1, InvStep, RaceStep
  <1> QED BY <1>1, <1>2, PTL DEF RSpec

\* A request is decided once, and never after it was decided or withdrawn, unless
\* two workers had it loaded at one time; what happens to other requests, to grants
\* and to the policy in between does not matter.
THEOREM RequestsAreDecidedOnce == RSpec => DecidedOnce
  <1>1. IInv /\ RaceInv /\ [RNext]_<<vars, raced>> =>
            [\A r \in (1..Len(requests)) \ raced' :
                requests[r].status # "pending" => requests'[r] = requests[r]]_<<vars, raced>>
    BY DecidesPending
  <1> QED BY <1>1, RacesInv, PTL DEF RSpec, DecidedOnce

\* The grants and the requests tell one story: a grant of a request that was
\* decided by one worker at a time has an approved request, which led to no other
\* grant and names this one; and no request, raced or not, names another's grant.
THEOREM GrantsMatchDecisions == RSpec => []GrantMatchesDecision
  <1>1. RaceInv => GrantMatchesDecision
    BY DEF RaceInv
  <1> QED BY <1>1, RacesInv, PTL
=============================================================================
