------------------------- MODULE PooledClient_proofs -------------------------
(***************************************************************************)
(* Theorems about UpstreamPool, for any finite sets of callers and clients *)
(* and any limits, and about PooledClient, the calls that go through the   *)
(* breaker and the pool.                                                   *)
(***************************************************************************)
EXTENDS PooledClient, FiniteSetTheorems, TLAPS

-----------------------------------------------------------------------------
(* The pool: the inductive invariant *)

\* The objects behind the key: they are created in order, every one before the
\* current one is closed, those to come are untouched, and a closing object
\* stays under the key only while a slot of it is out.
ObjectsInv ==
    /\ current = 0 \/ current = created
    /\ \A g \in Objects :
        /\ g > created => ~closing[g] /\ total[g] = 0 /\ idle[g] = {}
        /\ g <= created /\ g # current => closing[g]
        /\ closing[g] => idle[g] = {}
        /\ closing[g] /\ g = current => total[g] > 0

\* Where a caller stands determines what it refers to.
CallersInv ==
    \A c \in Callers :
        /\ pc[c] \in {"out", "waiting", "woken", "building", "closing"} => held[c] = NoClient
        /\ pc[c] = "leased" => held[c] # NoClient
        /\ pc[c] \notin {"retiring", "closing"} => toClose[c] = {}
        /\ pc[c] \notin {"out", "closing"} => mine[c] \in 1..created
        /\ pc[c] = "waiting" => ~closing[mine[c]]

\* Whatever the pool refers to is alive.
LiveInv ==
    /\ \A g \in Objects : idle[g] \subseteq live
    /\ \A c \in Callers : held[c] # NoClient => held[c] \in live
    /\ \A t \in Tasks : toClose[t] \subseteq live

IInv ==
    /\ TypeOK
    /\ SlotsAccounted
    /\ LeaseFindsItsObject
    /\ ClientsExclusive
    /\ ObjectsInv
    /\ CallersInv
    /\ LiveInv

-----------------------------------------------------------------------------
(* Counting *)

\* The sets that SlotsAccounted counts are finite.
LEMMA FiniteParts ==
  ASSUME TypeOK, NEW g \in Objects
  PROVE  /\ IsFiniteSet(idle[g]) /\ Cardinality(idle[g]) \in Nat
         /\ IsFiniteSet(Holders(g)) /\ Cardinality(Holders(g)) \in Nat
<1>1. idle[g] \in SUBSET Clients /\ Holders(g) \in SUBSET Callers
  BY DEF TypeOK, Holders
<1>2. QED
  BY <1>1, FS_Subset, FS_CardinalityType, PoolAssumption DEF PoolAssumption

\* What _take_expired removes and what it keeps add up to the idle list.
LEMMA ExpiredAndFresh ==
  ASSUME TypeOK, NEW g \in Objects
  PROVE  /\ Expired(g) \subseteq idle[g]
         /\ Fresh(g) \subseteq idle[g]
         /\ IsFiniteSet(Fresh(g))
         /\ Cardinality(Expired(g)) \in Nat
         /\ Cardinality(Fresh(g)) \in Nat
         /\ Cardinality(idle[g]) = Cardinality(Fresh(g)) + Cardinality(Expired(g))
<1>1. Expired(g) \in SUBSET idle[g]
  BY DEF Expired
<1>2. IsFiniteSet(idle[g]) /\ Cardinality(idle[g]) \in Nat
  BY FiniteParts
<1>3. IsFiniteSet(Expired(g)) /\ Cardinality(Expired(g)) \in Nat
  BY <1>1, <1>2, FS_Subset, FS_CardinalityType
<1>4. /\ IsFiniteSet(Fresh(g))
      /\ Cardinality(Fresh(g)) = Cardinality(idle[g]) - Cardinality(idle[g] \cap Expired(g))
  BY <1>2, FS_Difference DEF Fresh
<1>5. Cardinality(idle[g] \cap Expired(g)) = Cardinality(Expired(g))
  <2>1. idle[g] \cap Expired(g) = Expired(g)
    BY <1>1
  <2>2. QED
    BY <2>1
<1>6. Cardinality(Fresh(g)) \in Nat
  BY <1>4, FS_CardinalityType
<1>7. Fresh(g) \subseteq idle[g]
  BY DEF Fresh
<1>8. QED
  BY <1>1, <1>2, <1>3, <1>4, <1>5, <1>6, <1>7, SMT

\* A step moves one caller and turns waiting callers into woken ones.
LEMMA MoveFacts ==
  ASSUME TypeOK, NEW c \in Callers, NEW place \in CallerState, NEW W,
         \A x \in W : pc[x] = "waiting",
         Move(c, place, W)
  PROVE  /\ pc' \in [Callers -> CallerState]
         /\ pc'[c] = place
         /\ \A x \in Callers \ {c} :
                pc'[x] = pc[x] \/ (pc[x] = "waiting" /\ pc'[x] = "woken")
  BY DEF TypeOK, Move, CallerState

\* The callers that hold a slot of an object, when one caller moves: it starts
\* to hold one, it stops, or nothing changes.
LEMMA HoldersGain ==
  ASSUME TypeOK, NEW c \in Callers, NEW g \in Objects,
         pc[c] \notin Holding, pc'[c] \in Holding,
         mine' = [mine EXCEPT ![c] = g],
         \A x \in Callers \ {c} :
            pc'[x] = pc[x] \/ (pc[x] = "waiting" /\ pc'[x] = "woken")
  PROVE  /\ \A h \in Objects \ {g} : Holders(h)' = Holders(h)
         /\ Cardinality(Holders(g)') = Cardinality(Holders(g)) + 1
<1>1. c \notin Holders(g) /\ Holders(g)' = Holders(g) \cup {c}
  BY DEF TypeOK, Holders, Holding
<1>2. \A h \in Objects \ {g} : Holders(h)' = Holders(h)
  BY DEF TypeOK, Holders, Holding
<1>3. QED
  BY <1>1, <1>2, FiniteParts, FS_AddElement

LEMMA HoldersLose ==
  ASSUME TypeOK, NEW c \in Callers, NEW g \in Objects, mine[c] = g,
         pc[c] \in Holding, pc'[c] \notin Holding,
         mine' = [mine EXCEPT ![c] = 0],
         \A x \in Callers \ {c} :
            pc'[x] = pc[x] \/ (pc[x] = "waiting" /\ pc'[x] = "woken")
  PROVE  /\ \A h \in Objects \ {g} : Holders(h)' = Holders(h)
         /\ Holders(g)' = Holders(g) \ {c}
         /\ c \in Holders(g)
         /\ Cardinality(Holders(g)) > 0
         /\ Cardinality(Holders(g)') = Cardinality(Holders(g)) - 1
<1>1. c \in Holders(g) /\ Holders(g)' = Holders(g) \ {c}
  BY DEF TypeOK, Holders, Holding
<1>2. \A h \in Objects \ {g} : Holders(h)' = Holders(h)
  BY DEF TypeOK, Holders, Holding
<1>3. Cardinality(Holders(g)) # 0
  BY <1>1, FiniteParts, FS_EmptySet
<1>4. Cardinality(Holders(g) \ {c}) = Cardinality(Holders(g)) - 1
  BY <1>1, FiniteParts, FS_RemoveElement
<1>5. Cardinality(Holders(g)) \in Nat
  BY FiniteParts
<1>6. QED
  BY <1>1, <1>2, <1>3, <1>4, <1>5

LEMMA HoldersKeep ==
  ASSUME TypeOK, NEW c \in Callers,
         pc[c] \in Holding <=> pc'[c] \in Holding,
         \/ mine' = mine
         \/ pc'[c] \notin Holding /\ \E g : mine' = [mine EXCEPT ![c] = g],
         \A x \in Callers \ {c} :
            pc'[x] = pc[x] \/ (pc[x] = "waiting" /\ pc'[x] = "woken")
  PROVE  \A h \in Objects : Holders(h)' = Holders(h)
  BY DEF TypeOK, Holders, Holding

-----------------------------------------------------------------------------
LEMMA InitIInv == Init => IInv
<1> SUFFICES ASSUME Init PROVE IInv
  OBVIOUS
<1>1. TypeOK
  BY PoolAssumption DEF PoolAssumption, Init, TypeOK, CallerState, Tasks
<1>2. SlotsAccounted
  <2>1. Cardinality({}) = 0
    BY FS_EmptySet
  <2>2. ASSUME NEW g \in Objects
        PROVE  total[g] = Cardinality(idle[g]) + Cardinality(Holders(g)) + lost[g]
    <3>1. total[g] = 0 /\ lost[g] = 0 /\ idle[g] = {}
      BY DEF Init
    <3>2. Holders(g) = {}
      BY DEF Init, Holders, Holding
    <3>3. QED
      BY <2>1, <3>1, <3>2
  <2>3. QED
    BY <2>2 DEF SlotsAccounted
<1>3. LeaseFindsItsObject /\ ClientsExclusive
  BY DEF Init, LeaseFindsItsObject, ClientsExclusive, Holding
<1>4. ObjectsInv /\ CallersInv /\ LiveInv
  BY DEF Init, ObjectsInv, CallersInv, LiveInv, Objects, Tasks
<1>5. QED
  BY <1>1, <1>2, <1>3, <1>4 DEF IInv

-----------------------------------------------------------------------------
(* Steps that leave the slots and their holders alone.  They keep the slot   *)
(* accounts because the counted sets do not change.                          *)

LEMMA SlotsKept ==
  ASSUME SlotsAccounted, idle' = idle, total' = total, lost' = lost,
         \A h \in Objects : Holders(h)' = Holders(h)
  PROVE  SlotsAccounted'
  BY DEF SlotsAccounted

\* A caller that enters the block of an open object: that object is, or becomes,
\* the current one.
LEMMA TurnFacts ==
  ASSUME TypeOK, ObjectsInv, CallersInv,
         NEW c \in Callers, NEW g \in Objects, Turn(c, g), ~closing[g]
  PROVE  /\ pc[c] \in {"out", "woken"} /\ held[c] = NoClient /\ toClose[c] = {}
         /\ current' = g /\ created' = g
         /\ current # 0 => current = g /\ created = g
         /\ created <= g
         /\ \A h \in Objects : h # g => idle[h] = {}
         /\ \A h \in Objects : h < g => closing[h]
<1> USE DEF TypeOK, Objects
<1>1. pc[c] \in {"out", "woken"} /\ held[c] = NoClient /\ toClose[c] = {}
  BY DEF Turn, CallersInv
<1>2. CASE pc[c] = "out" /\ current = 0
  BY <1>1, <1>2 DEF Turn, ObjectsInv
<1>3. CASE pc[c] = "out" /\ current # 0
  BY <1>1, <1>3 DEF Turn, ObjectsInv
<1>4. CASE pc[c] = "woken"
  <2>1. g \in 1..created
    BY <1>4 DEF Turn, CallersInv
  <2>2. g = current
    BY <2>1 DEF ObjectsInv
  <2>3. QED
    BY <1>1, <1>4, <2>1, <2>2 DEF Turn, ObjectsInv
<1>5. QED
  BY <1>1, <1>2, <1>3, <1>4

LEMMA RefuseStep ==
  ASSUME IInv, NEW c \in Callers, NEW g \in Objects, Refuse(c, g)
  PROVE  IInv'
<1> USE DEF IInv
<1>1. /\ pc' \in [Callers -> CallerState]
      /\ pc'[c] = "out"
      /\ \A x \in Callers \ {c} : pc'[x] = pc[x]
  BY DEF Refuse, Move, TypeOK, CallerState
<1>2. /\ pc[c] \in {"out", "woken"}
      /\ closing[g]
      /\ mine' = [mine EXCEPT ![c] = 0]
      /\ UNCHANGED <<idle, total, closing, held, toClose, live, age, lost, eaten>>
  BY DEF Refuse, Turn, clientVars
<1>3. current' = current /\ created' = created
  BY <1>2 DEF Refuse, Turn, ObjectsInv, TypeOK, Objects
<1>4. TypeOK'
  BY <1>1, <1>2, <1>3, PoolAssumption DEF TypeOK, PoolAssumption
<1>5. SlotsAccounted'
  BY <1>1, <1>2, HoldersKeep, SlotsKept DEF Holding
<1>6. LeaseFindsItsObject' /\ ClientsExclusive'
  BY <1>1, <1>2, <1>3 DEF LeaseFindsItsObject, ClientsExclusive, Holding, TypeOK
<1>7. ObjectsInv' /\ LiveInv'
  BY <1>2, <1>3 DEF ObjectsInv, LiveInv
<1>8. CallersInv'
  BY <1>1, <1>2, <1>3 DEF CallersInv, TypeOK
<1>9. QED
  BY <1>4, <1>5, <1>6, <1>7, <1>8

LEMMA WaitStep ==
  ASSUME IInv, NEW c \in Callers, NEW g \in Objects, Wait(c, g)
  PROVE  IInv'
<1> USE DEF IInv
<1>1. /\ pc' \in [Callers -> CallerState]
      /\ pc'[c] = "waiting"
      /\ \A x \in Callers \ {c} : pc'[x] = pc[x]
  BY DEF Wait, Move, TypeOK, CallerState
<1>2. /\ Turn(c, g) /\ ~closing[g]
      /\ mine' = [mine EXCEPT ![c] = g]
      /\ eaten' = [eaten EXCEPT ![g] = 0]
      /\ UNCHANGED <<idle, total, closing, held, toClose, live, age, lost>>
  BY DEF Wait, clientVars
<1>3. /\ pc[c] \in {"out", "woken"} /\ held[c] = NoClient /\ toClose[c] = {}
      /\ current' = g /\ created' = g
      /\ current # 0 => current = g /\ created = g
      /\ created <= g
      /\ \A h \in Objects : h < g => closing[h]
  BY <1>2, TurnFacts
<1>4. TypeOK'
  <2>1. eaten' \in [Objects -> Nat]
    BY <1>2 DEF TypeOK
  <2>2. mine' \in [Callers -> 0..MaxStates]
    BY <1>2, PoolAssumption DEF TypeOK, PoolAssumption, Objects
  <2>3. current' \in 0..MaxStates /\ created' \in 0..MaxStates
    BY <1>3, PoolAssumption DEF PoolAssumption, Objects
  <2>4. QED
    BY <1>1, <1>2, <2>1, <2>2, <2>3 DEF TypeOK
<1>5. SlotsAccounted'
  BY <1>1, <1>2, <1>3, HoldersKeep, SlotsKept DEF Holding
<1>6. LeaseFindsItsObject' /\ ClientsExclusive'
  BY <1>1, <1>2, <1>3 DEF LeaseFindsItsObject, ClientsExclusive, CallersInv, Holding, TypeOK
<1>7. ObjectsInv' /\ LiveInv'
  BY <1>2, <1>3 DEF ObjectsInv, LiveInv, TypeOK, Objects
<1>8. CallersInv'
  BY <1>1, <1>2, <1>3 DEF CallersInv, TypeOK, Objects
<1>9. QED
  BY <1>4, <1>5, <1>6, <1>7, <1>8

LEMMA CancelWaitStep ==
  ASSUME IInv, NEW c \in Callers, CancelWait(c)
  PROVE  IInv'
<1> USE DEF IInv
<1>1. PICK W : (\A x \in W : pc[x] = "waiting") /\ Move(c, "out", W)
  BY DEF CancelWait, Waiting
<1>2. /\ pc' \in [Callers -> CallerState]
      /\ pc'[c] = "out"
      /\ \A x \in Callers \ {c} :
            pc'[x] = pc[x] \/ (pc[x] = "waiting" /\ pc'[x] = "woken")
  BY <1>1, MoveFacts DEF CallerState
<1>3. /\ pc[c] \in {"waiting", "woken"}
      /\ mine' = [mine EXCEPT ![c] = 0]
      /\ UNCHANGED <<current, created, idle, total, closing, held, toClose, live, age,
                     lost>>
  BY DEF CancelWait, stateVars, clientVars
<1>4. TypeOK'
  <2>1. eaten' = eaten \/ eaten' = [eaten EXCEPT ![mine[c]] = @ + 1]
    BY DEF CancelWait
  <2>2. eaten' \in [Objects -> Nat]
    BY <2>1 DEF TypeOK
  <2>3. QED
    BY <1>2, <1>3, <2>2, PoolAssumption DEF TypeOK, PoolAssumption
<1>5. SlotsAccounted'
  BY <1>2, <1>3, HoldersKeep, SlotsKept DEF Holding
<1>6. LeaseFindsItsObject' /\ ClientsExclusive'
  BY <1>2, <1>3 DEF LeaseFindsItsObject, ClientsExclusive, Holding, TypeOK
<1>7. ObjectsInv' /\ LiveInv'
  BY <1>3 DEF ObjectsInv, LiveInv
<1>8. CallersInv'
  BY <1>2, <1>3 DEF CallersInv, TypeOK
<1>9. QED
  BY <1>4, <1>5, <1>6, <1>7, <1>8

LEMMA RetireStep ==
  ASSUME IInv, NEW c \in Callers, Retire(c)
  PROVE  IInv'
<1> USE DEF IInv
<1>1. PICK k \in toClose[c] :
        /\ Dispose(k)
        /\ toClose' = [toClose EXCEPT ![c] = @ \ {k}]
        /\ Move(c, IF toClose[c] # {k} THEN "retiring"
                   ELSE IF held[c] = NoClient THEN "building" ELSE "leased", {})
  BY DEF Retire
<1>2. /\ pc[c] = "retiring"
      /\ UNCHANGED <<current, created, idle, total, closing, mine, held, lost, eaten>>
  BY DEF Retire, stateVars
<1>3. /\ pc' \in [Callers -> CallerState]
      /\ pc'[c] \in {"retiring", "building", "leased"}
      /\ pc'[c] = "building" => held[c] = NoClient /\ toClose[c] = {k}
      /\ pc'[c] = "leased" => held[c] # NoClient /\ toClose[c] = {k}
      /\ \A x \in Callers \ {c} : pc'[x] = pc[x]
  BY <1>1 DEF Move, TypeOK, CallerState
<1>4. k \in Clients /\ c \in Tasks
  BY <1>1 DEF TypeOK, Tasks
<1>5. TypeOK'
  BY <1>1, <1>2, <1>3, <1>4, PoolAssumption DEF Dispose, TypeOK, PoolAssumption
<1>6. SlotsAccounted'
  BY <1>2, <1>3, HoldersKeep, SlotsKept DEF Holding
<1>7. LeaseFindsItsObject' /\ ClientsExclusive'
  BY <1>1, <1>2, <1>3, <1>4 DEF LeaseFindsItsObject, ClientsExclusive, Holding, TypeOK
<1>8. ObjectsInv'
  BY <1>2 DEF ObjectsInv
<1>9. CallersInv'
  BY <1>1, <1>2, <1>3, <1>4 DEF CallersInv, TypeOK, Tasks
<1>10. LiveInv'
  BY <1>1, <1>2, <1>4 DEF LiveInv, ClientsExclusive, Dispose, TypeOK
<1>11. QED
  BY <1>5, <1>6, <1>7, <1>8, <1>9, <1>10

LEMMA BuildStep ==
  ASSUME IInv, NEW c \in Callers, Build(c)
  PROVE  IInv'
<1> USE DEF IInv
<1>1. PICK k \in Clients \ live :
        /\ live' = live \cup {k}
        /\ held' = [held EXCEPT ![c] = k]
        /\ age' = [age EXCEPT ![k] = -1]
  BY DEF Build
<1>2. /\ pc[c] = "building"
      /\ UNCHANGED <<current, created, idle, total, closing, mine, toClose, lost, eaten>>
  BY DEF Build, stateVars
<1>3. /\ pc' \in [Callers -> CallerState]
      /\ pc'[c] = "leased"
      /\ \A x \in Callers \ {c} : pc'[x] = pc[x]
  BY DEF Build, Move, TypeOK, CallerState
<1>4. TypeOK'
  <2>1. /\ live' \in SUBSET Clients
        /\ held' \in [Callers -> Clients \cup {NoClient}]
        /\ age' \in [Clients -> -1..MaxAge]
    BY <1>1, PoolAssumption DEF TypeOK, PoolAssumption
  <2>2. QED
    BY <1>2, <1>3, <2>1 DEF TypeOK
<1>5. SlotsAccounted'
  BY <1>2, <1>3, HoldersKeep, SlotsKept DEF Holding
<1>6. LeaseFindsItsObject'
  BY <1>2, <1>3 DEF LeaseFindsItsObject, Holding
<1>7. ClientsExclusive'
  BY <1>1, <1>2 DEF ClientsExclusive, LiveInv, TypeOK
<1>8. ObjectsInv'
  BY <1>2 DEF ObjectsInv
<1>9. CallersInv'
  BY <1>1, <1>2, <1>3, PoolAssumption DEF CallersInv, TypeOK, PoolAssumption
<1>10. LiveInv'
  BY <1>1, <1>2 DEF LiveInv, TypeOK
<1>11. QED
  BY <1>4, <1>5, <1>6, <1>7, <1>8, <1>9, <1>10

LEMMA CloseClientStep ==
  ASSUME IInv, NEW c \in Callers, CloseClient(c) \/ CancelClose(c)
  PROVE  IInv'
<1> USE DEF IInv
<1>1. /\ pc[c] = "closing"
      /\ toClose' = [toClose EXCEPT ![c] = {}]
      /\ UNCHANGED <<current, created, idle, total, closing, mine, held, lost, eaten>>
  BY DEF CloseClient, CancelClose, stateVars
<1>2. UNCHANGED <<live, age>> \/ \E k \in toClose[c] : Dispose(k)
  BY DEF CloseClient, CancelClose, clientVars
<1>3. /\ pc' \in [Callers -> CallerState]
      /\ pc'[c] = "out"
      /\ \A x \in Callers \ {c} : pc'[x] = pc[x]
  BY DEF CloseClient, CancelClose, Move, TypeOK, CallerState
<1>4. c \in Tasks
  BY DEF Tasks
<1>5. TypeOK'
  <2>1. /\ live' \in SUBSET Clients
        /\ age' \in [Clients -> -1..MaxAge]
    BY <1>2, PoolAssumption DEF Dispose, TypeOK, PoolAssumption
  <2>2. QED
    BY <1>1, <1>3, <1>4, <2>1 DEF TypeOK
<1>6. SlotsAccounted'
  BY <1>1, <1>3, HoldersKeep, SlotsKept DEF Holding
<1>7. LeaseFindsItsObject' /\ ClientsExclusive'
  BY <1>1, <1>3, <1>4 DEF LeaseFindsItsObject, ClientsExclusive, Holding, TypeOK
<1>8. ObjectsInv'
  BY <1>1 DEF ObjectsInv
<1>9. CallersInv'
  BY <1>1, <1>3, <1>4 DEF CallersInv, TypeOK
<1>10. LiveInv'
  BY <1>1, <1>2, <1>4 DEF LiveInv, ClientsExclusive, Dispose, TypeOK
<1>11. QED
  BY <1>5, <1>6, <1>7, <1>8, <1>9, <1>10

LEMMA CloseIdleStep ==
  ASSUME IInv, CloseIdle \/ CancelCloseIdle
  PROVE  IInv'
<1> USE DEF IInv
<1>1. /\ UNCHANGED <<current, created, idle, total, closing, pc, mine, held, lost, eaten>>
      /\ \/ \E k \in toClose[Closer] :
              Dispose(k) /\ toClose' = [toClose EXCEPT ![Closer] = @ \ {k}]
         \/ /\ UNCHANGED <<live, age>>
            /\ toClose' = [toClose EXCEPT ![Closer] = {}]
  BY DEF CloseIdle, CancelCloseIdle, stateVars, clientVars
<1>2. Closer \in Tasks /\ Closer \notin Callers
  BY PoolAssumption DEF PoolAssumption, Tasks
<1>3. TypeOK'
  BY <1>1, <1>2, PoolAssumption DEF Dispose, TypeOK, PoolAssumption
<1>4. SlotsAccounted'
  BY <1>1, SlotsKept DEF Holders
<1>5. LeaseFindsItsObject' /\ ClientsExclusive'
  BY <1>1, <1>2 DEF LeaseFindsItsObject, ClientsExclusive, TypeOK
<1>6. ObjectsInv'
  BY <1>1 DEF ObjectsInv
<1>7. CallersInv'
  BY <1>1, <1>2 DEF CallersInv, TypeOK, Tasks
<1>8. LiveInv'
  BY <1>1, <1>2 DEF LiveInv, ClientsExclusive, Dispose, TypeOK
<1>9. QED
  BY <1>3, <1>4, <1>5, <1>6, <1>7, <1>8

LEMMA TickStep ==
  ASSUME IInv, Tick
  PROVE  IInv'
<1> USE DEF IInv
<1>1. UNCHANGED <<current, created, idle, total, closing, pc, mine, held, toClose, live, lost, eaten>>
  BY DEF Tick, stateVars
<1>2. /\ age' \in [Clients -> -1..MaxAge]
  BY PoolAssumption DEF Tick, Older, TypeOK, PoolAssumption
<1>3. TypeOK'
  BY <1>1, <1>2 DEF TypeOK
<1>4. SlotsAccounted' /\ LeaseFindsItsObject' /\ ClientsExclusive'
  BY <1>1 DEF SlotsAccounted, LeaseFindsItsObject, ClientsExclusive, Holders
<1>5. ObjectsInv' /\ CallersInv' /\ LiveInv'
  BY <1>1 DEF ObjectsInv, CallersInv, LiveInv
<1>6. QED
  BY <1>3, <1>4, <1>5

-----------------------------------------------------------------------------
(* Steps that take a slot                                                    *)

\* What Reuse and Claim share: the expired clients leave with the caller, which
\* becomes a holder.
LEMMA GrantFacts ==
  ASSUME TypeOK, NEW c \in Callers, NEW g \in Objects, pc[c] \notin Holding,
         NEW next \in {"building", "leased"}, Grant(c, g, next)
  PROVE  /\ pc' \in [Callers -> CallerState]
         /\ pc'[c] \in {"retiring", next}
         /\ pc'[c] = next => Expired(g) = {}
         /\ \A x \in Callers \ {c} :
                pc'[x] = pc[x] \/ (pc[x] = "waiting" /\ pc'[x] = "woken")
         /\ mine' = [mine EXCEPT ![c] = g]
         /\ toClose' = [toClose EXCEPT ![c] = Expired(g)]
         /\ UNCHANGED <<closing, live, age, lost, eaten>>
         /\ \A h \in Objects \ {g} : Holders(h)' = Holders(h)
         /\ Cardinality(Holders(g)') = Cardinality(Holders(g)) + 1
<1> DEFINE place == IF Expired(g) = {} THEN next ELSE "retiring"
<1>1. PICK W : (\A x \in W : pc[x] = "waiting") /\ Move(c, place, W)
  BY DEF Grant, Notified, Waiting
<1>2. place \in CallerState /\ place \in {"retiring", next}
  BY DEF CallerState
<1> HIDE DEF place
<1>3. /\ pc' \in [Callers -> CallerState]
      /\ pc'[c] = place
      /\ \A x \in Callers \ {c} :
            pc'[x] = pc[x] \/ (pc[x] = "waiting" /\ pc'[x] = "woken")
  BY <1>1, <1>2, MoveFacts
<1>4. /\ mine' = [mine EXCEPT ![c] = g]
      /\ toClose' = [toClose EXCEPT ![c] = Expired(g)]
      /\ UNCHANGED <<closing, live, age, lost, eaten>>
  BY DEF Grant, clientVars
<1>5. pc'[c] \in Holding
  BY <1>2, <1>3 DEF Holding
<1>6. /\ \A h \in Objects \ {g} : Holders(h)' = Holders(h)
      /\ Cardinality(Holders(g)') = Cardinality(Holders(g)) + 1
  BY <1>3, <1>4, <1>5, HoldersGain
<1>7. pc'[c] = next => Expired(g) = {}
  BY <1>3 DEF place
<1>8. QED
  BY <1>2, <1>3, <1>4, <1>6, <1>7

LEMMA ReuseStep ==
  ASSUME IInv, NEW c \in Callers, NEW g \in Objects, Reuse(c, g)
  PROVE  IInv'
<1> USE DEF IInv
<1>1. PICK k \in Fresh(g) :
        /\ idle' = [idle EXCEPT ![g] = Fresh(g) \ {k}]
        /\ held' = [held EXCEPT ![c] = k]
  BY DEF Reuse
<1>2. /\ Turn(c, g) /\ ~closing[g] /\ Grant(c, g, "leased")
      /\ total' = [total EXCEPT ![g] = SlotsLeft(g)]
  BY DEF Reuse
<1>3. /\ pc[c] \in {"out", "woken"} /\ held[c] = NoClient /\ toClose[c] = {}
      /\ current' = g /\ created' = g
      /\ current # 0 => current = g /\ created = g
      /\ created <= g
      /\ \A h \in Objects : h # g => idle[h] = {}
      /\ \A h \in Objects : h < g => closing[h]
  BY <1>2, TurnFacts
<1>4. /\ pc' \in [Callers -> CallerState]
      /\ pc'[c] \in {"retiring", "leased"}
      /\ pc'[c] = "leased" => Expired(g) = {}
      /\ \A x \in Callers \ {c} :
            pc'[x] = pc[x] \/ (pc[x] = "waiting" /\ pc'[x] = "woken")
      /\ mine' = [mine EXCEPT ![c] = g]
      /\ toClose' = [toClose EXCEPT ![c] = Expired(g)]
      /\ UNCHANGED <<closing, live, age, lost, eaten>>
      /\ \A h \in Objects \ {g} : Holders(h)' = Holders(h)
      /\ Cardinality(Holders(g)') = Cardinality(Holders(g)) + 1
  BY <1>2, <1>3, GrantFacts DEF Holding
<1>5. /\ Expired(g) \subseteq idle[g] /\ Fresh(g) \subseteq idle[g]
      /\ k \in idle[g] /\ k \notin Expired(g)
      /\ k \in Clients /\ k # NoClient /\ c \in Tasks
  BY ExpiredAndFresh, PoolAssumption DEF Fresh, TypeOK, PoolAssumption, Tasks
<1>6. Cardinality(Fresh(g) \ {k}) = Cardinality(Fresh(g)) - 1
  BY ExpiredAndFresh, FS_RemoveElement
<1>7. total'[g] = Cardinality(idle'[g]) + Cardinality(Holders(g)') + lost'[g]
  BY <1>1, <1>2, <1>4, <1>6, ExpiredAndFresh, FiniteParts
  DEF SlotsLeft, SlotsAccounted, TypeOK
<1>8. SlotsLeft(g) \in 0..MaxClients
  BY ExpiredAndFresh, FiniteParts, PoolAssumption
  DEF SlotsLeft, SlotsAccounted, TypeOK, PoolAssumption
<1>9. TypeOK'
  <2>1. current' \in 0..MaxStates /\ created' \in 0..MaxStates /\ g \in 0..MaxStates
    BY <1>3, PoolAssumption DEF PoolAssumption, Objects
  <2>2. /\ mine' \in [Callers -> 0..MaxStates]
        /\ total' \in [Objects -> 0..MaxClients]
    BY <1>2, <1>4, <1>8, <2>1 DEF TypeOK
  <2>3. /\ idle' \in [Objects -> SUBSET Clients]
        /\ held' \in [Callers -> Clients \cup {NoClient}]
        /\ toClose' \in [Tasks -> SUBSET Clients]
    BY <1>1, <1>4, <1>5 DEF TypeOK
  <2>4. QED
    BY <1>4, <2>1, <2>2, <2>3 DEF TypeOK
<1>10. SlotsAccounted'
  BY <1>1, <1>2, <1>4, <1>7 DEF SlotsAccounted, TypeOK
<1>11. LeaseFindsItsObject'
  BY <1>3, <1>4 DEF LeaseFindsItsObject, CallersInv, Holding, TypeOK
<1>12. ClientsExclusive'
  <2>1. /\ \A d \in Callers : held[d] # k
        /\ \A t \in Tasks : k \notin toClose[t] /\ toClose[t] \cap Expired(g) = {}
        /\ \A d \in Callers : held[d] \notin Expired(g)
    BY <1>5, PoolAssumption DEF ClientsExclusive, PoolAssumption, TypeOK
  <2>2. \A h \in Objects : k \notin idle'[h] /\ idle'[h] \subseteq idle[h]
                            /\ idle'[h] \cap Expired(g) = {}
    BY <1>1, <1>3, <1>5 DEF TypeOK, Fresh
  <2>3. /\ \A d \in Callers : held'[d] = IF d = c THEN k ELSE held[d]
        /\ \A t \in Tasks : toClose'[t] = IF t = c THEN Expired(g) ELSE toClose[t]
    BY <1>1, <1>4, <1>5 DEF TypeOK
  <2>4. ASSUME NEW d \in Callers, held'[d] # NoClient
        PROVE  /\ \A e \in Callers \ {d} : held'[e] # held'[d]
               /\ \A h \in Objects : held'[d] \notin idle'[h]
               /\ \A t \in Tasks : held'[d] \notin toClose'[t]
    BY <1>5, <2>1, <2>2, <2>3, <2>4 DEF ClientsExclusive
  <2>5. ASSUME NEW t \in Tasks, NEW m \in toClose'[t]
        PROVE  /\ \A h \in Objects : m \notin idle'[h]
               /\ \A u \in Tasks \ {t} : m \notin toClose'[u]
    BY <2>1, <2>2, <2>3, <2>5 DEF ClientsExclusive
  <2>6. QED
    BY <2>4, <2>5 DEF ClientsExclusive
<1>13. ObjectsInv'
  BY <1>1, <1>2, <1>3, <1>4 DEF ObjectsInv, TypeOK, Objects
<1>14. CallersInv'
  BY <1>1, <1>3, <1>4, <1>5 DEF CallersInv, TypeOK, Objects
<1>15. LiveInv'
  BY <1>1, <1>4, <1>5 DEF LiveInv, TypeOK
<1>16. QED
  BY <1>9, <1>10, <1>11, <1>12, <1>13, <1>14, <1>15

LEMMA ClaimStep ==
  ASSUME IInv, NEW c \in Callers, NEW g \in Objects, Claim(c, g)
  PROVE  IInv'
<1> USE DEF IInv
<1>1. /\ Turn(c, g) /\ ~closing[g] /\ Grant(c, g, "building")
      /\ Fresh(g) = {} /\ SlotsLeft(g) < MaxClients
      /\ idle' = [idle EXCEPT ![g] = {}]
      /\ total' = [total EXCEPT ![g] = SlotsLeft(g) + 1]
      /\ held' = held
  BY DEF Claim
<1>2. /\ pc[c] \in {"out", "woken"} /\ held[c] = NoClient /\ toClose[c] = {}
      /\ current' = g /\ created' = g
      /\ current # 0 => current = g /\ created = g
      /\ created <= g
      /\ \A h \in Objects : h # g => idle[h] = {}
      /\ \A h \in Objects : h < g => closing[h]
  BY <1>1, TurnFacts
<1>3. /\ pc' \in [Callers -> CallerState]
      /\ pc'[c] \in {"retiring", "building"}
      /\ pc'[c] = "building" => Expired(g) = {}
      /\ \A x \in Callers \ {c} :
            pc'[x] = pc[x] \/ (pc[x] = "waiting" /\ pc'[x] = "woken")
      /\ mine' = [mine EXCEPT ![c] = g]
      /\ toClose' = [toClose EXCEPT ![c] = Expired(g)]
      /\ UNCHANGED <<closing, live, age, lost, eaten>>
      /\ \A h \in Objects \ {g} : Holders(h)' = Holders(h)
      /\ Cardinality(Holders(g)') = Cardinality(Holders(g)) + 1
  BY <1>1, <1>2, GrantFacts DEF Holding
<1>4. Expired(g) \subseteq idle[g] /\ Expired(g) \subseteq Clients /\ c \in Tasks
  BY ExpiredAndFresh DEF TypeOK, Tasks
<1>5. Cardinality(Fresh(g)) = 0
  BY <1>1, FS_EmptySet
<1>6. SlotsLeft(g) = Cardinality(Holders(g)) + lost[g] /\ SlotsLeft(g) \in Nat
  BY <1>5, ExpiredAndFresh, FiniteParts DEF SlotsLeft, SlotsAccounted, TypeOK
<1>7. SlotsLeft(g) + 1 \in 0..MaxClients
  BY <1>1, <1>6, PoolAssumption DEF PoolAssumption
<1>8. TypeOK'
  <2>1. current' \in 0..MaxStates /\ created' \in 0..MaxStates /\ g \in 0..MaxStates
    BY <1>2, PoolAssumption DEF PoolAssumption, Objects
  <2>2. /\ mine' \in [Callers -> 0..MaxStates]
        /\ total' \in [Objects -> 0..MaxClients]
    BY <1>1, <1>3, <1>7, <2>1 DEF TypeOK
  <2>3. /\ idle' \in [Objects -> SUBSET Clients]
        /\ toClose' \in [Tasks -> SUBSET Clients]
    BY <1>1, <1>3, <1>4 DEF TypeOK
  <2>4. QED
    BY <1>1, <1>3, <2>1, <2>2, <2>3 DEF TypeOK
<1>9. SlotsAccounted'
  <2>1. total'[g] = Cardinality(idle'[g]) + Cardinality(Holders(g)') + lost'[g]
    BY <1>1, <1>3, <1>6, FS_EmptySet, FiniteParts DEF TypeOK
  <2>2. QED
    BY <1>1, <1>3, <2>1 DEF SlotsAccounted, TypeOK
<1>10. LeaseFindsItsObject'
  BY <1>2, <1>3 DEF LeaseFindsItsObject, CallersInv, Holding, TypeOK
<1>11. ClientsExclusive'
  BY <1>1, <1>2, <1>3, <1>4 DEF ClientsExclusive, Tasks, TypeOK
<1>12. ObjectsInv'
  BY <1>1, <1>2, <1>3 DEF ObjectsInv, TypeOK, Objects
<1>13. CallersInv'
  BY <1>1, <1>2, <1>3, <1>4 DEF CallersInv, TypeOK, Objects
<1>14. LiveInv'
  BY <1>1, <1>3, <1>4 DEF LiveInv, TypeOK
<1>15. QED
  BY <1>8, <1>9, <1>10, <1>11, <1>12, <1>13, <1>14

-----------------------------------------------------------------------------
(* Steps that give a slot back                                               *)

\* A slot holder's object is the current one, and its slot is counted.
LEMMA HolderFacts ==
  ASSUME IInv, NEW c \in Callers, pc[c] \in Holding
  PROVE  /\ current = mine[c] /\ current \in Objects /\ current = created
         /\ c \in Tasks
         /\ total[current] \in 1..MaxClients
<1> USE DEF IInv
<1>1. /\ current = mine[c] /\ current \in Objects /\ current = created /\ c \in Tasks
  <2>1. current = mine[c] /\ c \in Tasks
    BY DEF LeaseFindsItsObject, Tasks
  <2>2. mine[c] \in 1..created
    BY DEF CallersInv, Holding
  <2>3. QED
    BY <2>1, <2>2 DEF ObjectsInv, TypeOK, Objects
<1>2. c \in Holders(current)
  BY <1>1 DEF Holders
<1>3. Cardinality(Holders(current)) # 0
  BY <1>1, <1>2, FiniteParts, FS_EmptySet
<1>4. total[current] # 0
  BY <1>1, <1>3, FiniteParts DEF SlotsAccounted, TypeOK
<1>5. total[current] \in 0..MaxClients
  BY <1>1 DEF TypeOK
<1>6. QED
  BY <1>1, <1>4, <1>5, PoolAssumption DEF PoolAssumption

LEMMA CancelRetireStep ==
  ASSUME IInv, NEW c \in Callers, CancelRetire(c)
  PROVE  IInv'
<1> USE DEF IInv
<1>1. /\ pc[c] = "retiring"
      /\ lost' = [lost EXCEPT ![mine[c]] = @ + 1]
      /\ mine' = [mine EXCEPT ![c] = 0]
      /\ held' = [held EXCEPT ![c] = NoClient]
      /\ toClose' = [toClose EXCEPT ![c] = {}]
      /\ UNCHANGED <<current, created, idle, total, closing, live, age, eaten>>
  BY DEF CancelRetire, stateVars, clientVars
<1>2. /\ pc' \in [Callers -> CallerState]
      /\ pc'[c] = "out"
      /\ \A x \in Callers \ {c} : pc'[x] = pc[x]
  BY DEF CancelRetire, Move, TypeOK, CallerState
<1>3. PICK g \in Objects : g = mine[c] /\ current = g /\ c \in Tasks
  BY <1>1, HolderFacts DEF Holding
<1>4. /\ \A h \in Objects \ {g} : Holders(h)' = Holders(h)
      /\ Cardinality(Holders(g)') = Cardinality(Holders(g)) - 1
  BY <1>1, <1>2, <1>3, HoldersLose DEF Holding
<1>5. TypeOK'
  <2>1. lost' \in [Objects -> Nat]
    BY <1>1, <1>3 DEF TypeOK
  <2>2. /\ mine' \in [Callers -> 0..MaxStates]
        /\ held' \in [Callers -> Clients \cup {NoClient}]
        /\ toClose' \in [Tasks -> SUBSET Clients]
    BY <1>1, <1>3, PoolAssumption DEF TypeOK, PoolAssumption
  <2>3. QED
    BY <1>1, <1>2, <2>1, <2>2 DEF TypeOK
<1>6. SlotsAccounted'
  <2>1. total'[g] = Cardinality(idle'[g]) + Cardinality(Holders(g)') + lost'[g]
    BY <1>1, <1>3, <1>4, FiniteParts DEF SlotsAccounted, TypeOK
  <2>2. \A h \in Objects \ {g} : lost'[h] = lost[h]
    BY <1>1, <1>3 DEF TypeOK
  <2>3. QED
    BY <1>1, <1>4, <2>1, <2>2 DEF SlotsAccounted, TypeOK
<1>7. LeaseFindsItsObject' /\ ClientsExclusive'
  BY <1>1, <1>2, <1>3 DEF LeaseFindsItsObject, ClientsExclusive, Holding, TypeOK
<1>8. ObjectsInv'
  BY <1>1 DEF ObjectsInv
<1>9. CallersInv'
  BY <1>1, <1>2, <1>3 DEF CallersInv, TypeOK
<1>10. LiveInv'
  BY <1>1, <1>3 DEF LiveInv, TypeOK
<1>11. QED
  BY <1>5, <1>6, <1>7, <1>8, <1>9, <1>10

\* What BuildFails and Discard share: the slot leaves the accounts of its
\* object, and the object leaves the key only when nobody holds a slot of it.
LEMMA SlotReturned ==
  ASSUME IInv, NEW c \in Callers, NEW g \in Objects, g = mine[c],
         pc[c] \in Holding, pc'[c] \notin Holding,
         \A x \in Callers \ {c} :
            pc'[x] = pc[x] \/ (pc[x] = "waiting" /\ pc'[x] = "woken"),
         mine' = [mine EXCEPT ![c] = 0],
         total' = [total EXCEPT ![g] = @ - 1],
         current' = IF closing[g] /\ total[g] - 1 = 0 THEN 0 ELSE current,
         UNCHANGED <<created, idle, closing, lost>>
  PROVE  /\ total' \in [Objects -> 0..MaxClients]
         /\ current' \in 0..MaxStates
         /\ SlotsAccounted'
         /\ LeaseFindsItsObject'
         /\ ObjectsInv'
<1> USE DEF IInv
<1>1. current = g /\ g = created /\ total[g] \in 1..MaxClients
  BY HolderFacts
<1>2. /\ \A h \in Objects \ {g} : Holders(h)' = Holders(h)
      /\ Holders(g)' = Holders(g) \ {c}
      /\ Cardinality(Holders(g)') = Cardinality(Holders(g)) - 1
  BY HoldersLose
<1>3. total' \in [Objects -> 0..MaxClients] /\ current' \in 0..MaxStates
  <2>1. total[g] - 1 \in 0..MaxClients
    BY <1>1, PoolAssumption DEF PoolAssumption
  <2>2. total' \in [Objects -> 0..MaxClients]
    BY <2>1 DEF TypeOK
  <2>3. current' \in 0..MaxStates
    BY PoolAssumption DEF TypeOK, PoolAssumption
  <2>4. QED
    BY <2>2, <2>3
<1>4. total'[g] = Cardinality(idle'[g]) + Cardinality(Holders(g)') + lost'[g]
  <2>1. total'[g] = total[g] - 1 /\ idle'[g] = idle[g] /\ lost'[g] = lost[g]
    BY DEF TypeOK
  <2>2. total[g] = Cardinality(idle[g]) + Cardinality(Holders(g)) + lost[g]
    BY DEF SlotsAccounted
  <2>3. Cardinality(idle[g]) \in Nat /\ Cardinality(Holders(g)) \in Nat /\ lost[g] \in Nat
    BY FiniteParts DEF TypeOK
  <2> HIDE DEF IInv
  <2>4. QED
    BY <1>2, <2>1, <2>2, <2>3
<1>5. SlotsAccounted'
  <2>1. \A h \in Objects \ {g} : total'[h] = total[h] /\ idle'[h] = idle[h] /\ lost'[h] = lost[h]
    BY DEF TypeOK
  <2>2. ASSUME NEW h \in Objects
        PROVE  total'[h] = Cardinality(idle'[h]) + Cardinality(Holders(h)') + lost'[h]
    <3>1. CASE h = g
      BY <1>4, <3>1
    <3>2. CASE h # g
      BY <1>2, <2>1, <3>2 DEF SlotsAccounted
    <3>3. QED
      BY <3>1, <3>2
  <2>3. QED
    BY <2>2 DEF SlotsAccounted
<1>6. LeaseFindsItsObject'
  <2>1. ASSUME NEW d \in Callers, pc'[d] \in Holding PROVE current' = mine'[d]
    <3>1. d # c /\ pc[d] \in Holding /\ mine[d] = g /\ mine'[d] = g
      BY <1>1, <2>1 DEF LeaseFindsItsObject, Holding, TypeOK
    <3>2. d \in Holders(g)'
      BY <2>1, <3>1 DEF Holders
    <3>3. IsFiniteSet(Holders(g)')
      BY <1>2, FiniteParts, FS_RemoveElement
    <3>4. Cardinality(Holders(g)') # 0 /\ Cardinality(Holders(g)') \in Nat
      BY <3>2, <3>3, FS_EmptySet, FS_CardinalityType
    <3>5. Cardinality(idle'[g]) \in Nat /\ lost'[g] \in Nat
      BY FiniteParts DEF TypeOK
    <3>6. total'[g] # 0
      BY <1>4, <3>4, <3>5
    <3>7. QED
      BY <1>1, <3>1, <3>6 DEF TypeOK
  <2>2. QED
    BY <2>1 DEF LeaseFindsItsObject
<1>7. ObjectsInv'
  BY <1>1 DEF ObjectsInv, TypeOK, Objects
<1>8. QED
  BY <1>3, <1>5, <1>6, <1>7

LEMMA BuildFailsStep ==
  ASSUME IInv, NEW c \in Callers, BuildFails(c)
  PROVE  IInv'
<1> USE DEF IInv
<1>1. PICK g \in Objects : g = mine[c] /\ current = g
  BY HolderFacts DEF BuildFails, Holding
<1>2. /\ pc[c] = "building"
      /\ total' = [total EXCEPT ![g] = @ - 1]
      /\ current' = IF closing[g] /\ total[g] - 1 = 0 THEN 0 ELSE current
      /\ mine' = [mine EXCEPT ![c] = 0]
      /\ UNCHANGED <<created, idle, closing, held, toClose, live, age, lost, eaten>>
  BY <1>1 DEF BuildFails, DropIfDrained, clientVars
<1>3. PICK W : (\A x \in W : pc[x] = "waiting") /\ Move(c, "out", W)
  BY DEF BuildFails, Notified, Waiting
<1>4. /\ pc' \in [Callers -> CallerState]
      /\ pc'[c] = "out"
      /\ \A x \in Callers \ {c} :
            pc'[x] = pc[x] \/ (pc[x] = "waiting" /\ pc'[x] = "woken")
  BY <1>3, MoveFacts DEF CallerState
<1>5. /\ total' \in [Objects -> 0..MaxClients]
      /\ current' \in 0..MaxStates
      /\ SlotsAccounted' /\ LeaseFindsItsObject' /\ ObjectsInv'
  BY <1>1, <1>2, <1>4, SlotReturned DEF Holding
<1>6. TypeOK'
  <2>1. mine' \in [Callers -> 0..MaxStates]
    BY <1>2, PoolAssumption DEF TypeOK, PoolAssumption
  <2>2. QED
    BY <1>2, <1>4, <1>5, <2>1 DEF TypeOK
<1>7. ClientsExclusive' /\ LiveInv'
  BY <1>2 DEF ClientsExclusive, LiveInv
<1>8. CallersInv'
  BY <1>2, <1>4 DEF CallersInv, TypeOK
<1>9. QED
  BY <1>5, <1>6, <1>7, <1>8

LEMMA DiscardStep ==
  ASSUME IInv, NEW c \in Callers, Discard(c)
  PROVE  IInv'
<1> USE DEF IInv
<1>1. PICK g \in Objects : g = mine[c] /\ current = g /\ c \in Tasks
  BY HolderFacts DEF Discard, Holding
<1>2. /\ pc[c] = "leased"
      /\ total' = [total EXCEPT ![g] = @ - 1]
      /\ current' = IF closing[g] /\ total[g] - 1 = 0 THEN 0 ELSE current
      /\ mine' = [mine EXCEPT ![c] = 0]
      /\ held' = [held EXCEPT ![c] = NoClient]
      /\ toClose' = [toClose EXCEPT ![c] = {held[c]}]
      /\ UNCHANGED <<created, idle, closing, live, age, lost, eaten>>
  BY <1>1 DEF Discard, DropIfDrained, clientVars
<1>3. PICK W : (\A x \in W : pc[x] = "waiting") /\ Move(c, "closing", W)
  BY DEF Discard, Notified, Waiting
<1>4. /\ pc' \in [Callers -> CallerState]
      /\ pc'[c] = "closing"
      /\ \A x \in Callers \ {c} :
            pc'[x] = pc[x] \/ (pc[x] = "waiting" /\ pc'[x] = "woken")
  BY <1>3, MoveFacts DEF CallerState
<1>5. /\ total' \in [Objects -> 0..MaxClients]
      /\ current' \in 0..MaxStates
      /\ SlotsAccounted' /\ LeaseFindsItsObject' /\ ObjectsInv'
  BY <1>1, <1>2, <1>4, SlotReturned DEF Holding
<1>6. held[c] \in Clients /\ held[c] # NoClient /\ toClose[c] = {}
  BY <1>2, PoolAssumption DEF CallersInv, TypeOK, PoolAssumption
<1>7. TypeOK'
  <2>1. /\ mine' \in [Callers -> 0..MaxStates]
        /\ held' \in [Callers -> Clients \cup {NoClient}]
        /\ toClose' \in [Tasks -> SUBSET Clients]
    BY <1>1, <1>2, <1>6, PoolAssumption DEF TypeOK, PoolAssumption
  <2>2. QED
    BY <1>2, <1>4, <1>5, <2>1 DEF TypeOK
<1>8. ClientsExclusive'
  BY <1>1, <1>2, <1>6 DEF ClientsExclusive, TypeOK, Tasks
<1>9. CallersInv'
  BY <1>1, <1>2, <1>4 DEF CallersInv, TypeOK
<1>10. LiveInv'
  BY <1>1, <1>2, <1>6 DEF LiveInv, TypeOK
<1>11. QED
  BY <1>5, <1>7, <1>8, <1>9, <1>10

LEMMA GiveBackStep ==
  ASSUME IInv, NEW c \in Callers, GiveBack(c)
  PROVE  IInv'
<1> USE DEF IInv
<1>1. PICK g \in Objects : g = mine[c] /\ current = g /\ g = created /\ c \in Tasks
  BY HolderFacts DEF GiveBack, Holding
<1>2. PICK k : k = held[c]
  OBVIOUS
<1>3. /\ pc[c] = "leased" /\ ~closing[g]
      /\ idle' = [idle EXCEPT ![g] = @ \cup {k}]
      /\ age' = [age EXCEPT ![k] = IF @ = -1 THEN 0 ELSE @]
      /\ mine' = [mine EXCEPT ![c] = 0]
      /\ held' = [held EXCEPT ![c] = NoClient]
      /\ UNCHANGED <<current, created, total, closing, toClose, live, lost, eaten>>
  BY <1>1, <1>2 DEF GiveBack
<1>4. PICK W : (\A x \in W : pc[x] = "waiting") /\ Move(c, "out", W)
  BY DEF GiveBack, Notified, Waiting
<1>5. /\ pc' \in [Callers -> CallerState]
      /\ pc'[c] = "out"
      /\ \A x \in Callers \ {c} :
            pc'[x] = pc[x] \/ (pc[x] = "waiting" /\ pc'[x] = "woken")
  BY <1>4, MoveFacts DEF CallerState
<1>6. /\ k \in Clients /\ k # NoClient
      /\ \A h \in Objects : k \notin idle[h]
      /\ \A t \in Tasks : k \notin toClose[t]
      /\ \A d \in Callers \ {c} : held[d] # k
      /\ k \in live
  BY <1>2, <1>3, PoolAssumption
  DEF CallersInv, ClientsExclusive, LiveInv, TypeOK, PoolAssumption
<1>7. /\ \A h \in Objects \ {g} : Holders(h)' = Holders(h)
      /\ Cardinality(Holders(g)') = Cardinality(Holders(g)) - 1
  BY <1>1, <1>3, <1>5, HoldersLose DEF Holding
<1>8. TypeOK'
  <2>1. /\ mine' \in [Callers -> 0..MaxStates]
        /\ held' \in [Callers -> Clients \cup {NoClient}]
        /\ idle' \in [Objects -> SUBSET Clients]
    BY <1>3, <1>6, PoolAssumption DEF TypeOK, PoolAssumption
  <2>2. age' \in [Clients -> -1..MaxAge]
    BY <1>3, <1>6, PoolAssumption DEF TypeOK, PoolAssumption
  <2>3. QED
    BY <1>3, <1>5, <2>1, <2>2 DEF TypeOK
<1>9. SlotsAccounted'
  <2>1. Cardinality(idle[g] \cup {k}) = Cardinality(idle[g]) + 1
    BY <1>6, FiniteParts, FS_AddElement
  <2>2. total'[g] = Cardinality(idle'[g]) + Cardinality(Holders(g)') + lost'[g]
    BY <1>3, <1>7, <2>1, FiniteParts DEF SlotsAccounted, TypeOK
  <2>3. QED
    BY <1>3, <1>7, <2>2 DEF SlotsAccounted, TypeOK
<1>10. LeaseFindsItsObject'
  BY <1>3, <1>5 DEF LeaseFindsItsObject, Holding, TypeOK
<1>11. ClientsExclusive'
  BY <1>3, <1>6 DEF ClientsExclusive, TypeOK
<1>12. ObjectsInv'
  <2>1. g \in Int /\ created \in Int /\ g <= created
    BY <1>1 DEF Objects, TypeOK
  <2>2. \A h \in Objects : idle'[h] = IF h = g THEN idle[g] \cup {k} ELSE idle[h]
    BY <1>3 DEF TypeOK
  <2>3. \A h \in Objects : h > created => h # g
    BY <2>1 DEF Objects
  <2>4. ASSUME NEW h \in Objects
        PROVE  /\ h > created => idle'[h] = {}
               /\ closing[h] => idle'[h] = {}
    BY <1>3, <2>2, <2>3 DEF ObjectsInv
  <2>5. QED
    BY <1>3, <2>4 DEF ObjectsInv
<1>13. CallersInv'
  BY <1>3, <1>5 DEF CallersInv, TypeOK
<1>14. LiveInv'
  BY <1>3, <1>6 DEF LiveInv, TypeOK
<1>15. QED
  BY <1>8, <1>9, <1>10, <1>11, <1>12, <1>13, <1>14

LEMMA CloseKeyStep ==
  ASSUME IInv, CloseKey
  PROVE  IInv'
<1> USE DEF IInv
<1>1. PICK g \in Objects : g = current /\ g = created
  BY DEF CloseKey, ObjectsInv, TypeOK, Objects
<1>2. PICK left : left = total[g] - Cardinality(idle[g])
  OBVIOUS
<1>3. /\ closing' = [closing EXCEPT ![g] = TRUE]
      /\ idle' = [idle EXCEPT ![g] = {}]
      /\ total' = [total EXCEPT ![g] = left]
      /\ current' = IF left = 0 THEN 0 ELSE current
      /\ toClose[Closer] = {}
      /\ toClose' = [toClose EXCEPT ![Closer] = idle[g]]
      /\ UNCHANGED <<created, mine, held, live, age, lost, eaten>>
  BY <1>1, <1>2 DEF CloseKey, clientVars
<1>4. \A x \in Callers : pc'[x] = IF pc[x] = "waiting" THEN "woken" ELSE pc[x]
  <2>1. ASSUME NEW x \in Callers, pc[x] = "waiting" PROVE mine[x] = g
    <3>1. mine[x] \in 1..created /\ ~closing[mine[x]]
      BY <2>1 DEF CallersInv
    <3>2. mine[x] \in Objects /\ mine[x] <= created
      BY <3>1, PoolAssumption DEF TypeOK, Objects, PoolAssumption
    <3>3. QED
      BY <1>1, <3>1, <3>2 DEF ObjectsInv
  <2>2. QED
    BY <1>1, <2>1 DEF CloseKey, Waiting
<1>5. pc' \in [Callers -> CallerState]
  BY DEF CloseKey, TypeOK, CallerState
<1>6. /\ \A h \in Objects : Holders(h)' = Holders(h)
      /\ left = Cardinality(Holders(g)) + lost[g]
      /\ left \in 0..MaxClients
  <2>1. \A h \in Objects : Holders(h)' = Holders(h)
    BY <1>3, <1>4 DEF Holders, Holding
  <2>2. left = Cardinality(Holders(g)) + lost[g] /\ left \in 0..MaxClients
    BY <1>2, FiniteParts, PoolAssumption DEF SlotsAccounted, TypeOK, PoolAssumption
  <2>3. QED
    BY <2>1, <2>2
<1>7. Closer \in Tasks /\ Closer \notin Callers
  BY PoolAssumption DEF PoolAssumption, Tasks
<1>8. TypeOK'
  <2>1. /\ current' \in 0..MaxStates
        /\ total' \in [Objects -> 0..MaxClients]
        /\ idle' \in [Objects -> SUBSET Clients]
        /\ toClose' \in [Tasks -> SUBSET Clients]
    BY <1>3, <1>6, <1>7, PoolAssumption DEF TypeOK, PoolAssumption
  <2>2. closing' \in [Objects -> BOOLEAN]
    BY <1>3 DEF TypeOK
  <2>3. QED
    BY <1>3, <1>5, <2>1, <2>2 DEF TypeOK
<1>9. SlotsAccounted'
  <2>1. total'[g] = Cardinality(idle'[g]) + Cardinality(Holders(g)') + lost'[g]
    BY <1>3, <1>6, FS_EmptySet, FiniteParts DEF TypeOK
  <2>2. QED
    BY <1>3, <1>6, <2>1 DEF SlotsAccounted, TypeOK
<1>10. LeaseFindsItsObject'
  <2>1. ASSUME NEW d \in Callers, pc'[d] \in Holding PROVE current' = mine'[d]
    <3>1. pc[d] \in Holding /\ mine[d] = g
      BY <1>1, <1>4, <2>1 DEF LeaseFindsItsObject, Holding
    <3>2. Cardinality(Holders(g)) # 0
      BY <3>1, FiniteParts, FS_EmptySet DEF Holders
    <3>3. left # 0
      BY <1>6, <3>2, FiniteParts DEF TypeOK
    <3>4. QED
      BY <1>1, <1>3, <3>1, <3>3
  <2>2. QED
    BY <2>1 DEF LeaseFindsItsObject
<1>11. ClientsExclusive'
  <2>1. /\ \A h \in Objects : idle'[h] \subseteq idle[h]
        /\ idle'[g] = {}
        /\ \A h \in Objects \ {g} : idle'[h] = idle[h]
    BY <1>3 DEF TypeOK
  <2>2. \A t \in Tasks : toClose'[t] = IF t = Closer THEN idle[g] ELSE toClose[t]
    BY <1>3, <1>7 DEF TypeOK
  <2>3. \A h \in Objects \ {g} : idle[h] = {}
    BY <1>1 DEF ObjectsInv, TypeOK, Objects
  <2>4. \A d \in Callers : held[d] # NoClient => held[d] \notin idle[g]
    BY DEF ClientsExclusive
  <2>5. \A t \in Tasks, h \in Objects : \A m \in toClose[t] : m \notin idle[h]
    BY DEF ClientsExclusive
  <2>6. ASSUME NEW d \in Callers, held[d] # NoClient
        PROVE  /\ \A e \in Callers \ {d} : held[e] # held[d]
               /\ \A h \in Objects : held[d] \notin idle'[h]
               /\ \A t \in Tasks : held[d] \notin toClose'[t]
    BY <2>1, <2>2, <2>4, <2>6 DEF ClientsExclusive
  <2>7. ASSUME NEW t \in Tasks, NEW m \in toClose'[t]
        PROVE  /\ \A h \in Objects : m \notin idle'[h]
               /\ \A u \in Tasks \ {t} : m \notin toClose'[u]
    BY <2>1, <2>2, <2>3, <2>5, <2>7 DEF ClientsExclusive
  <2>8. QED
    BY <1>3, <2>6, <2>7 DEF ClientsExclusive
<1>12. ObjectsInv'
  <2>1. /\ g \in Int /\ created \in Int /\ g <= created /\ g # 0
        /\ left \in Int /\ left >= 0
    BY <1>1, <1>6, PoolAssumption DEF Objects, TypeOK, PoolAssumption
  <2>2. \A h \in Objects :
          /\ idle'[h] = IF h = g THEN {} ELSE idle[h]
          /\ closing'[h] = IF h = g THEN TRUE ELSE closing[h]
          /\ total'[h] = IF h = g THEN left ELSE total[h]
    BY <1>3 DEF TypeOK
  <2>3. current' = created' \/ current' = 0
    BY <1>1, <1>3
  <2>4. ASSUME NEW h \in Objects
        PROVE  /\ h > created' => ~closing'[h] /\ total'[h] = 0 /\ idle'[h] = {}
               /\ h <= created' /\ h # current' => closing'[h]
               /\ closing'[h] => idle'[h] = {}
               /\ closing'[h] /\ h = current' => total'[h] > 0
    <3>1. h \in Int /\ h # 0
      BY PoolAssumption DEF Objects, PoolAssumption
    <3>2. CASE h = g
      <4>1. idle'[h] = {} /\ closing'[h] /\ total'[h] = left /\ created' = g
        BY <1>1, <1>3, <2>2, <3>2
      <4>2. g = current' => left > 0
        BY <1>3, <2>1
      <4>3. ~(h > created') /\ (h = current' => total'[h] > 0)
        BY <2>1, <3>2, <4>1, <4>2
      <4>4. /\ h > created' => ~closing'[h] /\ total'[h] = 0 /\ idle'[h] = {}
            /\ h <= created' /\ h # current' => closing'[h]
        BY <4>1, <4>3, Zenon
      <4>5. QED
        BY <4>1, <4>3, <4>4, Zenon
    <3>3. CASE h # g
      <4>1. /\ idle'[h] = idle[h] /\ closing'[h] = closing[h] /\ total'[h] = total[h]
        BY <2>2, <3>3
      <4>2. created' = created /\ h # current' /\ h # current
        BY <1>1, <2>3, <1>3, <3>1, <3>3, Zenon
      <4>3. QED
        BY <4>1, <4>2 DEF ObjectsInv
    <3>4. QED
      BY <3>2, <3>3
  <2>5. QED
    BY <2>3, <2>4 DEF ObjectsInv
<1>13. CallersInv'
  BY <1>3, <1>4, <1>7 DEF CallersInv, TypeOK, Tasks
<1>14. LiveInv'
  BY <1>3, <1>7 DEF LiveInv, TypeOK
<1>15. QED
  BY <1>8, <1>9, <1>10, <1>11, <1>12, <1>13, <1>14

-----------------------------------------------------------------------------
(* The theorems                                                              *)

LEMMA StepIInv == IInv /\ [Next]_vars => IInv'
<1> SUFFICES ASSUME IInv, [Next]_vars PROVE IInv'
  OBVIOUS
<1>1. ASSUME NEW c \in Callers, Acquire(c) PROVE IInv'
  BY <1>1, RefuseStep, ReuseStep, ClaimStep, WaitStep DEF Acquire
<1>2. ASSUME NEW c \in Callers, Continue(c) PROVE IInv'
  BY <1>1, <1>2, RetireStep, BuildStep, BuildFailsStep, GiveBackStep, DiscardStep,
     CloseClientStep
  DEF Continue, Release
<1>3. ASSUME NEW c \in Callers, Cancel(c) PROVE IInv'
  BY <1>3, CancelWaitStep, CancelRetireStep, CloseClientStep DEF Cancel
<1>4. CASE CloseKey \/ CloseIdle \/ CancelCloseIdle \/ Tick
  BY <1>4, CloseKeyStep, CloseIdleStep, TickStep
<1>5. CASE UNCHANGED vars
  BY <1>5 DEF vars, IInv, TypeOK, SlotsAccounted, LeaseFindsItsObject, ClientsExclusive,
              ObjectsInv, CallersInv, LiveInv, Holders
<1>6. QED
  BY <1>1, <1>2, <1>3, <1>4, <1>5 DEF Next

LEMMA InvariantHolds == Spec => []IInv
  BY InitIInv, StepIInv, PTL DEF Spec

\* Types; in particular no path gives a slot back twice (a count below zero) or
\* grants one above max_clients_per_upstream.
THEOREM TypeCorrect == Spec => []TypeOK
  BY InvariantHolds, PTL DEF IInv

\* The slot count of every pool object is its idle clients, the callers that hold
\* a slot of it, and the slots cancellations lost.
THEOREM SlotsAreAccounted == Spec => []SlotsAccounted
  BY InvariantHolds, PTL DEF IInv

\* A caller that holds a slot finds, when it releases, the object that granted it.
THEOREM LeasesFindTheirObject == Spec => []LeaseFindsItsObject
  BY InvariantHolds, PTL DEF IInv

\* No client is idle, used or being closed in two places.
THEOREM ClientsAreExclusive == Spec => []ClientsExclusive
  BY InvariantHolds, PTL DEF IInv

-----------------------------------------------------------------------------
(* No wakeup is lost                                                         *)

LEMMA FiniteWaiters ==
  ASSUME NEW g
  PROVE  /\ IsFiniteSet(Waiting(g)) /\ Cardinality(Waiting(g)) \in Nat
         /\ IsFiniteSet(Woken(g)) /\ Cardinality(Woken(g)) \in Nat
<1>1. Waiting(g) \in SUBSET Callers /\ Woken(g) \in SUBSET Callers
  BY DEF Waiting, Woken
<1>2. QED
  BY <1>1, FS_Subset, FS_CardinalityType, PoolAssumption DEF PoolAssumption

LEMMA FreeIsInt ==
  ASSUME TypeOK, NEW g \in Objects
  PROVE  Free(g) \in Int
BY FiniteParts, PoolAssumption DEF Free, TypeOK, PoolAssumption

\* The woken callers after one of them has left and n waiters were notified: when
\* somebody still waits, all n of them were there.
LEMMA WokenCount ==
  ASSUME NEW g, NEW c, NEW W \in SUBSET Waiting(g)
  PROVE  /\ IsFiniteSet((Woken(g) \ {c}) \cup W)
         /\ Cardinality((Woken(g) \ {c}) \cup W) =
              Cardinality(Woken(g)) - (IF c \in Woken(g) THEN 1 ELSE 0) + Cardinality(W)
         /\ Cardinality(W) \in Nat
<1>1. IsFiniteSet(W) /\ Cardinality(W) \in Nat
  BY FiniteWaiters, FS_Subset, FS_CardinalityType
<1>2. /\ IsFiniteSet(Woken(g) \ {c})
      /\ Cardinality(Woken(g) \ {c}) = Cardinality(Woken(g)) - (IF c \in Woken(g) THEN 1 ELSE 0)
  BY FiniteWaiters, FS_RemoveElement
<1>3. (Woken(g) \ {c}) \cap W = {}
  BY DEF Waiting, Woken
<1>4. Cardinality((Woken(g) \ {c}) \cap W) = 0
  BY <1>3, FS_EmptySet
<1>5. /\ IsFiniteSet((Woken(g) \ {c}) \cup W)
      /\ Cardinality((Woken(g) \ {c}) \cup W) =
           Cardinality(Woken(g) \ {c}) + Cardinality(W) - Cardinality((Woken(g) \ {c}) \cap W)
  BY <1>1, <1>2, FS_Union
<1>6. Cardinality(Woken(g)) \in Nat
  BY FiniteWaiters
<1>7. QED
  BY <1>1, <1>2, <1>4, <1>5, <1>6

\* Who waits and who is woken after a step that moves caller c and wakes W.
LEMMA MovedWaiters ==
  ASSUME TypeOK, NEW c \in Callers, NEW g \in Objects, NEW m,
         NEW place \in CallerState \ {"waiting", "woken"}, NEW W \in SUBSET Waiting(g),
         Move(c, place, W), mine' = [mine EXCEPT ![c] = m],
         pc[c] \in {"waiting", "woken"} => mine[c] = g
  PROVE  /\ Waiting(g)' = Waiting(g) \ ({c} \cup W)
         /\ Woken(g)' = (Woken(g) \ {c}) \cup (W \ {c})
         /\ \A h \in Objects \ {g} : Waiting(h)' = Waiting(h) /\ Woken(h)' = Woken(h)
<1>1. /\ pc' \in [Callers -> CallerState]
      /\ pc'[c] = place
      /\ \A x \in Callers \ {c} : pc'[x] = IF x \in W THEN "woken" ELSE pc[x]
  BY DEF Move, TypeOK, CallerState
<1>2. \A x \in Callers \ {c} : mine'[x] = mine[x]
  BY DEF TypeOK
<1>3. \A x \in W : x \in Callers /\ pc[x] = "waiting" /\ mine[x] = g
  BY DEF Waiting
<1>4. place \notin {"waiting", "woken"}
  OBVIOUS
<1>5. Waiting(g)' = Waiting(g) \ ({c} \cup W)
  BY <1>1, <1>2, <1>4 DEF Waiting
<1>6. Woken(g)' = (Woken(g) \ {c}) \cup (W \ {c})
  BY <1>1, <1>2, <1>3, <1>4 DEF Woken
<1>7. \A h \in Objects \ {g} : Waiting(h)' = Waiting(h) /\ Woken(h)' = Woken(h)
  BY <1>1, <1>2, <1>3, <1>4 DEF Waiting, Woken
<1>8. QED
  BY <1>5, <1>6, <1>7

\* A caller that does not wait leaves the block having notified n waiters: no
\* wakeup is lost if at most n more can be handed out than before, less the one
\* that a woken caller came for.
LEMMA NotifiedEnough ==
  ASSUME TypeOK, TypeOK', NoLostWakeup, NEW c \in Callers, NEW g \in Objects, NEW m,
         NEW n \in Nat, NEW place \in CallerState \ {"waiting", "woken"},
         NEW W \in Notified(g, n),
         Move(c, place, W), mine' = [mine EXCEPT ![c] = m],
         pc[c] # "waiting", pc[c] = "woken" => mine[c] = g,
         closing' = closing, eaten' = eaten,
         \A h \in Objects \ {g} : idle'[h] = idle[h] /\ total'[h] = total[h],
         Free(g)' <= Free(g) + n - (IF pc[c] = "woken" THEN 1 ELSE 0)
  PROVE  NoLostWakeup'
<1>1. W \in SUBSET Waiting(g)
  BY DEF Notified
<1>2. c \notin W /\ c \notin Waiting(g)
  BY <1>1 DEF Waiting
<1>3. /\ Waiting(g)' = Waiting(g) \ W
      /\ Woken(g)' = (Woken(g) \ {c}) \cup W
      /\ \A h \in Objects \ {g} : Waiting(h)' = Waiting(h) /\ Woken(h)' = Woken(h)
  <2>1. /\ Waiting(g)' = Waiting(g) \ ({c} \cup W)
        /\ Woken(g)' = (Woken(g) \ {c}) \cup (W \ {c})
        /\ \A h \in Objects \ {g} : Waiting(h)' = Waiting(h) /\ Woken(h)' = Woken(h)
    BY <1>1, MovedWaiters
  <2>2. QED
    BY <1>2, <2>1
<1>4. ASSUME NEW h \in Objects \ {g}, Waiting(h)' # {}
      PROVE  /\ ~closing'[h]
             /\ Free(h)' <= Cardinality(Woken(h)') + eaten'[h]
  <2>1. /\ Waiting(h) # {} /\ Woken(h)' = Woken(h)
        /\ idle'[h] = idle[h] /\ total'[h] = total[h] /\ closing'[h] = closing[h]
    BY <1>3, <1>4
  <2>2. QED
    BY <2>1 DEF NoLostWakeup, Free
<1>5. ASSUME Waiting(g)' # {}
      PROVE  /\ ~closing'[g]
             /\ Free(g)' <= Cardinality(Woken(g)') + eaten'[g]
  <2>1. Waiting(g) # {} /\ W # Waiting(g)
    BY <1>3, <1>5
  <2>2. Cardinality(W) = n
    BY <2>1 DEF Notified
  <2>3. ~closing[g] /\ Free(g) <= Cardinality(Woken(g)) + eaten[g]
    BY <2>1 DEF NoLostWakeup
  <2>4. Cardinality(Woken(g)') =
          Cardinality(Woken(g)) - (IF pc[c] = "woken" THEN 1 ELSE 0) + n
    <3>1. c \in Woken(g) <=> pc[c] = "woken"
      BY DEF Woken
    <3>2. Cardinality((Woken(g) \ {c}) \cup W) =
            Cardinality(Woken(g)) - (IF c \in Woken(g) THEN 1 ELSE 0) + Cardinality(W)
      BY <1>1, WokenCount
    <3>3. QED
      BY <1>3, <2>2, <3>1, <3>2
  <2>5. /\ Cardinality(Woken(g)) \in Nat
        /\ Free(g) \in Int
        /\ Free(g)' \in Int
        /\ eaten[g] \in Nat
    <3>1. idle'[g] \in SUBSET Clients /\ total'[g] \in Int /\ MaxClients \in Int
      BY PoolAssumption DEF TypeOK, PoolAssumption
    <3>2. Cardinality(idle'[g]) \in Nat
      BY <3>1, FS_Subset, FS_CardinalityType, PoolAssumption DEF PoolAssumption
    <3>3. QED
      BY <3>1, <3>2, FiniteWaiters, FreeIsInt DEF Free, TypeOK
  <2>6. Free(g)' <= Cardinality(Woken(g)') + eaten'[g]
    BY <2>3, <2>4, <2>5
  <2>7. QED
    BY <2>3, <2>6
<1>6. QED
  BY <1>4, <1>5 DEF NoLostWakeup

\* Nothing that the property looks at changes.
LEMMA NobodyMoves ==
  ASSUME NoLostWakeup, UNCHANGED <<idle, total, closing, eaten>>,
         \A h \in Objects : Waiting(h)' = Waiting(h) /\ Woken(h)' = Woken(h)
  PROVE  NoLostWakeup'
BY DEF NoLostWakeup, Free

LEMMA QuietMove ==
  ASSUME IInv, NoLostWakeup, NEW c \in Callers,
         NEW place \in CallerState \ {"waiting", "woken"},
         pc[c] \notin {"waiting", "woken"},
         Move(c, place, {}),
         mine' = mine \/ mine' = [mine EXCEPT ![c] = 0],
         UNCHANGED <<idle, total, closing, eaten>>
  PROVE  NoLostWakeup'
<1>1. /\ pc' \in [Callers -> CallerState]
      /\ pc'[c] = place
      /\ \A x \in Callers \ {c} : pc'[x] = pc[x] /\ mine'[x] = mine[x]
  BY DEF Move, IInv, TypeOK, CallerState
<1>2. place \notin {"waiting", "woken"}
  OBVIOUS
<1>3. \A h \in Objects : Waiting(h)' = Waiting(h) /\ Woken(h)' = Woken(h)
  BY <1>1, <1>2 DEF Waiting, Woken
<1>4. QED
  BY <1>3, NobodyMoves

LEMMA RefuseKeepsWakeups ==
  ASSUME IInv, NoLostWakeup, NEW c \in Callers, NEW g \in Objects, Refuse(c, g)
  PROVE  NoLostWakeup'
<1>1. /\ pc' \in [Callers -> CallerState]
      /\ pc'[c] = "out"
      /\ \A x \in Callers \ {c} : pc'[x] = pc[x] /\ mine'[x] = mine[x]
  BY DEF Refuse, Move, IInv, TypeOK, CallerState
<1>2. /\ closing[g]
      /\ pc[c] = "out" \/ (pc[c] = "woken" /\ mine[c] = g)
      /\ UNCHANGED <<idle, total, closing, eaten>>
  BY DEF Refuse, Turn
<1>3. \A h \in Objects : Waiting(h)' = Waiting(h) /\ (h # g => Woken(h)' = Woken(h))
  BY <1>1, <1>2 DEF Waiting, Woken
<1>4. Waiting(g)' = {}
  BY <1>2, <1>3 DEF NoLostWakeup
<1>5. QED
  BY <1>2, <1>3, <1>4 DEF NoLostWakeup, Free

\* A caller only starts to wait when nothing can be handed out.
LEMMA WaitKeepsWakeups ==
  ASSUME IInv, IInv', NoLostWakeup, NEW c \in Callers, NEW g \in Objects, Wait(c, g)
  PROVE  NoLostWakeup'
<1> USE DEF IInv
<1>1. /\ pc' \in [Callers -> CallerState]
      /\ pc'[c] = "waiting" /\ mine'[c] = g
      /\ \A x \in Callers \ {c} : pc'[x] = pc[x] /\ mine'[x] = mine[x]
  BY DEF Wait, Move, TypeOK, CallerState
<1>2. /\ ~closing[g] /\ Fresh(g) = {} /\ SlotsLeft(g) >= MaxClients
      /\ pc[c] = "out" \/ (pc[c] = "woken" /\ mine[c] = g)
      /\ UNCHANGED <<idle, total, closing>>
      /\ eaten' = [eaten EXCEPT ![g] = 0]
  BY DEF Wait, Turn
<1>3. \A h \in Objects \ {g} : Waiting(h)' = Waiting(h) /\ Woken(h)' = Woken(h)
  BY <1>1, <1>2 DEF Waiting, Woken
<1>4. Free(g) <= 0
  <2>1. /\ Cardinality(Fresh(g)) = 0
        /\ Cardinality(Expired(g)) \in Nat
        /\ Cardinality(idle[g]) = Cardinality(Fresh(g)) + Cardinality(Expired(g))
    BY <1>2, ExpiredAndFresh, FS_EmptySet
  <2>2. total[g] \in 0..MaxClients /\ MaxClients \in Nat
    BY PoolAssumption DEF TypeOK, PoolAssumption
  <2>3. QED
    BY <1>2, <2>1, <2>2 DEF SlotsLeft, Free
<1>5. Cardinality(Woken(g)') \in Nat
  <2>1. Woken(g)' \in SUBSET Callers
    BY DEF Woken
  <2>2. QED
    BY <2>1, FS_Subset, FS_CardinalityType, PoolAssumption DEF PoolAssumption
<1>6. Free(g) <= Cardinality(Woken(g)') + eaten'[g]
  <2>1. Free(g) \in Int /\ eaten'[g] = 0
    BY <1>2, FreeIsInt DEF TypeOK
  <2>2. QED
    BY <1>4, <1>5, <2>1
<1>7. \A h \in Objects \ {g} : eaten'[h] = eaten[h]
  BY <1>2 DEF TypeOK
<1>8. QED
  BY <1>2, <1>3, <1>6, <1>7 DEF NoLostWakeup, Free

\* A cancelled wait passes on what it was notified of, or it is counted in eaten.
LEMMA CancelWaitKeepsWakeups ==
  ASSUME IInv, NoLostWakeup, NEW c \in Callers, CancelWait(c)
  PROVE  NoLostWakeup'
<1> USE DEF IInv
<1>1. /\ pc[c] \in {"waiting", "woken"}
      /\ mine' = [mine EXCEPT ![c] = 0]
      /\ UNCHANGED <<idle, total, closing>>
  BY DEF CancelWait, stateVars
<1>2. PICK g \in Objects : g = mine[c]
  <2>1. created \in 0..MaxStates /\ MaxStates \in Nat
    BY PoolAssumption DEF TypeOK, PoolAssumption
  <2>2. mine[c] \in 1..created
    BY <1>1 DEF CallersInv
  <2>3. QED
    BY <2>1, <2>2 DEF Objects
<1>3. PICK W \in SUBSET (Waiting(g) \ {c}) :
        /\ Move(c, "out", W)
        /\ \/ /\ Cardinality(W) = 1 \/ Waiting(g) \subseteq {c}
              /\ eaten' = eaten
           \/ /\ W = {}
              /\ eaten' = IF pc[c] = "woken" THEN [eaten EXCEPT ![g] = @ + 1] ELSE eaten
  BY <1>2 DEF CancelWait
<1>4. W \in SUBSET Waiting(g) /\ c \notin W
  BY <1>3
<1>5. /\ Waiting(g)' = Waiting(g) \ ({c} \cup W)
      /\ Woken(g)' = (Woken(g) \ {c}) \cup W
      /\ \A h \in Objects \ {g} : Waiting(h)' = Waiting(h) /\ Woken(h)' = Woken(h)
  <2> HIDE DEF IInv
  <2>1. /\ TypeOK
        /\ "out" \in CallerState \ {"waiting", "woken"}
        /\ pc[c] \in {"waiting", "woken"} => mine[c] = g
        /\ Move(c, "out", W)
    BY <1>2, <1>3 DEF IInv, CallerState
  <2>2. /\ Waiting(g)' = Waiting(g) \ ({c} \cup W)
        /\ Woken(g)' = (Woken(g) \ {c}) \cup (W \ {c})
        /\ \A h \in Objects \ {g} : Waiting(h)' = Waiting(h) /\ Woken(h)' = Woken(h)
    BY <1>1, <1>4, <2>1, MovedWaiters
  <2>3. QED
    BY <1>4, <2>2
<1>6. eaten[g] \in Nat /\ (\A h \in Objects \ {g} : eaten'[h] = eaten[h])
  BY <1>3 DEF TypeOK
<1>7. ASSUME Waiting(g)' # {}
      PROVE  ~closing[g] /\ Free(g) <= Cardinality(Woken(g)') + eaten'[g]
  <2>1. Waiting(g) # {} /\ ~(Waiting(g) \subseteq {c})
    BY <1>5, <1>7
  <2>2. ~closing[g] /\ Free(g) <= Cardinality(Woken(g)) + eaten[g]
    BY <1>2, <2>1 DEF NoLostWakeup
  <2>3. Cardinality(Woken(g)') =
          Cardinality(Woken(g)) - (IF c \in Woken(g) THEN 1 ELSE 0) + Cardinality(W)
    <3>1. Cardinality((Woken(g) \ {c}) \cup W) =
            Cardinality(Woken(g)) - (IF c \in Woken(g) THEN 1 ELSE 0) + Cardinality(W)
      BY <1>4, WokenCount
    <3>2. Woken(g)' = (Woken(g) \ {c}) \cup W
      BY <1>5
    <3>3. QED
      BY <3>1, <3>2
  <2>4. Cardinality(Woken(g)) \in Nat /\ Cardinality(W) \in Nat /\ Free(g) \in Int
    BY <1>2, <1>4, FiniteWaiters, FreeIsInt, WokenCount
  <2>5. CASE Cardinality(W) = 1 /\ eaten' = eaten
    BY <1>6, <2>2, <2>3, <2>4, <2>5
  <2>6. CASE /\ W = {}
             /\ eaten' = IF pc[c] = "woken" THEN [eaten EXCEPT ![g] = @ + 1] ELSE eaten
    <3>1. Cardinality(W) = 0
      BY <2>6, FS_EmptySet
    <3>2. c \in Woken(g) <=> pc[c] = "woken"
      BY <1>2 DEF Woken
    <3>3. eaten'[g] = eaten[g] + (IF c \in Woken(g) THEN 1 ELSE 0)
      BY <2>6, <3>2 DEF TypeOK
    <3>4. QED
      BY <1>6, <2>2, <2>3, <2>4, <3>1, <3>3
  <2>7. QED
    BY <1>3, <2>1, <2>2, <2>5, <2>6
<1>8. QED
  BY <1>1, <1>5, <1>6, <1>7 DEF NoLostWakeup, Free

LEMMA GrantKeepsWakeups ==
  ASSUME IInv, IInv', NoLostWakeup, NEW c \in Callers, NEW g \in Objects,
         Reuse(c, g) \/ Claim(c, g)
  PROVE  NoLostWakeup'
<1> USE DEF IInv
<1> DEFINE n == Cardinality(Expired(g))
<1>1. /\ n \in Nat /\ Cardinality(Fresh(g)) \in Nat /\ IsFiniteSet(Fresh(g))
      /\ Cardinality(idle[g]) = Cardinality(Fresh(g)) + n
      /\ total[g] \in Int /\ MaxClients \in Int
  BY ExpiredAndFresh, PoolAssumption DEF TypeOK, PoolAssumption
<1>2. /\ pc[c] = "out" \/ (pc[c] = "woken" /\ mine[c] = g)
      /\ mine' = [mine EXCEPT ![c] = g]
      /\ closing' = closing /\ eaten' = eaten
      /\ \A h \in Objects \ {g} : idle'[h] = idle[h] /\ total'[h] = total[h]
  BY DEF Reuse, Claim, Turn, Grant, TypeOK
<1>3. PICK place \in CallerState \ {"waiting", "woken"}, W \in Notified(g, n) :
        Move(c, place, W)
  BY DEF Reuse, Claim, Grant, CallerState
<1>4. Cardinality(idle'[g]) + MaxClients - total'[g] = Cardinality(Fresh(g)) + n + MaxClients - total[g] - 1
  <2>1. CASE Reuse(c, g)
    <3>1. PICK k \in Fresh(g) : idle' = [idle EXCEPT ![g] = Fresh(g) \ {k}]
      BY <2>1 DEF Reuse
    <3>2. Cardinality(Fresh(g) \ {k}) = Cardinality(Fresh(g)) - 1
      BY <1>1, FS_RemoveElement
    <3>3. idle'[g] = Fresh(g) \ {k} /\ total'[g] = total[g] - n
      BY <2>1, <3>1 DEF Reuse, SlotsLeft, TypeOK
    <3>4. QED
      BY <1>1, <3>2, <3>3
  <2>2. CASE Claim(c, g)
    <3>1. idle'[g] = {} /\ total'[g] = total[g] - n + 1 /\ Fresh(g) = {}
      BY <2>2 DEF Claim, SlotsLeft, TypeOK
    <3>2. Cardinality(idle'[g]) = 0 /\ Cardinality(Fresh(g)) = 0
      BY <3>1, FS_EmptySet
    <3>3. QED
      BY <1>1, <3>1, <3>2
  <2>3. QED
    BY <2>1, <2>2
<1>5. Free(g)' <= Free(g) + n - (IF pc[c] = "woken" THEN 1 ELSE 0)
  BY <1>1, <1>4 DEF Free
<1>6. pc[c] # "waiting" /\ (pc[c] = "woken" => mine[c] = g)
  BY <1>2
<1> HIDE DEF n, IInv
<1>7. TypeOK /\ TypeOK'
  BY DEF IInv
<1>8. QED
  BY <1>1, <1>2, <1>3, <1>5, <1>6, <1>7, NotifiedEnough

\* A slot or a client is given back and one waiter notified.
LEMMA ReturnKeepsWakeups ==
  ASSUME IInv, IInv', NoLostWakeup, NEW c \in Callers,
         BuildFails(c) \/ GiveBack(c) \/ Discard(c)
  PROVE  NoLostWakeup'
<1>1. pc[c] \in Holding
  BY DEF BuildFails, GiveBack, Discard, Holding
<1>2. PICK g \in Objects : g = mine[c] /\ g = current
  BY <1>1, HolderFacts
<1>3. /\ mine' = [mine EXCEPT ![c] = 0]
      /\ closing' = closing /\ eaten' = eaten
      /\ \A h \in Objects \ {g} : idle'[h] = idle[h] /\ total'[h] = total[h]
      /\ pc[c] \notin {"waiting", "woken"}
  BY <1>2 DEF BuildFails, GiveBack, Discard, IInv, TypeOK
<1>4. PICK place \in CallerState \ {"waiting", "woken"}, W \in Notified(g, 1) :
        Move(c, place, W)
  BY <1>2 DEF BuildFails, GiveBack, Discard, CallerState
<1>5. /\ IsFiniteSet(idle[g]) /\ Cardinality(idle[g]) \in Nat
      /\ total[g] \in Int /\ MaxClients \in Int
  BY FiniteParts, PoolAssumption DEF IInv, TypeOK, PoolAssumption
<1>6. Free(g)' <= Free(g) + 1
  <2>1. CASE BuildFails(c) \/ Discard(c)
    <3>1. idle'[g] = idle[g] /\ total'[g] = total[g] - 1
      BY <1>2, <2>1 DEF BuildFails, Discard, IInv, TypeOK
    <3>2. QED
      BY <1>5, <3>1 DEF Free
  <2>2. CASE GiveBack(c)
    <3>1. idle'[g] = idle[g] \cup {held[c]} /\ total'[g] = total[g]
      BY <1>2, <2>2 DEF GiveBack, IInv, TypeOK
    <3>2. PICK k : k = held[c]
      OBVIOUS
    <3>3. Cardinality(idle[g] \cup {k}) =
            IF k \in idle[g] THEN Cardinality(idle[g]) ELSE Cardinality(idle[g]) + 1
      BY <1>5, FS_AddElement
    <3>4. Cardinality(idle'[g]) <= Cardinality(idle[g]) + 1 /\ Cardinality(idle'[g]) \in Int
      BY <1>5, <3>1, <3>2, <3>3
    <3>5. QED
      BY <1>5, <3>1, <3>4 DEF Free
  <2>3. QED
    BY <2>1, <2>2
<1>7. pc[c] # "waiting" /\ pc[c] # "woken" /\ TypeOK /\ TypeOK' /\ Free(g) \in Int
  BY <1>3, FreeIsInt DEF IInv
<1>8. Free(g)' <= Free(g) + 1 - (IF pc[c] = "woken" THEN 1 ELSE 0)
  BY <1>6, <1>7
<1>9. QED
  BY <1>3, <1>4, <1>7, <1>8, NotifiedEnough

\* close_key wakes everybody who waits on the key.
LEMMA CloseKeyKeepsWakeups ==
  ASSUME IInv, NoLostWakeup, CloseKey
  PROVE  NoLostWakeup'
<1>1. PICK g \in Objects : g = current
  BY DEF CloseKey, IInv, TypeOK, Objects
<1>2. /\ mine' = mine
      /\ pc' = [c \in Callers |-> IF c \in Waiting(g) THEN "woken" ELSE pc[c]]
      /\ eaten' = eaten
      /\ \A h \in Objects \ {g} :
            idle'[h] = idle[h] /\ total'[h] = total[h] /\ closing'[h] = closing[h]
  BY <1>1 DEF CloseKey, IInv, TypeOK
<1>3. Waiting(g)' = {}
  BY <1>2 DEF Waiting
<1>4. \A h \in Objects \ {g} : Waiting(h)' = Waiting(h) /\ Woken(h)' = Woken(h)
  BY <1>2 DEF Waiting, Woken
<1>5. QED
  BY <1>2, <1>3, <1>4 DEF NoLostWakeup, Free

LEMMA InitWakeups == Init => NoLostWakeup
BY DEF Init, NoLostWakeup, Waiting

LEMMA StepWakeups == IInv /\ IInv' /\ NoLostWakeup /\ [Next]_vars => NoLostWakeup'
<1> SUFFICES ASSUME IInv, IInv', NoLostWakeup, [Next]_vars
             PROVE  NoLostWakeup'
  OBVIOUS
<1>1. ASSUME NEW c \in Callers, Acquire(c)
      PROVE  NoLostWakeup'
  BY <1>1, RefuseKeepsWakeups, WaitKeepsWakeups, GrantKeepsWakeups DEF Acquire
<1>2. ASSUME NEW c \in Callers, Retire(c) \/ Build(c) \/ CloseClient(c)
      PROVE  NoLostWakeup'
  <2>1. PICK place \in CallerState \ {"waiting", "woken"} : Move(c, place, {})
    BY <1>2 DEF Retire, Build, CloseClient, CallerState
  <2>2. /\ pc[c] \notin {"waiting", "woken"}
        /\ mine' = mine
        /\ UNCHANGED <<idle, total, closing, eaten>>
    BY <1>2 DEF Retire, Build, CloseClient, stateVars
  <2>3. QED
    BY <2>1, <2>2, QuietMove
<1>3. ASSUME NEW c \in Callers, CancelRetire(c) \/ CancelClose(c)
      PROVE  NoLostWakeup'
  <2>1. /\ Move(c, "out", {})
        /\ "out" \in CallerState \ {"waiting", "woken"}
        /\ pc[c] \notin {"waiting", "woken"}
        /\ mine' = mine \/ mine' = [mine EXCEPT ![c] = 0]
        /\ UNCHANGED <<idle, total, closing, eaten>>
    BY <1>3 DEF CancelRetire, CancelClose, stateVars, CallerState
  <2>2. QED
    BY <2>1, QuietMove
<1>4. ASSUME NEW c \in Callers, CancelWait(c)
      PROVE  NoLostWakeup'
  BY <1>4, CancelWaitKeepsWakeups
<1>5. ASSUME NEW c \in Callers, BuildFails(c) \/ Release(c)
      PROVE  NoLostWakeup'
  BY <1>5, ReturnKeepsWakeups DEF Release
<1>6. CASE CloseKey
  BY <1>6, CloseKeyKeepsWakeups
<1>7. CASE CloseIdle \/ CancelCloseIdle \/ Tick \/ UNCHANGED vars
  <2>1. UNCHANGED <<pc, mine, idle, total, closing, eaten>>
    BY <1>7 DEF CloseIdle, CancelCloseIdle, Tick, vars, stateVars
  <2>2. \A h \in Objects : Waiting(h)' = Waiting(h) /\ Woken(h)' = Woken(h)
    BY <2>1 DEF Waiting, Woken
  <2>3. QED
    BY <2>1, <2>2, NobodyMoves
<1>8. QED
  BY <1>1, <1>2, <1>3, <1>4, <1>5, <1>6, <1>7 DEF Next, Continue, Cancel

\* While a caller waits un-notified in _acquire, every client and slot that is
\* free has a notified caller on its way to it, or was announced to a waiter that
\* was cancelled since and took the notification along: expiry, reuse, a failed
\* build, a release and close_key notify enough under either kind of condition.
THEOREM WakeupsAreKept == Spec => []NoLostWakeup
<1>1. Init => IInv /\ NoLostWakeup
  BY InitIInv, InitWakeups
<1>2. IInv /\ NoLostWakeup /\ [Next]_vars => (IInv /\ NoLostWakeup)'
  BY StepIInv, StepWakeups
<1>3. QED
  BY <1>1, <1>2, PTL DEF Spec

-----------------------------------------------------------------------------
(* The pool implements ClientLease *)

\* As many callers have a client as there are clients to have, at most.
UsersBounded ==
    /\ IsFiniteSet(Lease!Users)
    /\ Cardinality(Lease!Users) \in Nat
    /\ Cardinality(Lease!Users) <= MaxClients

LEMMA UsersAreBounded == IInv => UsersBounded
<1> SUFFICES ASSUME IInv PROVE UsersBounded
  OBVIOUS
<1> USE DEF IInv
<1>1. IsFiniteSet(Lease!Users) /\ Cardinality(Lease!Users) \in Nat
  <2>1. Lease!Users \in SUBSET Callers
    BY DEF Lease!Users
  <2>2. QED
    BY <2>1, FS_Subset, FS_CardinalityType, PoolAssumption DEF PoolAssumption
<1>2. CASE Lease!Users = {}
  BY <1>1, <1>2, FS_EmptySet, PoolAssumption DEF UsersBounded, PoolAssumption
<1>3. ASSUME NEW c \in Lease!Users PROVE Cardinality(Lease!Users) <= MaxClients
  <2>1. \A d \in Lease!Users : d \in Callers /\ pc[d] \in Holding
    BY DEF Lease!Users, CallersInv, TypeOK, CallerState, Holding
  <2>2. \A d \in Lease!Users : mine[d] = current
    BY <2>1 DEF LeaseFindsItsObject
  <2>3. current \in Objects
    <3>1. c \in Callers /\ pc[c] \in Holding /\ mine[c] = current
      BY <1>3, <2>1, <2>2
    <3>2. current \in 1..created
      BY <3>1 DEF CallersInv, Holding
    <3>3. QED
      BY <3>2, PoolAssumption DEF TypeOK, Objects, PoolAssumption
  <2>4. Lease!Users \in SUBSET Holders(current)
    BY <2>1, <2>2 DEF Holders
  <2>5. Cardinality(Lease!Users) <= Cardinality(Holders(current))
    BY <2>3, <2>4, FiniteParts, FS_Subset
  <2>6. Cardinality(Holders(current)) <= total[current] /\ total[current] <= MaxClients
    BY <2>3, FiniteParts, PoolAssumption DEF SlotsAccounted, TypeOK, PoolAssumption
  <2>7. QED
    BY <1>1, <2>3, <2>5, <2>6, FiniteParts, PoolAssumption DEF TypeOK, PoolAssumption
<1>4. QED
  BY <1>1, <1>2, <1>3 DEF UsersBounded

\* A caller that gets a client nobody has takes a lease.
LEMMA TakesLease ==
  ASSUME IInv, UsersBounded, UsersBounded', NEW c \in Callers, NEW k \in Clients,
         held' = [held EXCEPT ![c] = k], held[c] = NoClient,
         \A d \in Callers : held[d] # k
  PROVE  Lease!Next
<1>1. Lease!Users' = Lease!Users \cup {c} /\ c \notin Lease!Users
  BY PoolAssumption DEF Lease!Users, IInv, TypeOK, PoolAssumption
<1>2. /\ IsFiniteSet(Lease!Users) /\ Cardinality(Lease!Users) \in Nat
      /\ Cardinality(Lease!Users)' <= MaxClients
  BY DEF UsersBounded
<1>3. Cardinality(Lease!Users)' = Cardinality(Lease!Users) + 1
  BY <1>1, <1>2, FS_AddElement
<1>4. Cardinality(Lease!Users) < MaxClients
  BY <1>2, <1>3, PoolAssumption DEF PoolAssumption
<1>5. QED
  BY <1>4 DEF Lease!Next, Lease!Take, Lease!Cardinality, Cardinality

LEMMA StepIsLease ==
  ASSUME IInv, UsersBounded, UsersBounded', [Next]_vars
  PROVE  [Lease!Next]_held
<1>1. ASSUME NEW c \in Callers, NEW g \in Objects, Reuse(c, g) PROVE Lease!Next
  <2>1. PICK k \in Fresh(g) : held' = [held EXCEPT ![c] = k]
    BY <1>1 DEF Reuse
  <2>2. k \in idle[g] /\ k \in Clients
    BY <2>1 DEF Fresh, IInv, TypeOK
  <2>3. pc[c] \in {"out", "woken"} /\ held[c] = NoClient
    BY <1>1 DEF Reuse, Turn, IInv, CallersInv
  <2>4. \A d \in Callers : held[d] # k
    BY <2>2, PoolAssumption DEF IInv, ClientsExclusive, PoolAssumption
  <2>5. QED
    BY <2>1, <2>2, <2>3, <2>4, TakesLease
<1>2. ASSUME NEW c \in Callers, Build(c) PROVE Lease!Next
  <2>1. PICK k \in Clients \ live : held' = [held EXCEPT ![c] = k]
    BY <1>2 DEF Build
  <2>2. held[c] = NoClient
    BY <1>2 DEF Build, IInv, CallersInv
  <2>3. \A d \in Callers : held[d] # k
    BY <2>1, PoolAssumption DEF IInv, LiveInv, PoolAssumption
  <2>4. QED
    BY <2>1, <2>2, <2>3, TakesLease
<1>3. ASSUME NEW c \in Callers, GiveBack(c) \/ Discard(c) \/ CancelRetire(c)
      PROVE  [Lease!Next]_held
  <2>1. held' = [held EXCEPT ![c] = NoClient]
    BY <1>3 DEF GiveBack, Discard, CancelRetire
  <2>2. CASE held[c] = NoClient
    BY <2>1, <2>2 DEF IInv, TypeOK
  <2>3. CASE held[c] # NoClient
    BY <2>1, <2>3 DEF Lease!Next, Lease!Return
  <2>4. QED
    BY <2>2, <2>3
<1>4. ASSUME NEW c \in Callers, Acquire(c) PROVE [Lease!Next]_held
  BY <1>1, <1>4 DEF Acquire, Refuse, Claim, Wait
<1>5. ASSUME NEW c \in Callers, Continue(c) \/ Cancel(c) PROVE [Lease!Next]_held
  <2>1. CASE Acquire(c) \/ Build(c) \/ GiveBack(c) \/ Discard(c) \/ CancelRetire(c)
    BY <1>2, <1>3, <1>4, <2>1
  <2>2. CASE Retire(c) \/ BuildFails(c) \/ CloseClient(c) \/ CancelWait(c) \/ CancelClose(c)
    BY <2>2 DEF Retire, BuildFails, CloseClient, CancelWait, CancelClose
  <2>3. QED
    BY <1>5, <2>1, <2>2 DEF Continue, Release, Cancel
<1>6. CASE CloseKey \/ CloseIdle \/ CancelCloseIdle \/ Tick \/ UNCHANGED vars
  BY <1>6 DEF CloseKey, CloseIdle, CancelCloseIdle, Tick, vars
<1>7. QED
  BY <1>4, <1>5, <1>6 DEF Next

\* Whatever the callers, the closer and the clock do, and whoever is cancelled:
\* inside `async with acquire` everybody has a client of its own and at most
\* max_clients_per_upstream callers are inside.
THEOREM PoolImplementsLease == Spec => ImplementsLease
<1>1. Init => Lease!Init
  BY DEF Init, Lease!Init
<1>2. IInv /\ UsersBounded /\ UsersBounded' /\ [Next]_vars => [Lease!Next]_held
  BY StepIsLease
<1>3. QED
  BY <1>1, <1>2, InvariantHolds, UsersAreBounded, PTL DEF Spec, ImplementsLease, Lease!Spec

-----------------------------------------------------------------------------
(* Calls through both: what the breaker and the pool know of a call *)

Verdict == {"success", "failure", "cancelled"}

\* The breaker counts a call as running exactly while the pool has its caller,
\* and a call that closes its client has something to report.
CallsInv ==
    /\ pc \in [Callers -> CallerState]
    /\ call \in [Callers -> B!CallState]
    /\ verdict \in [Callers -> Verdict \cup {"none"}]
    /\ \A c \in Callers :
        /\ pc[c] = "out" <=> call[c] = "none"
        /\ pc[c] = "closing" <=> verdict[c] # "none"
        /\ verdict[c] = "cancelled" => c \in Cancellable

\* A step of the pool moves its caller, and wakes some that wait.
LEMMA OthersStay ==
  ASSUME pc \in [Callers -> CallerState],
         NEW c \in Callers, NEW place \in CallerState, NEW g, NEW W \in SUBSET Waiting(g),
         Move(c, place, W)
  PROVE  /\ pc' \in [Callers -> CallerState]
         /\ pc'[c] = place
         /\ \A d \in Callers \ {c} : /\ pc'[d] = "out" <=> pc[d] = "out"
                                     /\ pc'[d] = "closing" <=> pc[d] = "closing"
<1>1. pc' = [x \in Callers |-> IF x = c THEN place ELSE IF x \in W THEN "woken" ELSE pc[x]]
  BY DEF Move
<1>2. \A d \in W : pc[d] = "waiting"
  BY DEF Waiting
<1>3. QED
  BY <1>1, <1>2 DEF CallerState

\* Where a step of the pool takes its caller; the others are in the pool, and
\* close a client, as before.
Takes(c, places) ==
    /\ pc' \in [Callers -> CallerState]
    /\ pc'[c] \in places
    /\ \A d \in Callers \ {c} : /\ pc'[d] = "out" <=> pc[d] = "out"
                                /\ pc'[d] = "closing" <=> pc[d] = "closing"

Inside == {"waiting", "woken", "retiring", "building", "leased"}

LEMMA AcquireTakes ==
  ASSUME CallsInv, NEW c \in Callers, NEW g \in Objects
  PROVE  /\ Reuse(c, g) \/ Claim(c, g) \/ Wait(c, g) => Takes(c, Inside)
         /\ Refuse(c, g) => Takes(c, {"out"})
<1>0. pc \in [Callers -> CallerState]
  BY DEF CallsInv
<1>1. ASSUME NEW next \in {"leased", "building"}, Grant(c, g, next) PROVE Takes(c, Inside)
  <2>1. PICK W \in Notified(g, Cardinality(Expired(g))) :
            Move(c, IF Expired(g) = {} THEN next ELSE "retiring", W)
    BY <1>1 DEF Grant
  <2>2. W \in SUBSET Waiting(g)
    BY <2>1 DEF Notified
  <2>3. PICK place \in Inside : Move(c, place, W)
    BY <2>1 DEF Inside
  <2>4. place \in CallerState
    BY <2>3 DEF Inside, CallerState
  <2>5. QED
    BY <1>0, <2>2, <2>3, <2>4, OthersStay DEF Takes
<1>2. {} \in SUBSET Waiting(g)
  OBVIOUS
<1>3. Wait(c, g) => Takes(c, Inside)
  <2>1. "waiting" \in CallerState /\ "waiting" \in Inside
    BY DEF CallerState, Inside
  <2>2. QED
    BY <1>0, <1>2, <2>1, OthersStay DEF Wait, Takes
<1>4. Refuse(c, g) => Takes(c, {"out"})
  <2>1. "out" \in CallerState
    BY DEF CallerState
  <2>2. QED
    BY <1>0, <1>2, <2>1, OthersStay DEF Refuse, Takes
<1>5. QED
  BY <1>1, <1>3, <1>4 DEF Reuse, Claim

LEMMA LeaseTakes ==
  ASSUME CallsInv, NEW c \in Callers
  PROVE  /\ Retire(c) \/ Build(c) => Takes(c, Inside)
         /\ BuildFails(c) \/ GiveBack(c) \/ CloseClient(c) \/ Cancel(c) => Takes(c, {"out"})
         /\ Discard(c) => Takes(c, {"closing"})
<1>0. pc \in [Callers -> CallerState]
  BY DEF CallsInv
<1>1. ASSUME NEW place \in CallerState, NEW g, NEW W \in SUBSET Waiting(g), Move(c, place, W),
             NEW places, place \in places
      PROVE  Takes(c, places)
  BY <1>0, <1>1, OthersStay DEF Takes
<1>2. {"out", "closing", "retiring", "leased", "building"} \subseteq CallerState
  BY DEF CallerState
<1>3. \A g : {} \in SUBSET Waiting(g)
  OBVIOUS
<1>4. \A g, n : \A W \in Notified(g, n) : W \in SUBSET Waiting(g)
  BY DEF Notified
<1>5. ASSUME Retire(c) PROVE Takes(c, Inside)
  <2>1. PICK place \in {"retiring", "leased", "building"} : Move(c, place, {})
    BY <1>5 DEF Retire
  <2>2. QED
    BY <1>1, <1>2, <1>3, <2>1 DEF Inside
<1>6. ASSUME Build(c) PROVE Takes(c, Inside)
  BY <1>1, <1>2, <1>3, <1>6 DEF Build, Inside
<1>7. ASSUME BuildFails(c) PROVE Takes(c, {"out"})
  <2>1. PICK g : g = mine[c]
    OBVIOUS
  <2>2. PICK W \in Notified(g, 1) : Move(c, "out", W)
    BY <1>7, <2>1 DEF BuildFails
  <2>3. QED
    BY <1>1, <1>2, <1>4, <2>2
<1>8. ASSUME GiveBack(c) PROVE Takes(c, {"out"})
  <2>1. PICK g : g = current
    OBVIOUS
  <2>2. PICK W \in Notified(g, 1) : Move(c, "out", W)
    BY <1>8, <2>1 DEF GiveBack
  <2>3. QED
    BY <1>1, <1>2, <1>4, <2>2
<1>9. ASSUME Discard(c) PROVE Takes(c, {"closing"})
  <2>1. PICK g : g = current
    OBVIOUS
  <2>2. PICK W \in Notified(g, 1) : Move(c, "closing", W)
    BY <1>9, <2>1 DEF Discard
  <2>3. QED
    BY <1>1, <1>2, <1>4, <2>2
<1>10. ASSUME CloseClient(c) \/ CancelRetire(c) \/ CancelClose(c) PROVE Takes(c, {"out"})
  BY <1>1, <1>2, <1>3, <1>10 DEF CloseClient, CancelRetire, CancelClose
<1>11. ASSUME CancelWait(c) PROVE Takes(c, {"out"})
  <2>1. PICK g : g = mine[c]
    OBVIOUS
  <2>2. PICK W \in SUBSET Waiting(g) : Move(c, "out", W)
    BY <1>11, <2>1, <1>3 DEF CancelWait
  <2>3. QED
    BY <1>1, <1>2, <2>2
<1>12. QED
  BY <1>5, <1>6, <1>7, <1>8, <1>9, <1>10, <1>11 DEF Cancel


LEMMA CallsInit == ClientInit => CallsInv
  BY DEF ClientInit, Init, B!Init, CallsInv, CallerState, B!CallState

\* One step of the call of caller c: where its call and its verdict go with it.
LEMMA CallsStep ==
  ASSUME CallsInv, NEW c \in Callers,
         \/ /\ Takes(c, {"out"})
            /\ CallEnds(c)
         \/ /\ Takes(c, Inside)
            /\ pc[c] \notin {"out", "closing"}
            /\ UNCHANGED <<call, verdict>>
         \/ /\ Takes(c, Inside)
            /\ pc[c] = "out"
            /\ \E how \in {"normal", "probe"} : call' = [call EXCEPT ![c] = how]
            /\ UNCHANGED verdict
         \/ /\ Takes(c, {"closing"})
            /\ pc[c] = "leased"
            /\ \E v \in Verdict : /\ v = "cancelled" => c \in Cancellable
                                  /\ verdict' = [verdict EXCEPT ![c] = v]
            /\ UNCHANGED call
         \/ /\ Takes(c, {"out"})
            /\ pc[c] = "out"
            /\ UNCHANGED <<call, verdict>>
  PROVE  CallsInv'
<1>1. /\ pc' \in [Callers -> CallerState]
      /\ call' \in [Callers -> B!CallState]
      /\ verdict' \in [Callers -> Verdict \cup {"none"}]
  BY DEF CallsInv, Takes, CallEnds, B!CallState
<1>2. \A d \in Callers \ {c} : /\ call'[d] = call[d]
                               /\ verdict'[d] = verdict[d]
                               /\ pc'[d] = "out" <=> pc[d] = "out"
                               /\ pc'[d] = "closing" <=> pc[d] = "closing"
  BY DEF CallsInv, Takes, CallEnds
<1>3. /\ pc'[c] = "out" <=> call'[c] = "none"
      /\ pc'[c] = "closing" <=> verdict'[c] # "none"
      /\ verdict'[c] = "cancelled" => c \in Cancellable
  BY DEF CallsInv, Takes, CallEnds, Inside, Verdict
<1>4. QED
  BY <1>1, <1>2, <1>3 DEF CallsInv

\* The steps that leave every caller where it is.
LEMMA CallsKept ==
  ASSUME CallsInv, UNCHANGED <<pc, call, verdict>>
  PROVE  CallsInv'
  BY DEF CallsInv

LEMMA PoolTaskCalls == CallsInv /\ PoolTask => CallsInv'
<1> SUFFICES ASSUME CallsInv, PoolTask PROVE CallsInv'
  OBVIOUS
<1>1. CASE UNCHANGED pc
  BY <1>1, CallsKept DEF PoolTask
<1>2. CASE CloseKey
  <2>1. \A d \in Callers : pc'[d] = pc[d] \/ (pc[d] = "waiting" /\ pc'[d] = "woken")
    BY <1>2 DEF CloseKey, Waiting
  <2>2. pc' \in [Callers -> CallerState]
    BY <1>2 DEF CloseKey, CallsInv, CallerState
  <2>3. QED
    BY <2>1, <2>2 DEF CallsInv, PoolTask
<1>3. QED
  BY <1>1, <1>2 DEF PoolTask, CloseIdle, CancelCloseIdle, Tick

LEMMA ProceedCalls ==
  ASSUME CallsInv, NEW c \in Callers, Proceed(c)
  PROVE  CallsInv'
<1>1. CASE Resume(c)
  BY <1>1, CallsStep, AcquireTakes DEF Resume, EndsWith
<1>2. CASE Advance(c)
  BY <1>2, CallsStep, LeaseTakes DEF Advance, Retire, Build
<1>3. CASE FactoryEnds(c)
  BY <1>3, CallsStep, LeaseTakes DEF FactoryEnds, EndsWith
<1>4. CASE OperationSucceeds(c)
  BY <1>4, CallsStep, LeaseTakes DEF OperationSucceeds, EndsWith, Discard, Verdict
<1>5. CASE OperationFails(c)
  BY <1>5, CallsStep, LeaseTakes DEF OperationFails, Discard, Verdict
<1>6. CASE FinishClose(c)
  BY <1>6, CallsStep, LeaseTakes DEF FinishClose, EndsWith
<1>7. QED
  BY <1>1, <1>2, <1>3, <1>4, <1>5, <1>6 DEF Proceed

LEMMA ClientStepCalls == CallsInv /\ [ClientNext]_clientCallVars => CallsInv'
<1> SUFFICES ASSUME CallsInv, [ClientNext]_clientCallVars PROVE CallsInv'
  OBVIOUS
<1>1. ASSUME NEW c \in Callers, Start(c) PROVE CallsInv'
  <2>1. \E how \in {"normal", "probe"} : call' = [call EXCEPT ![c] = how]
    BY <1>1 DEF Start, B!Begin
  <2>2. Takes(c, Inside)
    BY <1>1, AcquireTakes DEF Start
  <2>3. QED
    BY <1>1, <2>1, <2>2, CallsStep DEF Start
<1>2. ASSUME NEW c \in Callers, StartRefused(c) PROVE CallsInv'
  BY <1>2, CallsStep, AcquireTakes DEF StartRefused
<1>3. ASSUME NEW c \in Callers, Reject(c) PROVE CallsInv'
  BY <1>3, CallsKept DEF Reject, B!Reject, B!vars, vars
<1>4. ASSUME NEW c \in Callers, CallCancelled(c) PROVE CallsInv'
  BY <1>4, CallsStep, LeaseTakes DEF CallCancelled, EndsWith
<1>5. CASE BreakerTick \/ UNCHANGED clientCallVars
  BY <1>5, CallsKept DEF BreakerTick, vars, clientCallVars
<1>6. QED
  BY <1>1, <1>2, <1>3, <1>4, <1>5, ProceedCalls, PoolTaskCalls DEF ClientNext

\* A call is running for the breaker exactly while its caller is in the pool, and
\* whoever closes a client after the operation has a result to report: no way
\* through or out of the lease loses the end of a call or reports it twice.
THEOREM CallsMatchLeases == ClientSpec => []CallsInv
  BY CallsInit, ClientStepCalls, PTL DEF ClientSpec

-----------------------------------------------------------------------------
(* What holds of the parts holds in the composition *)

LEMMA ClientStepIsPool == [ClientNext]_clientCallVars => [Next]_vars
<1> SUFFICES ASSUME [ClientNext]_clientCallVars PROVE [Next]_vars
  OBVIOUS
<1>1. ASSUME NEW c \in Callers, Start(c) \/ StartRefused(c) PROVE Next
  BY <1>1 DEF Start, StartRefused, Next, Acquire
<1>2. ASSUME NEW c \in Callers, Proceed(c) PROVE Next
  <2>1. Continue(c)
    BY <1>2
    DEF Proceed, Resume, Advance, FactoryEnds, OperationSucceeds, OperationFails,
        FinishClose, Continue, Acquire, Release
  <2>2. QED
    BY <2>1 DEF Next
<1>3. ASSUME NEW c \in Callers, Reject(c) PROVE UNCHANGED vars
  BY <1>3 DEF Reject
<1>4. ASSUME NEW c \in Callers, CallCancelled(c) PROVE Next
  BY <1>4 DEF CallCancelled, Next
<1>5. CASE PoolTask
  BY <1>5 DEF PoolTask, Next
<1>6. CASE BreakerTick \/ UNCHANGED clientCallVars
  BY <1>6 DEF BreakerTick, clientCallVars
<1>7. QED
  BY <1>1, <1>2, <1>3, <1>4, <1>5, <1>6 DEF ClientNext

\* The breaker in front only keeps callers away: what the pool does in the
\* composition the pool alone can do, so that every invariant of the pool holds of it.
THEOREM ClientImplementsPool == ClientSpec => Spec
<1>1. ClientInit => Init
  BY DEF ClientInit
<1>2. QED
  BY <1>1, ClientStepIsPool, PTL DEF ClientSpec, Spec

\* In the composition a step is one of the breaker's for some caller or the joined
\* admission and refusal of StartRefused, which leaves the calls alone.
RefusedAtOnce ==
    /\ \/ circuit = "closed" /\ B!RecordFailure
       \/ ~B!Rejects /\ circuit # "closed" /\ B!Open /\ UNCHANGED failures
    /\ UNCHANGED call

LEMMA ClientStepIsBreaker ==
  ASSUME CallsInv, [ClientNext]_clientCallVars
  PROVE  [B!Next]_(B!vars) \/ RefusedAtOnce
<1>1. ASSUME NEW c \in Callers, Start(c) PROVE B!Next
  BY <1>1 DEF Start, B!Next
<1>2. ASSUME NEW c \in Callers, StartRefused(c) PROVE RefusedAtOnce
  BY <1>2 DEF StartRefused, RefusedAtOnce
<1>3. ASSUME NEW c \in Callers, NEW v, EndsWith(c, v), pc[c] # "out" PROVE B!Next
  <2>1. call[c] # "none" /\ call' = [call EXCEPT ![c] = "none"]
    BY <1>3 DEF CallsInv, EndsWith, CallEnds
  <2>2. CASE v = "success"
    BY <1>3, <2>1, <2>2 DEF EndsWith, Record, B!Succeed, B!Next
  <2>3. CASE v = "failure"
    BY <1>3, <2>1, <2>3 DEF EndsWith, Record, B!Fail, B!Next
  <2>4. CASE v = "cancelled"
    <3>1. B!Cancel(c)
      BY <1>3, <2>1, <2>4 DEF EndsWith, Record, B!Cancel, breakerVars, B!breakerVars
    <3>2. QED
      BY <3>1 DEF B!Next
  <2>5. QED
    BY <1>3, <2>2, <2>3, <2>4 DEF EndsWith, Record
<1>4. ASSUME UNCHANGED <<breakerVars, call>> PROVE UNCHANGED B!vars
  BY <1>4 DEF breakerVars, B!vars
<1>5. ASSUME NEW c \in Callers, Proceed(c) PROVE [B!Next]_(B!vars)
  <2>1. CASE Resume(c)
    BY <1>3, <1>4, <2>1 DEF Resume
  <2>2. CASE Advance(c)
    BY <1>4, <2>2 DEF Advance
  <2>3. CASE FactoryEnds(c)
    BY <1>3, <2>3 DEF FactoryEnds, BuildFails
  <2>4. CASE OperationSucceeds(c)
    BY <1>3, <1>4, <2>4 DEF OperationSucceeds, GiveBack
  <2>5. CASE OperationFails(c)
    BY <1>4, <2>5 DEF OperationFails
  <2>6. CASE FinishClose(c)
    BY <1>3, <2>6 DEF FinishClose, CloseClient
  <2>7. QED
    BY <1>5, <2>1, <2>2, <2>3, <2>4, <2>5, <2>6 DEF Proceed
<1>6. ASSUME NEW c \in Callers, Reject(c) PROVE UNCHANGED B!vars
  BY <1>6 DEF Reject, B!Reject
<1>7. ASSUME NEW c \in Callers, CallCancelled(c) PROVE B!Next
  BY <1>3, <1>7 DEF CallCancelled, Cancel, CancelWait, CancelRetire, CancelClose
<1>8. CASE PoolTask
  BY <1>4, <1>8 DEF PoolTask
<1>9. CASE BreakerTick
  BY <1>9 DEF BreakerTick, B!Tick, B!Next
<1>10. CASE UNCHANGED clientCallVars
  BY <1>4, <1>10 DEF clientCallVars
<1>11. QED
  BY <1>1, <1>2, <1>5, <1>6, <1>7, <1>8, <1>9, <1>10 DEF ClientNext


-----------------------------------------------------------------------------
(* The breaker's invariant, by the lemmas of CircuitBreaker_proofs *)

P == INSTANCE CircuitBreaker_proofs

LEMMA SameBreaker ==
  /\ B!Init <=> P!Init
  /\ [B!Next]_(B!vars) <=> [P!Next]_(P!vars)
  /\ RefusedAtOnce => P!FailedAtOnce
  /\ B!ProbeFlagCurrent <=> P!ProbeFlagCurrent
  /\ B!ClosedBelowThreshold <=> P!ClosedBelowThreshold
  /\ B!ProbeFlagOwned <=> P!ProbeFlagOwned
  /\ B!ProbeFlagOwned' <=> P!ProbeFlagOwned'
  /\ B!ProbeCancelled <=> P!ProbeCancelled
  /\ P!ConfigAssumption
  BY ClientAssumption
  DEF B!Init, B!BreakerInit, B!Next, B!vars, B!breakerVars, B!Tick, B!ClockTick, B!Begin,
      B!AdmitNormal, B!AdmitProbe, B!Recovered, B!Reject, B!Rejects, B!Succeed, B!Fail,
      B!Cancel, B!RecordSuccess, B!RecordFailure, B!Open, B!Close, RefusedAtOnce,
      B!ProbeFlagCurrent, B!ClosedBelowThreshold, B!ProbeFlagOwned, B!ProbeCancelled,
      B!ConfigAssumption,
      P!Init, P!BreakerInit, P!Next, P!vars, P!breakerVars, P!Tick, P!ClockTick, P!Begin,
      P!AdmitNormal, P!AdmitProbe, P!Recovered, P!Reject, P!Rejects, P!Succeed, P!Fail,
      P!Cancel, P!RecordSuccess, P!RecordFailure, P!Open, P!Close, P!FailedAtOnce,
      P!ProbeFlagCurrent, P!ClosedBelowThreshold, P!ProbeFlagOwned, P!ProbeCancelled,
      P!ConfigAssumption

LEMMA ClientBreakerInv == ClientSpec => []P!IInv
<1>1. ClientInit => P!IInv
  BY P!InitIInv, SameBreaker DEF ClientInit
<1>2. P!IInv /\ CallsInv /\ [ClientNext]_clientCallVars => P!IInv'
  BY P!StepIInv, P!FailedAtOnceIInv, SameBreaker, ClientStepIsBreaker
<1>3. QED
  BY <1>1, <1>2, CallsMatchLeases, PTL DEF ClientSpec

LEMMA ClientOwnedStep ==
  ASSUME P!IInv, CallsInv, [ClientNext]_clientCallVars, B!ProbeFlagOwned, ~B!ProbeCancelled
  PROVE  B!ProbeFlagOwned'
<1>1. CASE [B!Next]_(B!vars)
  BY <1>1, P!OwnedStep, SameBreaker
<1>2. CASE RefusedAtOnce
  BY <1>2, P!FailedAtOnceOwned, SameBreaker
<1>3. QED
  BY <1>1, <1>2, ClientStepIsBreaker

\* The breaker's flag is as current behind a pool that refuses, waits and closes:
\* a refusal that is recorded in the step of the admission included.
THEOREM ClientProbeFlagIsCurrent == ClientSpec => [](B!ProbeFlagCurrent /\ B!ClosedBelowThreshold)
<1>1. P!IInv => B!ProbeFlagCurrent /\ B!ClosedBelowThreshold
  BY SameBreaker DEF P!IInv
<1>2. QED
  BY <1>1, ClientBreakerInv, PTL

\* In the composition too only the cancellation of a probe leaves its flag behind: a
\* probe that waits for a slot, fails to build a client or is refused by a closing
\* pool takes it down.
THEOREM ClientOrphansByCancelOnly == ClientSpec => B!OnlyCancelOrphansProbe
<1>1. P!IInv /\ CallsInv /\ [ClientNext]_clientCallVars =>
        [B!ProbeFlagOwned => B!ProbeFlagOwned' \/ B!ProbeCancelled]_(B!vars)
  BY ClientOwnedStep
<1>2. QED
  BY <1>1, ClientBreakerInv, CallsMatchLeases, PTL DEF ClientSpec, B!OnlyCancelOrphansProbe

NothingEaten == \A g \in Objects : eaten[g] = 0

\* Without cancellations the pool neither loses a slot nor eats a notification.
LEMMA NothingLeftBehind ==
  ASSUME Cancellable = {}, TypeOK, NoSlotLost, NothingEaten, [Next]_vars
  PROVE  NoSlotLost' /\ NothingEaten'
<1>1. ASSUME UNCHANGED <<lost, eaten>> PROVE NoSlotLost' /\ NothingEaten'
  BY <1>1 DEF NoSlotLost, NothingEaten
<1>2. ASSUME NEW c \in Callers, Acquire(c) PROVE NoSlotLost' /\ NothingEaten'
  <2>1. PICK g \in Objects : Refuse(c, g) \/ Reuse(c, g) \/ Claim(c, g) \/ Wait(c, g)
    BY <1>2 DEF Acquire
  <2>2. CASE Wait(c, g)
    BY <2>2 DEF Wait, NoSlotLost, NothingEaten, TypeOK
  <2>3. CASE Refuse(c, g) \/ Reuse(c, g) \/ Claim(c, g)
    BY <1>1, <2>3 DEF Refuse, Reuse, Claim, Grant
  <2>4. QED
    BY <2>1, <2>2, <2>3
<1>3. ASSUME NEW c \in Callers, Continue(c) PROVE NoSlotLost' /\ NothingEaten'
  BY <1>1, <1>2, <1>3
  DEF Continue, Retire, Build, BuildFails, Release, GiveBack, Discard, CloseClient
<1>4. ASSUME NEW c \in Callers PROVE ~Cancel(c)
  BY DEF Cancel, CancelWait, CancelRetire, CancelClose
<1>5. CASE CloseKey \/ CloseIdle \/ CancelCloseIdle \/ Tick \/ UNCHANGED vars
  BY <1>1, <1>5 DEF CloseKey, CloseIdle, CancelCloseIdle, Tick, vars
<1>6. QED
  BY <1>2, <1>3, <1>4, <1>5 DEF Next

\* Where no task is cancelled, the exceptions that RejectionEnds makes never come
\* true: a rejecting breaker has a probe on its way, every slot is accounted for,
\* and nobody sleeps beside something free that no woken caller is on its way to.
THEOREM RejectionHasAProbe ==
  ASSUME Cancellable = {}
  PROVE  ClientSpec => [](B!ProbeFlagOwned /\ NoSlotLost /\ EveryFreedSlotWakes)
<1>1. ClientInit => B!ProbeFlagOwned /\ NoSlotLost /\ NothingEaten
  BY DEF ClientInit, Init, B!Init, B!BreakerInit, B!ProbeFlagOwned, NoSlotLost, NothingEaten
<1>2. P!IInv /\ CallsInv /\ B!ProbeFlagOwned /\ [ClientNext]_clientCallVars
        => B!ProbeFlagOwned'
  BY ClientOwnedStep DEF B!ProbeCancelled
<1>3. TypeOK /\ NoSlotLost /\ NothingEaten /\ [ClientNext]_clientCallVars
        => NoSlotLost' /\ NothingEaten'
  BY ClientStepIsPool, NothingLeftBehind
<1>4. TypeOK /\ NothingEaten /\ NoLostWakeup => EveryFreedSlotWakes
  <2> SUFFICES ASSUME NothingEaten, NoLostWakeup, NEW g \in Objects, Waiting(g) # {}
               PROVE  Free(g) <= Cardinality(Woken(g))
    BY DEF EveryFreedSlotWakes
  <2>1. eaten[g] = 0 /\ Cardinality(Woken(g)) \in Nat
    BY FiniteWaiters DEF NothingEaten
  <2>2. Free(g) <= Cardinality(Woken(g)) + eaten[g]
    BY DEF NoLostWakeup
  <2>3. QED
    BY <2>1, <2>2
<1>5. ClientSpec => []TypeOK /\ []NoLostWakeup
  BY ClientImplementsPool, TypeCorrect, WakeupsAreKept, PTL
<1>6. QED
  BY <1>1, <1>2, <1>3, <1>4, <1>5, ClientBreakerInv, CallsMatchLeases, PTL DEF ClientSpec

=============================================================================
