---------------------- MODULE ClientRegistration_proofs ----------------------
(***************************************************************************)
(* Theorems about ClientRegistration, for any users and any number of      *)
(* attempts to connect.                                                    *)
(***************************************************************************)
EXTENDS ClientRegistration, TLAPS

InExchange(f) == flow[f].at \in {"exchanging", "granted", "refused"}

\* A client that a flow registered is in use only after that flow registered it.
Known(c) == c \in Flows => flow[c].at \notin {"new", "registering"}

\* Who holds the lock has deleted a tombstone and is registering.
LockHeld == lock # None => reg.mech = "cimd_rejected" /\ flow[lock].at = "registering"

RegistrationShape ==
    /\ reg.mech = "none" <=> reg.client = None
    /\ reg.mech = "cimd" => reg.client = Cimd

FlowShape ==
    \A f \in Flows : InExchange(f) =>
        flow[f].client # None /\ (flow[f].mech = "cimd" => flow[f].client = Cimd)

ClientsKnown ==
    /\ Known(reg.client)
    /\ \A f \in Flows : InExchange(f) => Known(flow[f].client)
    /\ \A u \in Users : refresh[u] # None => Known(refresh[u].client)

RefusalsStand ==
    /\ \A f \in Flows : flow[f].at = "refused" => flow[f].client \notin accepted
    /\ \A u \in Users : refresh[u] # None /\ refresh[u].at = "refused" =>
                            refresh[u].client \notin accepted

\* A row is identified by a flow that is over, so that no later row is taken for it.
RowsOfThePast ==
    /\ \A u \in Users : tokens[u] # None => flow[tokens[u].row].at = "done"
    /\ \A u \in Users : refresh[u] # None => flow[refresh[u].row].at = "done"

Control == /\ LockHeld /\ RegistrationShape /\ FlowShape
           /\ ClientsKnown /\ RefusalsStand /\ RowsOfThePast

\* The refresh of the row that the user has now.
SameRow(u) == refresh[u] # None /\ tokens[u] # None /\ tokens[u].row = refresh[u].row

\* Under a tombstone our refused document is all there is, and what is granted or
\* stored dates from before.
UnderTombstone ==
    reg.mech = "cimd_rejected" =>
        /\ reg.client = Cimd /\ Cimd \notin accepted
        /\ \A f \in Flows : flow[f].at = "granted" => f \in overtaken
        /\ \A u \in Users : tokens[u] # None => tokens[u].by \in overtaken
        /\ \A u \in Users : SameRow(u) => refresh[u].at # "granted"

\* What was asked under a tombstone is about our document, and is not granted.
ExchangesCurrent ==
    \A f \in Flows : flow[f].at \in {"exchanging", "granted"} =>
        \/ flow[f].client = reg.client
        \/ f \in overtaken
        \/ flow[f].at = "exchanging" /\ flow[f].client = Cimd /\ Cimd \notin accepted

RefreshesCurrent ==
    \A u \in Users : SameRow(u) /\ refresh[u].at \in {"asking", "granted"} =>
        \/ refresh[u].client = reg.client
        \/ refresh[u].at = "asking" /\ refresh[u].client = Cimd /\ Cimd \notin accepted

TokensCurrent ==
    \A u \in Users : tokens[u] # None =>
        tokens[u].client = reg.client \/ tokens[u].by \in overtaken

Current == ~misplaced =>
    UnderTombstone /\ ExchangesCurrent /\ RefreshesCurrent /\ TokensCurrent

IInv == TypeOK /\ Control /\ Current

-----------------------------------------------------------------------------
LEMMA InitIInv == Init => IInv
<1> SUFFICES ASSUME Init PROVE IInv
  OBVIOUS
<1> USE RegistrationAssumption
    DEF RegistrationAssumption, Init, NewFlow, NoReg
<1>1. TypeOK
  BY DEF TypeOK, Registration, Flow, Clients
<1>2. Control
  BY DEF Control, LockHeld, RegistrationShape, FlowShape, ClientsKnown, RefusalsStand,
         RowsOfThePast, InExchange, Known
<1>3. Current
  BY DEF Current, UnderTombstone, ExchangesCurrent, RefreshesCurrent, TokensCurrent, SameRow
<1>4. QED
  BY <1>1, <1>2, <1>3 DEF IInv

\* A step that only lets the event loop wait changes nothing the invariant is about.
LEMMA BlockedStep == IInv /\ Blocks => IInv'
  BY DEF Blocks, IInv, TypeOK, Control, LockHeld, RegistrationShape, FlowShape, ClientsKnown,
         RefusalsStand, RowsOfThePast, InExchange, Known, Current, UnderTombstone,
         ExchangesCurrent, RefreshesCurrent, TokensCurrent, SameRow, gateway, history

-----------------------------------------------------------------------------
(* initiate *)

LEMMA InitiateStep ==
  ASSUME IInv, NEW f \in Flows, Initiate(f), ~Blocks
  PROVE  IInv'
<1> USE RegistrationAssumption DEF RegistrationAssumption
<1> DEFINE code == IF reg.mech \in {"dcr", "cimd"} THEN reg.client
                   ELSE IF reg.mech = "none" THEN Cimd ELSE None
           at == IF reg.mech \in {"dcr", "cimd"} THEN "consent" ELSE "registering"
           next == [flow[f] EXCEPT !.at = at, !.code = code]
<1>1. /\ flow[f].at = "new"
      /\ flow' = [flow EXCEPT ![f] = next]
      /\ UNCHANGED <<reg, accepted, tokens, refresh, stuck, overtaken, misplaced>>
  BY DEF Initiate, InitiateStored, InitiateFirst, InitiateRejected, Consents, Registers, At,
         IInv, TypeOK, Flow, gateway, history
<1>2. lock' = lock \/ (lock = None /\ lock' = f /\ reg.mech = "cimd_rejected")
  BY DEF Initiate, InitiateStored, InitiateFirst, InitiateRejected, gateway
<1>3. next \in Flow /\ next.at = at
  <2>1. code \in Clients \cup {None} /\ at \in {"consent", "registering"}
    BY DEF IInv, TypeOK, Registration, Clients
  <2>2. flow[f] \in Flow
    BY DEF IInv, TypeOK
  <2> HIDE DEF code, at
  <2>3. QED
    BY <2>1, <2>2 DEF Flow
<1>4. TypeOK'
  BY <1>1, <1>2, <1>3 DEF IInv, TypeOK
<1>5. /\ flow'[f].at \in {"consent", "registering"}
      /\ reg.mech = "cimd_rejected" => flow'[f].at = "registering"
      /\ \A g \in Flows \ {f} : flow'[g] = flow[g]
  BY <1>1, <1>3 DEF IInv, TypeOK, Flow, Registration
<1>6. Control'
  BY <1>1, <1>2, <1>5
  DEF IInv, TypeOK, Control, LockHeld, RegistrationShape, FlowShape, ClientsKnown,
      RefusalsStand, RowsOfThePast, InExchange, Known, Token, Refresh
<1>7. Current'
  BY <1>1, <1>5
  DEF IInv, Current, UnderTombstone, ExchangesCurrent, RefreshesCurrent, TokensCurrent, SameRow
<1>8. QED
  BY <1>4, <1>6, <1>7 DEF IInv

-----------------------------------------------------------------------------
(* registration *)

\* A flow that goes from registering to somewhere where it has no client yet.
LEMMA FlowMoves ==
  ASSUME IInv, NEW f \in Flows, NEW next \in Flow, flow' = [flow EXCEPT ![f] = next]
  PROVE  /\ flow' \in [Flows -> Flow]
         /\ flow'[f] = next
         /\ \A g \in Flows \ {f} : flow'[g] = flow[g]
  BY DEF IInv, TypeOK

LEMMA EndedTyped == [NewFlow EXCEPT !.at = "done"] \in Flow
                    /\ [NewFlow EXCEPT !.at = "done"].at = "done"
  BY DEF NewFlow, Flow

LEMMA RegistrationFailsStep ==
  ASSUME IInv, NEW f \in Flows, RegistrationFails(f)
  PROVE  IInv'
<1>1. /\ flow[f].at = "registering" /\ flow'[f].at = "done"
      /\ flow' \in [Flows -> Flow]
      /\ \A g \in Flows \ {f} : flow'[g] = flow[g]
      /\ UNCHANGED <<reg, accepted, tokens, refresh, stuck, overtaken, misplaced>>
      /\ lock' = IF lock = f THEN None ELSE lock
  BY FlowMoves, EndedTyped DEF RegistrationFails, Ends, At, Unlock, history
<1>2. TypeOK'
  BY <1>1 DEF IInv, TypeOK
<1>3. Control'
  BY <1>1
  DEF IInv, TypeOK, Control, LockHeld, RegistrationShape, FlowShape, ClientsKnown,
      RefusalsStand, RowsOfThePast, InExchange, Known, Token, Refresh
<1>4. Current'
  BY <1>1
  DEF IInv, Current, UnderTombstone, ExchangesCurrent, RefreshesCurrent, TokensCurrent, SameRow
<1>5. QED
  BY <1>2, <1>3, <1>4 DEF IInv

LEMMA RegisteredStep ==
  ASSUME IInv, NEW f \in Flows, NEW mech \in {"dcr", "cimd"}, Registered(f, mech), ~Blocks
  PROVE  IInv'
<1> USE RegistrationAssumption DEF RegistrationAssumption
<1> DEFINE c == IF mech = "cimd" THEN Cimd ELSE f
           inserts == lock = f \/ reg.mech = "none"
<1>0. c \in Clients /\ c # None
  BY DEF Clients
<1>1. /\ flow[f].at = "registering" /\ lock \in {None, f} /\ lock' = None
      /\ accepted' = IF mech = "dcr" THEN accepted \cup {f} ELSE accepted
      /\ UNCHANGED <<tokens, refresh, stuck, overtaken, misplaced>>
      /\ inserts => reg' = [mech |-> mech, client |-> c] /\ Consents(f, c)
      /\ ~inserts => reg' = reg /\ Ends(f)
  BY DEF Registered, At, Unlock, history
<1>2. /\ flow' \in [Flows -> Flow]
      /\ flow'[f].at \in {"consent", "done"}
      /\ \A g \in Flows \ {f} : flow'[g] = flow[g]
  <2>1. CASE inserts
    <3> DEFINE next == [flow[f] EXCEPT !.at = "consent", !.code = c]
    <3>1. flow[f] \in Flow
      BY DEF IInv, TypeOK
    <3>2. next \in Flow /\ next.at = "consent"
      <4> HIDE DEF c
      <4> QED BY <1>0, <3>1 DEF Flow
    <3>3. flow' = [flow EXCEPT ![f] = next]
      BY <1>1, <2>1, <3>1 DEF IInv, TypeOK, Consents, Flow
    <3>4. QED
      BY <3>2, <3>3, FlowMoves
  <2>2. CASE ~inserts
    BY <1>1, <2>2, FlowMoves, EndedTyped DEF Ends
  <2>3. QED
    BY <2>1, <2>2
<1>3. TypeOK'
  <2>1. reg' \in Registration
    BY <1>0, <1>1 DEF IInv, TypeOK, Registration
  <2>2. accepted' \subseteq Clients
    BY <1>1 DEF IInv, TypeOK, Clients
  <2>3. QED
    BY <1>1, <1>2, <2>1, <2>2 DEF IInv, TypeOK
<1>4. \A d : d \in accepted' => d \in accepted \/ d = f
  BY <1>1
<1>5. /\ reg'.mech = "none" <=> reg'.client = None
      /\ reg'.mech = "cimd" => reg'.client = Cimd
      /\ reg'.client \in Flows => flow'[reg'.client].at \notin {"new", "registering"}
  BY <1>0, <1>1, <1>2
  DEF IInv, Control, RegistrationShape, ClientsKnown, Known
<1>6. Control'
  BY <1>1, <1>2, <1>4, <1>5
  DEF IInv, TypeOK, Control, LockHeld, RegistrationShape, FlowShape, ClientsKnown,
      RefusalsStand, RowsOfThePast, InExchange, Known, Token, Refresh
<1>7. Current'
  <2> SUFFICES ASSUME ~misplaced
               PROVE  /\ UnderTombstone' /\ ExchangesCurrent'
                      /\ RefreshesCurrent' /\ TokensCurrent'
    BY <1>1 DEF Current
  <2>1. UnderTombstone /\ ExchangesCurrent /\ RefreshesCurrent /\ TokensCurrent
    BY DEF IInv, Current
  <2>2. Cimd \notin accepted => Cimd \notin accepted'
    BY <1>1
  <2>3. CASE ~inserts
    BY <1>1, <1>2, <2>1, <2>2, <2>3, <1>4
    DEF UnderTombstone, ExchangesCurrent, RefreshesCurrent, TokensCurrent, SameRow
  <2>4. CASE inserts
    <3>1. reg.mech = "none" => reg.client = None
      BY DEF IInv, Control, RegistrationShape
    <3>2. reg.mech \in {"none", "cimd_rejected"} /\ reg'.mech # "cimd_rejected"
      BY <1>1, <2>4 DEF IInv, TypeOK, Control, LockHeld
    <3>3. UnderTombstone'
      BY <3>2 DEF UnderTombstone
    <3>4. ExchangesCurrent'
      BY <1>1, <1>2, <2>1, <2>2, <3>1, <3>2
      DEF ExchangesCurrent, UnderTombstone, IInv, Control, FlowShape, InExchange
    <3>5. RefreshesCurrent'
      BY <1>1, <2>1, <2>2, <3>1, <3>2
      DEF RefreshesCurrent, UnderTombstone, SameRow, IInv, TypeOK, Refresh, Clients
    <3>6. TokensCurrent'
      BY <1>1, <2>1, <3>1, <3>2
      DEF TokensCurrent, UnderTombstone, IInv, TypeOK, Token, Clients
    <3>7. QED
      BY <3>3, <3>4, <3>5, <3>6
  <2>5. QED
    BY <2>3, <2>4
<1>8. QED
  BY <1>3, <1>6, <1>7 DEF IInv

-----------------------------------------------------------------------------
(* callback *)

LEMMA CallbackStep ==
  ASSUME IInv, NEW f \in Flows, Callback(f)
  PROVE  IInv'
<1> USE RegistrationAssumption DEF RegistrationAssumption
<1>1. /\ flow[f].at = "consent"
      /\ UNCHANGED <<reg, lock, tokens, refresh, accepted, stuck, overtaken, misplaced>>
  BY DEF Callback, At, gateway, history
<1>2. /\ flow' \in [Flows -> Flow]
      /\ \/ flow'[f].at = "done"
         \/ /\ flow'[f].at = "exchanging" /\ reg.mech # "none"
            /\ flow'[f].client = reg.client /\ flow'[f].mech = reg.mech
      /\ \A g \in Flows \ {f} : flow'[g] = flow[g]
  <2>1. CASE reg.mech = "none"
    BY <2>1, FlowMoves, EndedTyped DEF Callback, Ends
  <2>2. CASE reg.mech # "none"
    <3> DEFINE next == [flow[f] EXCEPT !.at = "exchanging", !.client = reg.client,
                                       !.mech = reg.mech]
    <3>0. flow[f] \in Flow /\ reg.client \in Clients \cup {None}
          /\ reg.mech \in {"none", "dcr", "cimd", "cimd_rejected"}
      BY DEF IInv, TypeOK, Registration
    <3>1. next \in Flow /\ next.at = "exchanging" /\ next.client = reg.client
          /\ next.mech = reg.mech
      BY <3>0 DEF Flow
    <3>2. flow' = [flow EXCEPT ![f] = next]
      BY <2>2 DEF IInv, TypeOK, Callback, Flow
    <3> HIDE DEF next
    <3>3. QED
      BY <2>2, <3>1, <3>2, FlowMoves
  <2>3. QED
    BY <2>1, <2>2
<1>3. TypeOK'
  BY <1>1, <1>2 DEF IInv, TypeOK
<1>4. Control'
  <2>1. LockHeld'
    BY <1>1, <1>2 DEF IInv, TypeOK, Control, LockHeld
  <2>2. RegistrationShape'
    BY <1>1, <1>2 DEF IInv, Control, RegistrationShape
  <2>3. FlowShape'
    BY <1>1, <1>2 DEF IInv, Control, FlowShape, InExchange, RegistrationShape
  <2>4. ClientsKnown'
    BY <1>1, <1>2 DEF IInv, Control, ClientsKnown, Known, InExchange, TypeOK, Refresh, RegistrationShape
  <2>5. RefusalsStand'
    BY <1>1, <1>2 DEF IInv, Control, RefusalsStand
  <2>6. RowsOfThePast'
    BY <1>1, <1>2 DEF IInv, Control, RowsOfThePast, TypeOK, Token, Refresh
  <2>7. QED
    BY <2>1, <2>2, <2>3, <2>4, <2>5, <2>6 DEF Control
<1>5. Current'
  BY <1>1, <1>2
  DEF IInv, Current, UnderTombstone, ExchangesCurrent, RefreshesCurrent, TokensCurrent, SameRow
<1>6. QED
  BY <1>3, <1>4, <1>5 DEF IInv

LEMMA AnswerExchangeStep ==
  ASSUME IInv, NEW f \in Flows, AnswerExchange(f)
  PROVE  IInv'
<1> USE RegistrationAssumption DEF RegistrationAssumption
<1>1. /\ flow[f].at = "exchanging"
      /\ UNCHANGED <<reg, lock, tokens, refresh, accepted, stuck, overtaken, misplaced>>
  BY DEF AnswerExchange, At, gateway, history
<1>2. /\ flow' \in [Flows -> Flow]
      /\ \/ flow'[f].at = "done"
         \/ /\ \/ flow'[f].at = "granted" /\ flow[f].client \in accepted
               \/ flow'[f].at = "refused" /\ flow[f].client \notin accepted
            /\ flow'[f].client = flow[f].client /\ flow'[f].mech = flow[f].mech
      /\ \A g \in Flows \ {f} : flow'[g] = flow[g]
  <2>1. CASE Ends(f)
    BY <2>1, FlowMoves, EndedTyped DEF Ends
  <2>2. CASE flow[f].client \in accepted /\ flow' = [flow EXCEPT ![f].at = "granted"]
    BY <2>2 DEF IInv, TypeOK, Flow
  <2>3. CASE flow[f].client \notin accepted /\ flow' = [flow EXCEPT ![f].at = "refused"]
    BY <2>3 DEF IInv, TypeOK, Flow
  <2>4. QED
    BY <2>1, <2>2, <2>3 DEF AnswerExchange
<1>3. TypeOK'
  BY <1>1, <1>2 DEF IInv, TypeOK
<1>4. Control'
  BY <1>1, <1>2
  DEF IInv, TypeOK, Control, LockHeld, RegistrationShape, FlowShape, ClientsKnown,
      RefusalsStand, RowsOfThePast, InExchange, Known, Token, Refresh
<1>5. Current'
  BY <1>1, <1>2
  DEF IInv, Current, UnderTombstone, ExchangesCurrent, RefreshesCurrent, TokensCurrent, SameRow
<1>6. QED
  BY <1>3, <1>4, <1>5 DEF IInv

LEMMA ConnectStep ==
  ASSUME IInv, NEW f \in Flows, Connect(f)
  PROVE  IInv'
<1> USE RegistrationAssumption DEF RegistrationAssumption
<1> DEFINE u == UserOf[f]
           token == [client |-> flow[f].client, by |-> f,
                     row |-> IF tokens[u] = None THEN f ELSE tokens[u].row]
<1>1. /\ flow[f].at = "granted"
      /\ tokens' = [tokens EXCEPT ![u] = token]
      /\ UNCHANGED <<reg, lock, refresh, accepted, stuck, overtaken, misplaced>>
  BY DEF Connect, At, history
<1>2. /\ flow' \in [Flows -> Flow] /\ flow'[f].at = "done"
      /\ \A g \in Flows \ {f} : flow'[g] = flow[g]
  BY FlowMoves, EndedTyped DEF Connect, Ends
<1>3. u \in Users /\ token \in Token
  <2>1. u \in Users
    OBVIOUS
  <2>2. flow[f].client \in Clients
    BY <1>1 DEF IInv, TypeOK, Flow, Control, FlowShape, InExchange
  <2>3. tokens[u] # None => tokens[u].row \in Flows
    BY <2>1 DEF IInv, TypeOK, Token
  <2>4. QED
    BY <2>1, <2>2, <2>3 DEF Token
<1>4. /\ tokens'[u] = token
      /\ \A v \in Users \ {u} : tokens'[v] = tokens[v]
  BY <1>1, <1>3 DEF IInv, TypeOK
<1>5. TypeOK'
  BY <1>1, <1>2, <1>3 DEF IInv, TypeOK
<1>6. flow'[token.row].at = "done"
  BY <1>2, <1>3 DEF IInv, TypeOK, Control, RowsOfThePast, Token
<1>7. Control'
  <2>1. LockHeld'
    <3>1. lock # None => lock \in Flows /\ lock # f
      BY <1>1 DEF IInv, TypeOK, Control, LockHeld
    <3>2. QED
      BY <1>1, <1>2, <3>1 DEF IInv, Control, LockHeld
  <2>2. RegistrationShape'
    BY <1>1 DEF IInv, Control, RegistrationShape
  <2>3. FlowShape'
    BY <1>1, <1>2 DEF IInv, Control, FlowShape, InExchange
  <2>4. ClientsKnown'
    BY <1>1, <1>2, <1>3, <1>4, <1>6 DEF IInv, Control, ClientsKnown, Known, InExchange, TypeOK, Refresh, RegistrationShape
  <2>5. RefusalsStand'
    BY <1>1, <1>2, <1>3, <1>4, <1>6 DEF IInv, Control, RefusalsStand
  <2>6. RowsOfThePast'
    BY <1>1, <1>2, <1>3, <1>4, <1>6 DEF IInv, Control, RowsOfThePast, TypeOK, Token, Refresh
  <2>7. QED
    BY <2>1, <2>2, <2>3, <2>4, <2>5, <2>6 DEF Control
<1>8. SameRow(u)' => SameRow(u)
  BY <1>1, <1>3, <1>4 DEF IInv, Control, RowsOfThePast, SameRow
<1>9. Current'
  <2> SUFFICES ASSUME ~misplaced
               PROVE  /\ UnderTombstone' /\ ExchangesCurrent'
                      /\ RefreshesCurrent' /\ TokensCurrent'
    BY <1>1 DEF Current
  <2>1. UnderTombstone /\ ExchangesCurrent /\ RefreshesCurrent /\ TokensCurrent
    BY DEF IInv, Current
  <2>2. UnderTombstone'
    <3>1. \A v \in Users : SameRow(v)' => SameRow(v)
      BY <1>1, <1>4, <1>8 DEF SameRow
    <3>2. QED
      BY <1>1, <1>2, <1>4, <2>1, <3>1 DEF UnderTombstone
  <2>3. ExchangesCurrent'
    BY <1>1, <1>2, <2>1 DEF ExchangesCurrent
  <2>4. RefreshesCurrent'
    BY <1>1, <1>4, <1>8, <2>1 DEF RefreshesCurrent, SameRow
  <2>5. TokensCurrent'
    BY <1>1, <1>4, <2>1 DEF TokensCurrent, ExchangesCurrent
  <2>6. QED
    BY <2>2, <2>3, <2>4, <2>5
<1>10. QED
  BY <1>5, <1>7, <1>9 DEF IInv

\* Every token goes and every exchange is marked: what is left of the invariant is
\* the shape of the registration and of the tombstone.
LEMMA AfterDrop ==
  ASSUME IInv, DropTokens, UNCHANGED accepted,
         \A g \in Flows : InExchange(g)' => InExchange(g)
  PROVE  /\ ExchangesCurrent' /\ RefreshesCurrent' /\ TokensCurrent'
         /\ (reg'.mech = "cimd_rejected" => reg'.client = Cimd /\ Cimd \notin accepted)
                => UnderTombstone'
<1>1. /\ \A v \in Users : tokens'[v] = None
      /\ \A g \in Flows : InExchange(g)' => g \in overtaken'
  BY DEF DropTokens, Exchanging, InExchange
<1>2. ExchangesCurrent'
  BY <1>1 DEF ExchangesCurrent, InExchange
<1>3. RefreshesCurrent' /\ TokensCurrent'
  BY <1>1 DEF RefreshesCurrent, TokensCurrent, SameRow
<1>4. ASSUME reg'.mech = "cimd_rejected" => reg'.client = Cimd /\ Cimd \notin accepted
      PROVE  UnderTombstone'
  BY <1>1, <1>4 DEF UnderTombstone, SameRow, InExchange
<1>5. QED
  BY <1>2, <1>3, <1>4

LEMMA ConnectRefusedStep ==
  ASSUME IInv, NEW f \in Flows, ConnectRefused(f), ~Blocks
  PROVE  IInv'
<1> USE RegistrationAssumption DEF RegistrationAssumption
<1>1. /\ flow[f].at = "refused" /\ lock = None
      /\ DropTokens
      /\ UNCHANGED <<lock, refresh, accepted, stuck>>
      /\ misplaced' = (misplaced \/ (flow[f].mech = "cimd" /\ reg.mech = "dcr"))
  BY DEF ConnectRefused, At
<1>2. /\ flow' \in [Flows -> Flow] /\ flow'[f].at = "done"
      /\ \A g \in Flows \ {f} : flow'[g] = flow[g]
  BY <1>1, FlowMoves, EndedTyped DEF ConnectRefused, Ends
<1>3. \/ reg' = NoReg
      \/ /\ reg'.mech = "cimd_rejected" /\ reg'.client = reg.client /\ reg' \in Registration
         /\ reg.client # None /\ flow[f].mech = "cimd"
  <2>1. reg \in Registration
    BY DEF IInv, TypeOK
  <2>2. reg.client = None => reg = NoReg
    BY <2>1 DEF Registration, NoReg, IInv, Control, RegistrationShape
  <2>3. QED
    BY <1>1, <2>1, <2>2 DEF ConnectRefused, Registration
<1>4. TypeOK'
  <2>1. reg' \in Registration
    BY <1>3 DEF NoReg, Registration
  <2>2. misplaced' \in BOOLEAN
    BY <1>1 DEF IInv, TypeOK
  <2>3. QED
    BY <1>1, <1>2, <2>1, <2>2 DEF IInv, TypeOK, DropTokens, Exchanging
<1>5. /\ \A v \in Users : tokens'[v] = None
      /\ \A g \in Flows : InExchange(g)' => InExchange(g)
  BY <1>1, <1>2 DEF DropTokens, InExchange
<1>6. /\ reg'.mech = "none" <=> reg'.client = None
      /\ reg'.mech = "cimd" => reg'.client = Cimd
      /\ reg'.client \in Flows => flow'[reg'.client].at \notin {"new", "registering"}
  BY <1>2, <1>3 DEF NoReg, IInv, Control, ClientsKnown, Known
<1>7. Control'
  <2>1. LockHeld'
    BY <1>1, <1>2, <1>5, <1>6 DEF IInv, TypeOK, Control, LockHeld
  <2>2. RegistrationShape'
    BY <1>1, <1>2, <1>5, <1>6 DEF IInv, Control, RegistrationShape
  <2>3. FlowShape'
    BY <1>1, <1>2, <1>5, <1>6 DEF IInv, Control, FlowShape, InExchange, RegistrationShape
  <2>4. ClientsKnown'
    BY <1>1, <1>2, <1>5, <1>6 DEF IInv, Control, ClientsKnown, Known, InExchange, TypeOK, Refresh, RegistrationShape
  <2>5. RefusalsStand'
    BY <1>1, <1>2, <1>5, <1>6 DEF IInv, Control, RefusalsStand
  <2>6. RowsOfThePast'
    BY <1>1, <1>2, <1>5, <1>6 DEF IInv, Control, RowsOfThePast, TypeOK, Token, Refresh
  <2>7. QED
    BY <2>1, <2>2, <2>3, <2>4, <2>5, <2>6 DEF Control
<1>8. Current'
  <2> SUFFICES ASSUME ~misplaced'
               PROVE  /\ UnderTombstone' /\ ExchangesCurrent'
                      /\ RefreshesCurrent' /\ TokensCurrent'
    BY DEF Current
  <2>1. ~misplaced /\ ~(flow[f].mech = "cimd" /\ reg.mech = "dcr")
    BY <1>1
  <2>2. UnderTombstone
    BY <2>1 DEF IInv, Current
  <2>3. ASSUME reg'.mech = "cimd_rejected"
        PROVE  reg'.client = Cimd /\ Cimd \notin accepted
    <3>1. reg'.client = reg.client /\ reg.client # None /\ flow[f].mech = "cimd"
      BY <1>3, <2>3 DEF NoReg
    <3>2. Cimd \notin accepted
      BY <1>1, <3>1 DEF IInv, Control, FlowShape, InExchange, RefusalsStand
    <3>3. reg.mech \in {"cimd", "cimd_rejected"}
      BY <2>1, <3>1 DEF IInv, TypeOK, Registration, Control, RegistrationShape
    <3>4. QED
      BY <2>2, <3>1, <3>2, <3>3 DEF UnderTombstone, IInv, Control, RegistrationShape
  <2>4. QED
    BY <1>1, <1>5, <2>3, AfterDrop
<1>9. QED
  BY <1>4, <1>7, <1>8 DEF IInv

-----------------------------------------------------------------------------
(* refresh *)

LEMMA AskRefreshStep ==
  ASSUME IInv, NEW u \in Users, AskRefresh(u)
  PROVE  IInv'
<1> USE RegistrationAssumption DEF RegistrationAssumption
<1> DEFINE asking == [at |-> "asking", client |-> reg.client,
                      of |-> tokens[u].client, row |-> tokens[u].row]
<1>1. /\ refresh[u] = None /\ tokens[u] # None /\ reg.mech # "none"
      /\ refresh' = [refresh EXCEPT ![u] = asking]
      /\ UNCHANGED <<reg, lock, tokens, accepted, flow, stuck, overtaken, misplaced>>
  BY DEF AskRefresh, history
<1>2. asking \in Refresh
  <2>1. tokens[u].client \in Clients /\ tokens[u].row \in Flows
    BY <1>1 DEF IInv, TypeOK, Token
  <2>2. reg.client \in Clients
    BY <1>1 DEF IInv, TypeOK, Registration, Control, RegistrationShape
  <2>3. QED
    BY <2>1, <2>2 DEF Refresh
<1>3. /\ refresh'[u] = asking
      /\ \A v \in Users \ {u} : refresh'[v] = refresh[v]
  BY <1>1 DEF IInv, TypeOK
<1>4. TypeOK'
  BY <1>1, <1>2 DEF IInv, TypeOK
<1>5. Control'
  <2>1. LockHeld' /\ RegistrationShape' /\ FlowShape'
    BY <1>1 DEF IInv, Control, LockHeld, RegistrationShape, FlowShape, InExchange
  <2>2. ClientsKnown'
    BY <1>1, <1>3 DEF IInv, Control, ClientsKnown, Known, InExchange
  <2>3. RefusalsStand'
    BY <1>1, <1>3 DEF IInv, Control, RefusalsStand
  <2>4. RowsOfThePast'
    BY <1>1, <1>3 DEF IInv, Control, RowsOfThePast
  <2>5. QED
    BY <2>1, <2>2, <2>3, <2>4 DEF Control
<1>6. Current'
  BY <1>1, <1>3
  DEF IInv, Current, UnderTombstone, ExchangesCurrent, RefreshesCurrent, TokensCurrent, SameRow
<1>7. QED
  BY <1>4, <1>5, <1>6 DEF IInv

LEMMA AnswerRefreshStep ==
  ASSUME IInv, NEW u \in Users, AnswerRefresh(u)
  PROVE  IInv'
<1> USE RegistrationAssumption DEF RegistrationAssumption
<1>1. /\ refresh[u] # None /\ refresh[u].at = "asking"
      /\ UNCHANGED <<reg, lock, tokens, accepted, flow, stuck, overtaken, misplaced>>
  BY DEF AnswerRefresh, history
<1>2. refresh[u] \in Refresh
  BY <1>1 DEF IInv, TypeOK
<1>3. /\ refresh' \in [Users -> Refresh \cup {None}]
      /\ \/ refresh'[u] = None
         \/ /\ \/ refresh'[u].at = "granted" /\ refresh[u].client \in accepted
               \/ refresh'[u].at = "refused" /\ refresh[u].client \notin accepted
            /\ refresh'[u].client = refresh[u].client /\ refresh'[u].row = refresh[u].row
      /\ \A v \in Users \ {u} : refresh'[v] = refresh[v]
  <2>1. CASE refresh' = [refresh EXCEPT ![u] = None]
    BY <2>1 DEF IInv, TypeOK
  <2>2. CASE /\ refresh[u].client \in accepted
             /\ refresh' = [refresh EXCEPT ![u].at = "granted"]
    BY <1>2, <2>2 DEF IInv, TypeOK, Refresh
  <2>3. CASE /\ refresh[u].client \notin accepted
             /\ refresh' = [refresh EXCEPT ![u].at = "refused"]
    BY <1>2, <2>3 DEF IInv, TypeOK, Refresh
  <2>4. QED
    BY <2>1, <2>2, <2>3 DEF AnswerRefresh
<1>4. TypeOK'
  BY <1>1, <1>3 DEF IInv, TypeOK
<1>5. Control'
  <2>1. LockHeld' /\ RegistrationShape' /\ FlowShape'
    BY <1>1 DEF IInv, Control, LockHeld, RegistrationShape, FlowShape, InExchange
  <2>2. ClientsKnown'
    BY <1>1, <1>3 DEF IInv, Control, ClientsKnown, Known, InExchange
  <2>3. RefusalsStand'
    BY <1>1, <1>3 DEF IInv, Control, RefusalsStand
  <2>4. RowsOfThePast'
    BY <1>1, <1>3 DEF IInv, Control, RowsOfThePast
  <2>5. QED
    BY <2>1, <2>2, <2>3, <2>4 DEF Control
<1>6. Current'
  <2> SUFFICES ASSUME ~misplaced
               PROVE  /\ UnderTombstone' /\ ExchangesCurrent'
                      /\ RefreshesCurrent' /\ TokensCurrent'
    BY <1>1 DEF Current
  <2>1. UnderTombstone /\ ExchangesCurrent /\ RefreshesCurrent /\ TokensCurrent
    BY DEF IInv, Current
  <2>2. /\ \A v \in Users : SameRow(v)' => SameRow(v)
        /\ refresh'[u] # None => refresh'[u].row = refresh[u].row
    BY <1>1, <1>3 DEF SameRow
  \* What is granted now is a client in use, not the refused document.
  <2>3. SameRow(u) /\ refresh'[u] # None /\ refresh'[u].at = "granted"
            => refresh[u].client = reg.client /\ reg.mech # "cimd_rejected"
    BY <1>1, <1>3, <2>1 DEF RefreshesCurrent, UnderTombstone
  <2>4. UnderTombstone'
    BY <1>1, <1>3, <2>1, <2>2, <2>3 DEF UnderTombstone, SameRow
  <2>5. RefreshesCurrent'
    BY <1>1, <1>3, <2>1, <2>2, <2>3 DEF RefreshesCurrent, SameRow
  <2>6. ExchangesCurrent' /\ TokensCurrent'
    BY <1>1, <2>1 DEF ExchangesCurrent, TokensCurrent
  <2>7. QED
    BY <2>4, <2>5, <2>6
<1>7. QED
  BY <1>4, <1>5, <1>6 DEF IInv

LEMMA RefreshedStep ==
  ASSUME IInv, NEW u \in Users, Refreshed(u)
  PROVE  IInv'
<1> USE RegistrationAssumption DEF RegistrationAssumption
<1>1. /\ refresh[u] # None /\ refresh[u].at = "granted"
      /\ refresh' = [refresh EXCEPT ![u] = None]
      /\ UNCHANGED <<reg, lock, accepted, flow, stuck, overtaken, misplaced>>
      /\ ~SameRow(u) => tokens' = tokens
      /\ SameRow(u) => tokens' = [tokens EXCEPT ![u].client = refresh[u].client]
  BY DEF Refreshed, SameRow, history
<1>2. /\ refresh'[u] = None
      /\ \A v \in Users \ {u} : refresh'[v] = refresh[v]
  BY <1>1 DEF IInv, TypeOK
<1>3. /\ tokens' \in [Users -> Token \cup {None}]
      /\ \A v \in Users \ {u} : tokens'[v] = tokens[v]
      /\ \/ tokens'[u] = tokens[u]
         \/ /\ SameRow(u) /\ tokens'[u].client = refresh[u].client
            /\ tokens'[u].row = tokens[u].row /\ tokens'[u].by = tokens[u].by
  <2>1. CASE ~SameRow(u)
    BY <1>1, <2>1 DEF IInv, TypeOK
  <2>2. CASE SameRow(u)
    <3>1. tokens[u] \in Token /\ refresh[u].client \in Clients
      BY <2>2 DEF IInv, TypeOK, SameRow, Refresh
    <3>2. QED
      BY <1>1, <2>2, <3>1 DEF IInv, TypeOK, Token
  <2>3. QED
    BY <2>1, <2>2
<1>4. TypeOK'
  BY <1>1, <1>3 DEF IInv, TypeOK
<1>5. \A v \in Users : tokens'[v] # None =>
          tokens[v] # None /\ tokens'[v].row = tokens[v].row /\ tokens'[v].by = tokens[v].by
  BY <1>3 DEF SameRow
<1>6. Control'
  <2>1. LockHeld' /\ RegistrationShape' /\ FlowShape'
    BY <1>1 DEF IInv, Control, LockHeld, RegistrationShape, FlowShape, InExchange
  <2>2. ClientsKnown'
    BY <1>1, <1>2 DEF IInv, Control, ClientsKnown, Known, InExchange
  <2>3. RefusalsStand'
    BY <1>1, <1>2 DEF IInv, Control, RefusalsStand
  <2>4. RowsOfThePast'
    BY <1>1, <1>2, <1>5 DEF IInv, Control, RowsOfThePast
  <2>5. QED
    BY <2>1, <2>2, <2>3, <2>4 DEF Control
<1>7. Current'
  <2> SUFFICES ASSUME ~misplaced
               PROVE  /\ UnderTombstone' /\ ExchangesCurrent'
                      /\ RefreshesCurrent' /\ TokensCurrent'
    BY <1>1 DEF Current
  <2>1. UnderTombstone /\ ExchangesCurrent /\ RefreshesCurrent /\ TokensCurrent
    BY DEF IInv, Current
  <2>2. \A v \in Users : SameRow(v)' => v # u /\ SameRow(v)
    BY <1>2, <1>5 DEF SameRow
  <2>3. UnderTombstone'
    BY <1>1, <1>2, <1>5, <2>1, <2>2 DEF UnderTombstone
  <2>4. ExchangesCurrent'
    BY <1>1, <2>1 DEF ExchangesCurrent
  <2>5. RefreshesCurrent'
    BY <1>1, <1>2, <2>1, <2>2 DEF RefreshesCurrent
  <2>6. TokensCurrent'
    BY <1>1, <1>3, <1>5, <2>1 DEF TokensCurrent, RefreshesCurrent
  <2>7. QED
    BY <2>3, <2>4, <2>5, <2>6
<1>8. QED
  BY <1>4, <1>6, <1>7 DEF IInv

LEMMA RefreshRefusedStep ==
  ASSUME IInv, NEW u \in Users, RefreshRefused(u), ~Blocks
  PROVE  IInv'
<1> USE RegistrationAssumption DEF RegistrationAssumption
<1>1. /\ lock = None /\ reg' = NoReg /\ DropTokens
      /\ refresh' = [refresh EXCEPT ![u] = None]
      /\ UNCHANGED <<lock, accepted, flow, stuck, misplaced>>
  BY DEF RefreshRefused
<1>2. /\ refresh'[u] = None
      /\ \A v \in Users \ {u} : refresh'[v] = refresh[v]
      /\ \A v \in Users : tokens'[v] = None
      /\ \A g \in Flows : InExchange(g)' => InExchange(g)
  BY <1>1 DEF IInv, TypeOK, DropTokens, InExchange
<1>3. TypeOK'
  BY <1>1 DEF IInv, TypeOK, DropTokens, Exchanging, NoReg, Registration
<1>4. Control'
  <2>1. LockHeld' /\ RegistrationShape' /\ FlowShape'
    BY <1>1 DEF IInv, Control, LockHeld, RegistrationShape, FlowShape, InExchange, NoReg
  <2>2. ClientsKnown'
    BY <1>1, <1>2 DEF IInv, Control, ClientsKnown, Known, InExchange, NoReg
  <2>3. RefusalsStand'
    BY <1>1, <1>2 DEF IInv, Control, RefusalsStand
  <2>4. RowsOfThePast'
    BY <1>1, <1>2 DEF IInv, Control, RowsOfThePast
  <2>5. QED
    BY <2>1, <2>2, <2>3, <2>4 DEF Control
<1>5. Current'
  BY <1>1, <1>2, AfterDrop DEF Current, NoReg
<1>6. QED
  BY <1>3, <1>4, <1>5 DEF IInv

-----------------------------------------------------------------------------
(* The other steps, and all of them *)

LEMMA DisconnectStep ==
  ASSUME IInv, NEW u \in Users, Disconnect(u)
  PROVE  IInv'
<1>1. /\ UNCHANGED <<reg, lock, refresh, accepted, flow, stuck, overtaken, misplaced>>
      /\ tokens' \in [Users -> Token \cup {None}]
      /\ \A v \in Users : tokens'[v] = None \/ tokens'[v] = tokens[v]
  BY DEF Disconnect, history, IInv, TypeOK
<1>2. TypeOK'
  BY <1>1 DEF IInv, TypeOK
<1>3. Control'
  BY <1>1 DEF IInv, Control, LockHeld, RegistrationShape, FlowShape, ClientsKnown,
              RefusalsStand, RowsOfThePast, InExchange, Known
<1>4. Current'
  BY <1>1
  DEF IInv, Current, UnderTombstone, ExchangesCurrent, RefreshesCurrent, TokensCurrent, SameRow
<1>5. QED
  BY <1>2, <1>3, <1>4 DEF IInv

LEMMA EvictStep ==
  ASSUME IInv, Evict
  PROVE  IInv'
<1>1. /\ UNCHANGED <<reg, lock, tokens, refresh, flow, stuck, overtaken, misplaced>>
      /\ accepted' \subseteq accepted
  BY DEF Evict, gateway, history
<1>2. TypeOK'
  BY <1>1 DEF IInv, TypeOK
<1>3. Control'
  BY <1>1 DEF IInv, Control, LockHeld, RegistrationShape, FlowShape, ClientsKnown,
              RefusalsStand, RowsOfThePast, InExchange, Known
<1>4. Current'
  BY <1>1
  DEF IInv, Current, UnderTombstone, ExchangesCurrent, RefreshesCurrent, TokensCurrent, SameRow
<1>5. QED
  BY <1>2, <1>3, <1>4 DEF IInv

LEMMA StepIInv == IInv /\ [Next]_vars => IInv'
<1> SUFFICES ASSUME IInv, [Next]_vars PROVE IInv'
  OBVIOUS
<1>1. CASE Blocks
  BY <1>1, BlockedStep
<1>2. ASSUME ~Blocks, NEW f \in Flows, Initiate(f) \/ Resolve(f) \/ Callback(f) \/ Finish(f)
      PROVE  IInv'
  BY <1>2, InitiateStep, RegistrationFailsStep, RegisteredStep, CallbackStep,
     AnswerExchangeStep, ConnectStep, ConnectRefusedStep
  DEF Resolve, Finish
<1>3. ASSUME ~Blocks, NEW u \in Users, AskRefresh(u) \/ Renew(u) \/ Disconnect(u)
      PROVE  IInv'
  BY <1>3, AskRefreshStep, AnswerRefreshStep, RefreshedStep, RefreshRefusedStep, DisconnectStep
  DEF Renew
<1>4. CASE UNCHANGED vars
  BY <1>4 DEF vars, gateway, history, IInv, TypeOK, Control, LockHeld, RegistrationShape,
     FlowShape, ClientsKnown, RefusalsStand, RowsOfThePast, InExchange, Known, Current,
     UnderTombstone, ExchangesCurrent, RefreshesCurrent, TokensCurrent, SameRow
<1>5. QED
  BY <1>1, <1>2, <1>3, <1>4, EvictStep DEF Next

LEMMA InvariantHolds == Spec => []IInv
  BY InitIInv, StepIInv, PTL DEF Spec

-----------------------------------------------------------------------------
(* Theorems *)

\* Every variable keeps its type.
THEOREM TypeCorrect == Spec => []TypeOK
<1>1. IInv => TypeOK
  BY DEF IInv
<1>2. QED
  BY <1>1, InvariantHolds, PTL

\* Until a late refusal of our document has marked another client, every stored token
\* is of the client identity in use or of an exchange that a drop has overtaken.
THEOREM TokensAreOfThisClient == Spec => []TokensOfThisClient
<1>1. IInv => TokensOfThisClient
  BY DEF IInv, Current, TokensCurrent, TokensOfThisClient
<1>2. QED
  BY <1>1, InvariantHolds, PTL

Swapped == Working /\ reg'.mech \in {"dcr", "cimd"} => reg' = reg

\* A client identity in use is given up before another takes its place.
THEOREM IdentityIsNotSwapped == Spec => IdentityNotSwapped
<1>1. IInv /\ [Next]_vars => [Swapped]_vars
  <2> SUFFICES ASSUME IInv, [Next]_vars, Working, reg' # reg
               PROVE  reg'.mech \notin {"dcr", "cimd"}
    BY DEF Swapped
  <2>1. \A f \in Flows, mech \in {"dcr", "cimd"} : ~Registered(f, mech)
    BY RegistrationAssumption
    DEF Working, IInv, Control, LockHeld, Registered, Blocks, gateway, RegistrationAssumption
  <2>2. \/ \E f \in Flows : ConnectRefused(f) /\ ~Blocks
        \/ \E u \in Users : RefreshRefused(u) /\ ~Blocks
    BY <2>1 DEF Next, vars, gateway, Blocks, Initiate, InitiateStored, InitiateFirst,
       InitiateRejected, Resolve, RegistrationFails, Callback, Finish, AnswerExchange, Connect,
       AskRefresh, Renew, AnswerRefresh, Refreshed, Disconnect, Evict
  <2>3. reg' = NoReg \/ reg' = [reg EXCEPT !.mech = "cimd_rejected"]
    BY <2>2 DEF ConnectRefused, RefreshRefused
  <2>4. QED
    BY <2>3 DEF NoReg, IInv, TypeOK, Registration
<1>2. QED
  BY <1>1, InvariantHolds, PTL DEF Spec, IdentityNotSwapped, Swapped

Refused == Working /\ reg' # reg =>
    \/ \E f \in Flows : flow[f].at = "refused" /\ flow[f].client \notin accepted
    \/ \E u \in Users : refresh[u] # None /\ refresh[u].at = "refused"
                        /\ refresh[u].client \notin accepted

\* A client identity in use is given up only where the authorization server has
\* refused it or one before it.
THEOREM GivenUpOnlyForARefusal == Spec => GivenUpForARefusal
<1>1. IInv /\ [Next]_vars => [Refused]_vars
  <2> SUFFICES ASSUME IInv, [Next]_vars, Working, reg' # reg
               PROVE  \/ \E f \in Flows : flow[f].at = "refused" /\ flow[f].client \notin accepted
                      \/ \E u \in Users : refresh[u] # None /\ refresh[u].at = "refused"
                                          /\ refresh[u].client \notin accepted
    BY DEF Refused
  <2>1. \A f \in Flows, mech \in {"dcr", "cimd"} : ~Registered(f, mech)
    BY RegistrationAssumption
    DEF Working, IInv, Control, LockHeld, Registered, Blocks, gateway, RegistrationAssumption
  <2>2. \/ \E f \in Flows : ConnectRefused(f)
        \/ \E u \in Users : RefreshRefused(u)
    BY <2>1 DEF Next, vars, gateway, Blocks, Initiate, InitiateStored, InitiateFirst,
       InitiateRejected, Resolve, RegistrationFails, Callback, Finish, AnswerExchange, Connect,
       AskRefresh, Renew, AnswerRefresh, Refreshed, Disconnect, Evict
  <2>3. QED
    BY <2>2 DEF ConnectRefused, RefreshRefused, At, IInv, Control, RefusalsStand
<1>2. QED
  BY <1>1, InvariantHolds, PTL DEF Spec, GivenUpForARefusal, Refused
=============================================================================
