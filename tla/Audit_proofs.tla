---------------------------- MODULE Audit_proofs ----------------------------
(***************************************************************************)
(* Theorems about the way of an audit event: that each tool call makes the *)
(* one that fits it (ToolCall), that the emitter accounts for it until it  *)
(* is at the broker (AuditDelivery), and that the exporter does until it   *)
(* is at the tenant's collector (SiemExporter).  For any finite sets of    *)
(* calls and events and any sizes of queues and files.                     *)
(***************************************************************************)
EXTENDS ToolCall, AuditDelivery, SiemExporter, FiniteSetTheorems, SequenceTheorems, TLAPS

-----------------------------------------------------------------------------
(* ToolCall: the inductive invariant *)

\* What is known of a call from where it stands.
PlaceInv ==
    \A c \in Calls :
        /\ pc[c] # "done" => outcome[c] = "none"
        /\ pc[c] = "upstream" => c \in reached
        /\ pc[c] \in {"new", "lookup", "answered", "leasing"} => c \notin reached

Passed == {c \in Calls : pc[c] \in {"leasing", "upstream"}}
Exposed == {c \in reached : event[c] # NoEvent /\ event[c].place = "full"}

\* While the spool has room nobody is exposed and those past the preflight are all
\* inside; when it is full nobody passes the preflight.  So those who are or may
\* still be exposed were once inside together.
ExposureInv ==
    /\ emitter = "disk" => queued = 0
    /\ mode = "strict" /\ emitter = "disk" =>
        /\ spooled < SpoolSize => Exposed = {}
        /\ Cardinality(Exposed \cup Passed) <= Limit

IInv ==
    /\ TypeOK
    /\ SlotsReturned
    /\ PlaceInv
    /\ EventMatchesCall
    /\ ExposureInv

-----------------------------------------------------------------------------
(* Counting *)

\* The sets that are counted are finite.
LEMMA FiniteParts ==
  ASSUME TypeOK
  PROVE  /\ IsFiniteSet(InsideCalls) /\ Cardinality(InsideCalls) \in Nat
         /\ IsFiniteSet(Exposed \cup Passed) /\ Cardinality(Exposed \cup Passed) \in Nat
<1>1. InsideCalls \in SUBSET Calls /\ Exposed \cup Passed \in SUBSET Calls
  BY DEF TypeOK, InsideCalls, Exposed, Passed
<1>2. QED
  BY <1>1, FS_Subset, FS_CardinalityType, ToolCallAssumption DEF ToolCallAssumption

\* A call that leaves returns its slot.
LEMMA Left ==
  ASSUME TypeOK, SlotsReturned, NEW c \in Calls, pc[c] \in Inside, NEW status,
         Leave(c, status)
  PROVE  /\ free' \in 0..Limit /\ SlotsReturned'
         /\ InsideCalls' = InsideCalls \ {c}
         /\ Cardinality(InsideCalls') < Limit
<1>1. InsideCalls' = InsideCalls \ {c}
  BY DEF TypeOK, Leave, InsideCalls, Inside
<1>2. c \in InsideCalls
  BY DEF InsideCalls
<1>3. /\ IsFiniteSet(InsideCalls) /\ Cardinality(InsideCalls) \in Nat
      /\ Cardinality(InsideCalls') = Cardinality(InsideCalls) - 1
      /\ Cardinality(InsideCalls') \in Nat
  BY <1>1, <1>2, FiniteParts, FS_RemoveElement, FS_CardinalityType
<1>4. free \in 0..Limit /\ free = Limit - Cardinality(InsideCalls) /\ free' = free + 1
      /\ Limit \in Nat
  BY ToolCallAssumption DEF TypeOK, SlotsReturned, Leave, ToolCallAssumption
<1>5. free' \in 0..Limit /\ free' = Limit - Cardinality(InsideCalls')
      /\ Cardinality(InsideCalls') < Limit
  BY <1>3, <1>4
<1>6. QED
  BY <1>1, <1>5 DEF SlotsReturned

\* Where nobody enters or leaves, the slots stay as they are.
LEMMA Stayed ==
  ASSUME SlotsReturned, InsideCalls' = InsideCalls, free' = free
  PROVE  SlotsReturned'
  BY DEF SlotsReturned

\* Nobody new can be exposed, and nobody is while the spool has room.
LEMMA NoMoreExposed ==
  ASSUME TypeOK, TypeOK', ExposureInv, UNCHANGED <<mode, emitter>>,
         queued' = queued \/ emitter # "disk", spooled <= spooled',
         Exposed' \cup Passed' \subseteq Exposed \cup Passed,
         Exposed' \subseteq Exposed \/ spooled' = SpoolSize
  PROVE  ExposureInv'
<1>1. emitter' = "disk" => queued' = 0
  BY DEF ExposureInv
<1>2. ASSUME mode' = "strict", emitter' = "disk"
      PROVE  /\ spooled' < SpoolSize => Exposed' = {}
             /\ Cardinality(Exposed' \cup Passed') <= Limit
  <2>1. mode = "strict" /\ emitter = "disk"
    BY <1>2
  <2>2. ASSUME spooled' < SpoolSize
        PROVE  Exposed' = {}
    <3>1. spooled < SpoolSize /\ spooled' # SpoolSize
      BY <2>2, ToolCallAssumption DEF TypeOK, ToolCallAssumption
    <3>2. QED
      BY <2>1, <3>1 DEF ExposureInv
  <2>3. /\ Cardinality(Exposed' \cup Passed') <= Cardinality(Exposed \cup Passed)
        /\ Cardinality(Exposed' \cup Passed') \in Nat
        /\ Cardinality(Exposed \cup Passed) \in Nat
    BY FiniteParts, FS_Subset, FS_CardinalityType
  <2>4. Cardinality(Exposed \cup Passed) <= Limit
    BY <2>1 DEF ExposureInv
  <2>5. QED
    BY <2>2, <2>3, <2>4, ToolCallAssumption DEF ToolCallAssumption
<1>3. QED
  BY <1>1, <1>2 DEF ExposureInv

\* A step that leaves the spool alone does not shorten it.
LEMMA SpoolUnread ==
  ASSUME TypeOK, spooled' = spooled
  PROVE  spooled <= spooled'
  BY ToolCallAssumption DEF TypeOK, ToolCallAssumption

\* Those inside are no more than the limit.
LEMMA InsideBounded ==
  ASSUME TypeOK, SlotsReturned
  PROVE  Cardinality(InsideCalls) <= Limit
  BY FiniteParts, ToolCallAssumption DEF TypeOK, SlotsReturned, ToolCallAssumption

-----------------------------------------------------------------------------
LEMMA InitIInv == Init => IInv
<1> SUFFICES ASSUME Init PROVE IInv
  OBVIOUS
<1>1. TypeOK
  BY ToolCallAssumption DEF Init, TypeOK, ToolCallAssumption, Inside
<1>2. InsideCalls = {} /\ Exposed = {} /\ Passed = {}
  BY DEF Init, InsideCalls, Inside, Exposed, Passed
<1>3. SlotsReturned
  BY <1>2, FS_EmptySet, ToolCallAssumption DEF SlotsReturned, Init, ToolCallAssumption
<1>4. PlaceInv /\ EventMatchesCall
  BY DEF Init, PlaceInv, EventMatchesCall
<1>5. ExposureInv
  <2>1. Exposed \cup Passed = {}
    BY <1>2
  <2>2. Cardinality(Exposed \cup Passed) = 0
    BY <2>1, FS_EmptySet
  <2>3. QED
    BY <1>2, <2>2, ToolCallAssumption DEF ExposureInv, Init, ToolCallAssumption
<1>6. QED
  BY <1>1, <1>3, <1>4, <1>5 DEF IInv

-----------------------------------------------------------------------------
(* An event is emitted and the call leaves: Refuse, NotReached and Finish *)

Settles(c, decision, upstream, dest, status, principal) ==
    /\ Emit(c, decision, upstream, dest, principal)
    /\ Leave(c, IF Withheld(dest) THEN "audit_unavailable" ELSE status)
    /\ UNCHANGED <<mode, emitter, session, found, reached>>

\* How a call may end with an event, by where it stood.
Ending(c, decision, upstream, status) ==
    \/ /\ pc[c] = "answered"
       /\ decision = "deny" /\ upstream = "not_called"
       /\ status \in {"session_not_found", "denied"}
    \/ /\ pc[c] = "leasing"
       /\ <<decision, upstream, status>> \in Failures
    \/ /\ pc[c] = "upstream"
       /\ <<decision, upstream, status>> \in Ends

LEMMA SettlesInv ==
  ASSUME IInv, NEW c \in Calls, NEW decision, NEW upstream, NEW status,
         NEW dest \in Places, NEW principal \in BOOLEAN,
         Ending(c, decision, upstream, status),
         Settles(c, decision, upstream, dest, status, principal)
  PROVE  IInv'
<1>1. PICK size \in Sizes :
        /\ Place(dest, size)
        /\ spooled' = IF dest = "spool" THEN spooled + size ELSE spooled
  BY DEF Settles, Emit, Put
<1>2. /\ size \in Nat \ {0} /\ SpoolSize \in Nat /\ QueueSize \in Nat
      /\ spooled \in 0..SpoolSize /\ queued \in 0..QueueSize
  BY ToolCallAssumption DEF IInv, TypeOK, ToolCallAssumption
<1>3. /\ spooled' \in 0..SpoolSize
      /\ queued' \in 0..QueueSize
  BY <1>1, <1>2 DEF Settles, Emit, Put, Place, Appended
<1>4. /\ decision \in {"allow", "deny"}
      /\ upstream \in {"not_called", "ok", "error", "timeout"}
      /\ status \in {"session_not_found", "denied", "allowed", "upstream_error",
                     "upstream_timeout", "input_required_denied"}
  BY DEF Ending, Ends, Failures
<1>5. /\ pc[c] \in Inside
      /\ pc[c] \in {"answered", "leasing"} => c \notin reached
      /\ pc[c] = "upstream" => c \in reached
  BY DEF Ending, Inside, IInv, PlaceInv
<1>6. event' = [event EXCEPT ![c] = [decision |-> decision, upstream |-> upstream,
                                      place |-> dest]]
  BY DEF Settles, Emit
<1>7. [decision |-> decision, upstream |-> upstream, place |-> dest] \in Event
  BY <1>4 DEF Event
<1>8. /\ event'[c] = [decision |-> decision, upstream |-> upstream, place |-> dest]
      /\ event'[c] # NoEvent
      /\ \A d \in Calls \ {c} : event'[d] = event[d]
  BY <1>4, <1>6 DEF IInv, TypeOK, NoEvent
<1>9. /\ outcome'[c] = IF Withheld(dest) THEN "audit_unavailable" ELSE status
      /\ pc'[c] = "done"
      /\ \A d \in Calls \ {c} : outcome'[d] = outcome[d] /\ pc'[d] = pc[d]
      /\ UNCHANGED <<mode, emitter, session, found, reached>>
  BY DEF Settles, Leave, IInv, TypeOK
<1>10. graph' \subseteq graph \cup {c}
  BY DEF Settles, Emit
<1>11. /\ free' \in 0..Limit /\ SlotsReturned'
       /\ InsideCalls' = InsideCalls \ {c}
       /\ Cardinality(InsideCalls') < Limit
  BY <1>5, Left DEF Settles, IInv
<1>12. TypeOK'
  <2>1. event' \in [Calls -> Event \cup {NoEvent}]
    BY <1>6, <1>7 DEF IInv, TypeOK
  <2>2. /\ pc' \in [Calls -> Inside \cup {"new", "done"}]
        /\ outcome' \in [Calls -> {"none", "over_limit", "session_not_found", "denied",
                              "input_required_denied", "upstream_timeout", "upstream_error",
                              "allowed", "audit_unavailable", "cancelled"}]
    BY <1>4 DEF Settles, Leave, IInv, TypeOK
  <2>3. graph' \subseteq Calls
    BY <1>10 DEF IInv, TypeOK
  <2>4. QED
    BY <1>3, <1>9, <1>11, <2>1, <2>2, <2>3 DEF IInv, TypeOK
<1>13. PlaceInv'
  BY <1>9 DEF IInv, PlaceInv
<1>14. EventMatchesCall'
  <2>1. ASSUME NEW d \in Calls \ {c}
        PROVE  d \in graph' => d \in graph
    BY <1>10
  <2>2. /\ event'[c].decision = decision
        /\ event'[c].upstream = upstream
    BY <1>8
  <2>3. /\ c \in reached => upstream # "not_called" /\ (decision = "deny" => upstream = "error")
        /\ c \notin reached => upstream # "ok" /\ (decision = "deny" => upstream = "not_called")
        /\ status = "allowed" => decision = "allow" /\ upstream = "ok"
    BY <1>5 DEF Ending, Ends, Failures
  <2>4. QED
    BY <1>4, <1>8, <1>9, <2>1, <2>2, <2>3 DEF IInv, EventMatchesCall
<1>15. ExposureInv'
  <2>1. event'[c].place = dest
    BY <1>8
  <2>2. /\ Passed' \subseteq Passed
        /\ Exposed' \subseteq Exposed \cup {c}
        /\ dest # "full" => Exposed' \subseteq Exposed
        /\ c \notin reached => Exposed' \subseteq Exposed
        /\ c \in reached => c \in Passed
    BY <1>5, <1>8, <1>9, <2>1 DEF Passed, Exposed, Ending, IInv, TypeOK
  <2>3. /\ spooled <= spooled'
        /\ queued' = queued \/ emitter # "disk"
    BY <1>1, <1>2 DEF Settles, Emit, Put, Place, Appended
  <2>4. CASE emitter = "disk"
    <3>1. dest = "full" => spooled' = SpoolSize
      BY <1>1, <2>4 DEF Place, Appended
    <3>2. QED
      BY <1>9, <1>12, <2>2, <2>3, <3>1, NoMoreExposed DEF IInv
  <2>5. CASE emitter # "disk"
    BY <1>9, <2>5 DEF ExposureInv
  <2>6. QED
    BY <2>4, <2>5
<1>16. QED
  BY <1>11, <1>12, <1>13, <1>14, <1>15 DEF IInv

-----------------------------------------------------------------------------
(* The other steps; none of them emits an event *)

LEMMA TurnAwayInv == ASSUME IInv, NEW c \in Calls, TurnAway(c) PROVE IInv'
<1>1. TypeOK'
  BY DEF IInv, TypeOK, TurnAway, audit
<1>2. InsideCalls' = InsideCalls /\ Passed' = Passed /\ Exposed' = Exposed
  BY DEF IInv, TypeOK, TurnAway, InsideCalls, Inside, Passed, Exposed, audit
<1>3. SlotsReturned'
  BY <1>2, Stayed DEF IInv, TurnAway
<1>4. PlaceInv' /\ EventMatchesCall'
  BY DEF IInv, TypeOK, TurnAway, audit, PlaceInv, EventMatchesCall
<1>5. ExposureInv'
  BY <1>1, <1>2, SpoolUnread, NoMoreExposed DEF IInv, TurnAway, audit
<1>6. QED
  BY <1>1, <1>3, <1>4, <1>5 DEF IInv

LEMMA EnterInv == ASSUME IInv, NEW c \in Calls, Enter(c) PROVE IInv'
<1>0. /\ pc[c] = "new" /\ pc'[c] \in {"lookup", "answered"}
      /\ \A d \in Calls \ {c} : pc'[d] = pc[d]
      /\ pc' \in [Calls -> Inside \cup {"new", "done"}]
      /\ found' \in [Calls -> BOOLEAN]
  BY DEF IInv, TypeOK, Enter, Inside
<1>1. TypeOK'
  BY <1>0, ToolCallAssumption DEF IInv, TypeOK, Enter, audit, ToolCallAssumption
<1>2. InsideCalls' = InsideCalls \cup {c} /\ c \notin InsideCalls
  BY <1>0 DEF InsideCalls, Inside
<1>3. Passed' = Passed /\ Exposed' = Exposed
  BY <1>0 DEF Enter, Passed, Exposed, audit
<1>4. SlotsReturned'
  <2>1. /\ Cardinality(InsideCalls') = Cardinality(InsideCalls) + 1
        /\ Cardinality(InsideCalls) \in Nat
    BY <1>2, FiniteParts, FS_AddElement DEF IInv
  <2>2. free' = free - 1
    BY DEF Enter
  <2>3. QED
    BY <2>1, <2>2, ToolCallAssumption DEF IInv, SlotsReturned, ToolCallAssumption
<1>5. PlaceInv' /\ EventMatchesCall'
  BY <1>0 DEF IInv, Enter, audit, PlaceInv, EventMatchesCall
<1>6. ExposureInv'
  BY <1>1, <1>3, SpoolUnread, NoMoreExposed DEF IInv, Enter, audit
<1>7. QED
  BY <1>1, <1>4, <1>5, <1>6 DEF IInv

LEMMA AnswerInv == ASSUME IInv, NEW c \in Calls, Answer(c) PROVE IInv'
<1>1. TypeOK'
  BY DEF IInv, TypeOK, Answer, audit, Inside
<1>2. InsideCalls' = InsideCalls /\ Passed' = Passed /\ Exposed' = Exposed
  BY DEF IInv, TypeOK, Answer, InsideCalls, Inside, Passed, Exposed, audit
<1>3. SlotsReturned'
  BY <1>2, Stayed DEF IInv, Answer
<1>4. PlaceInv' /\ EventMatchesCall'
  BY DEF IInv, TypeOK, Answer, audit, PlaceInv, EventMatchesCall
<1>5. ExposureInv'
  BY <1>1, <1>2, SpoolUnread, NoMoreExposed DEF IInv, Answer, audit
<1>6. QED
  BY <1>1, <1>3, <1>4, <1>5 DEF IInv

\* A call leaves without an event.
LEMMA LeavesInv ==
  ASSUME IInv, NEW c \in Calls, pc[c] \in Inside,
         NEW status \in {"audit_unavailable", "cancelled"},
         status = "audit_unavailable" => pc[c] = "answered",
         Leave(c, status), UNCHANGED <<mode, emitter, session, found, reached, audit>>
  PROVE  IInv'
<1>1. free' \in 0..Limit /\ SlotsReturned'
  BY Left DEF IInv
<1>2. TypeOK'
  BY <1>1 DEF IInv, TypeOK, Leave, audit
<1>3. Passed' \subseteq Passed /\ Exposed' = Exposed
  BY DEF IInv, TypeOK, Leave, Passed, Exposed, audit
<1>4. /\ outcome'[c] = status /\ pc'[c] = "done"
      /\ \A d \in Calls \ {c} : outcome'[d] = outcome[d] /\ pc'[d] = pc[d]
  BY DEF IInv, TypeOK, Leave
<1>5. PlaceInv'
  BY <1>4 DEF IInv, PlaceInv
<1>6. EventMatchesCall'
  <2>1. event[c] = NoEvent
    BY DEF IInv, EventMatchesCall, Inside
  <2>2. status = "audit_unavailable" => c \notin reached
    BY DEF IInv, PlaceInv
  <2>3. QED
    BY <1>4, <2>1, <2>2 DEF IInv, EventMatchesCall, audit
<1>7. ExposureInv'
  BY <1>2, <1>3, SpoolUnread, NoMoreExposed DEF IInv, audit
<1>8. QED
  BY <1>1, <1>2, <1>5, <1>6, <1>7 DEF IInv

LEMMA CallUpstreamInv == ASSUME IInv, NEW c \in Calls, CallUpstream(c) PROVE IInv'
<1>0. /\ pc[c] = "answered" /\ pc'[c] = "leasing"
      /\ \A d \in Calls \ {c} : pc'[d] = pc[d]
  BY DEF IInv, TypeOK, CallUpstream
<1>1. TypeOK'
  BY DEF IInv, TypeOK, CallUpstream, audit, Inside
<1>2. InsideCalls' = InsideCalls /\ Exposed' = Exposed
  BY <1>0 DEF CallUpstream, InsideCalls, Inside, Exposed, audit
<1>3. SlotsReturned'
  BY <1>2, Stayed DEF IInv, CallUpstream
<1>4. PlaceInv' /\ EventMatchesCall'
  BY <1>0 DEF IInv, CallUpstream, audit, PlaceInv, EventMatchesCall
<1>5. ExposureInv'
  <2>1. ASSUME mode = "strict", emitter = "disk"
        PROVE  Exposed' = {} /\ Cardinality(Exposed' \cup Passed') <= Limit
    <3>1. spooled < SpoolSize
      BY <2>1 DEF CallUpstream, CanDurablyAccept
    <3>2. Exposed' = {}
      BY <1>2, <2>1, <3>1 DEF IInv, ExposureInv
    <3>3. Exposed' \cup Passed' \subseteq InsideCalls'
      BY <3>2 DEF Passed, InsideCalls, Inside
    <3>4. /\ IsFiniteSet(InsideCalls') /\ Cardinality(InsideCalls') \in Nat
          /\ Cardinality(InsideCalls') <= Limit
      BY <1>2, FiniteParts, InsideBounded DEF IInv
    <3>5. /\ Cardinality(Exposed' \cup Passed') <= Cardinality(InsideCalls')
          /\ Cardinality(Exposed' \cup Passed') \in Nat
      BY <3>3, <3>4, FS_Subset, FS_CardinalityType
    <3>6. QED
      BY <3>2, <3>4, <3>5, ToolCallAssumption DEF ToolCallAssumption
  <2>2. UNCHANGED <<mode, emitter, queued>>
    BY DEF CallUpstream, audit
  <2>3. QED
    BY <2>1, <2>2 DEF IInv, ExposureInv
<1>6. QED
  BY <1>1, <1>3, <1>4, <1>5 DEF IInv

LEMMA ReachInv == ASSUME IInv, NEW c \in Calls, Reach(c) PROVE IInv'
<1>0. /\ pc[c] = "leasing" /\ pc'[c] = "upstream"
      /\ \A d \in Calls \ {c} : pc'[d] = pc[d]
      /\ reached' = reached \cup {c}
      /\ event[c] = NoEvent /\ outcome[c] = "none"
  BY DEF IInv, TypeOK, Reach, EventMatchesCall, PlaceInv
<1>1. TypeOK'
  BY DEF IInv, TypeOK, Reach, audit, Inside
<1>2. InsideCalls' = InsideCalls /\ Passed' = Passed /\ Exposed' = Exposed
  BY <1>0 DEF Reach, InsideCalls, Inside, Passed, Exposed, audit
<1>3. SlotsReturned'
  BY <1>2, Stayed DEF IInv, Reach
<1>4. PlaceInv'
  BY <1>0 DEF IInv, Reach, PlaceInv
<1>5. EventMatchesCall'
  BY <1>0 DEF IInv, Reach, audit, EventMatchesCall
<1>6. ExposureInv'
  BY <1>1, <1>2, SpoolUnread, NoMoreExposed DEF IInv, Reach, audit
<1>7. QED
  BY <1>1, <1>3, <1>4, <1>5, <1>6 DEF IInv

LEMMA EndSessionInv == ASSUME IInv, EndSession PROVE IInv'
<1>1. TypeOK'
  BY DEF IInv, TypeOK, EndSession, audit
<1>2. InsideCalls' = InsideCalls /\ Passed' = Passed /\ Exposed' = Exposed
  BY DEF EndSession, InsideCalls, Passed, Exposed, audit
<1>3. SlotsReturned'
  BY <1>2, Stayed DEF IInv, EndSession
<1>4. PlaceInv' /\ EventMatchesCall'
  BY DEF IInv, EndSession, audit, PlaceInv, EventMatchesCall
<1>5. ExposureInv'
  BY <1>1, <1>2, SpoolUnread, NoMoreExposed DEF IInv, EndSession, audit
<1>6. QED
  BY <1>1, <1>3, <1>4, <1>5 DEF IInv

LEMMA DrainInv == ASSUME IInv, Drain PROVE IInv'
<1>1. PICK size \in Sizes \cup {0} :
        spooled + size <= SpoolSize /\ spooled' = spooled + size
  BY DEF Drain
<1>2. spooled' \in 0..SpoolSize /\ queued' \in 0..QueueSize
  BY <1>1, ToolCallAssumption DEF IInv, TypeOK, Drain, ToolCallAssumption
<1>3. TypeOK'
  BY <1>2 DEF IInv, TypeOK, Drain
<1>4. InsideCalls' = InsideCalls
  BY DEF Drain, InsideCalls
<1>5. SlotsReturned'
  BY <1>4, Stayed DEF IInv, Drain
<1>6. PlaceInv' /\ EventMatchesCall'
  BY DEF IInv, Drain, PlaceInv, EventMatchesCall
<1>7. ExposureInv'
  <2>1. emitter # "disk"
    BY DEF IInv, ExposureInv, Drain
  <2>2. QED
    BY <2>1 DEF ExposureInv, Drain
<1>8. QED
  BY <1>3, <1>5, <1>6, <1>7 DEF IInv

LEMMA OthersEmitInv == ASSUME IInv, OthersEmit PROVE IInv'
<1>1. PICK dest \in {"spool", "queue"}, size \in Sizes :
        /\ Place(dest, size)
        /\ spooled' = IF dest = "spool" THEN spooled + size ELSE spooled
        /\ queued' = IF dest = "queue" THEN queued + 1 ELSE queued
  BY DEF OthersEmit, Put
<1>2. /\ size \in Nat \ {0} /\ SpoolSize \in Nat /\ QueueSize \in Nat
      /\ spooled \in 0..SpoolSize /\ queued \in 0..QueueSize
  BY ToolCallAssumption DEF IInv, TypeOK, ToolCallAssumption
<1>3. /\ spooled' \in 0..SpoolSize /\ queued' \in 0..QueueSize
      /\ spooled <= spooled'
      /\ queued' = queued \/ emitter # "disk"
  BY <1>1, <1>2 DEF Place, Appended
<1>4. TypeOK'
  BY <1>3 DEF IInv, TypeOK, OthersEmit
<1>5. InsideCalls' = InsideCalls /\ Passed' = Passed /\ Exposed' = Exposed
  BY DEF OthersEmit, InsideCalls, Passed, Exposed
<1>6. SlotsReturned'
  BY <1>5, Stayed DEF IInv, OthersEmit
<1>7. PlaceInv' /\ EventMatchesCall'
  BY DEF IInv, OthersEmit, PlaceInv, EventMatchesCall
<1>8. ExposureInv'
  BY <1>3, <1>4, <1>5, NoMoreExposed DEF IInv, OthersEmit
<1>9. QED
  BY <1>4, <1>6, <1>7, <1>8 DEF IInv

-----------------------------------------------------------------------------
LEMMA RefuseInv ==
  ASSUME IInv, NEW c \in Calls, pc[c] = "answered", NEW principal \in BOOLEAN,
         NEW status \in {"session_not_found", "denied"}, Refuse(c, status, principal)
  PROVE  IInv'
<1>1. PICK dest \in Places :
        /\ Emit(c, "deny", "not_called", dest, principal)
        /\ Leave(c, IF Withheld(dest) THEN "audit_unavailable" ELSE status)
  BY DEF Refuse
<1>2. Settles(c, "deny", "not_called", dest, status, principal)
  BY <1>1 DEF Settles, Refuse
<1>3. Ending(c, "deny", "not_called", status)
  BY DEF Ending
<1>4. QED
  BY <1>2, <1>3, SettlesInv

\* NotReached and Finish.
LEMMA EndsWithInv ==
  ASSUME IInv, NEW c \in Calls, NEW end \in Ends,
         pc[c] = "upstream" \/ (pc[c] = "leasing" /\ end \in Failures),
         EndsWith(c, end)
  PROVE  IInv'
<1>1. PICK dest \in Places :
        /\ Emit(c, end[1], end[2], dest, TRUE)
        /\ Leave(c, IF Withheld(dest) THEN "audit_unavailable" ELSE end[3])
  BY DEF EndsWith
<1>2. Settles(c, end[1], end[2], dest, end[3], TRUE)
  BY <1>1 DEF Settles, EndsWith
<1>3. Ending(c, end[1], end[2], end[3])
  BY DEF Ending, Ends, Failures
<1>4. QED
  BY <1>2, <1>3, SettlesInv

LEMMA StepIInv == IInv /\ [Next]_vars => IInv'
<1> SUFFICES ASSUME IInv, [Next]_vars PROVE IInv'
  OBVIOUS
<1>1. ASSUME NEW c \in Calls, TurnAway(c) \/ Enter(c) PROVE IInv'
  BY <1>1, TurnAwayInv, EnterInv
<1>2. ASSUME NEW c \in Calls, Run(c) PROVE IInv'
  <2>1. CASE Answer(c)
    BY <2>1, AnswerInv
  <2>2. CASE NoSession(c)
    BY <2>2, RefuseInv DEF NoSession
  <2>3. CASE Deny(c)
    <3>1. PICK g \in Gates : Refuse(c, "denied", g # "identity")
      BY <2>3 DEF Deny
    <3>2. QED
      BY <2>3, <3>1, RefuseInv DEF Deny
  <2>4. CASE PreflightFails(c)
    BY <2>4, LeavesInv DEF PreflightFails, Inside
  <2>5. CASE CallUpstream(c)
    BY <2>5, CallUpstreamInv
  <2>6. CASE Reach(c)
    BY <2>6, ReachInv
  <2>7. CASE NotReached(c)
    BY <2>7, EndsWithInv DEF NotReached, Ends
  <2>8. CASE Finish(c)
    BY <2>8, EndsWithInv DEF Finish
  <2>9. QED
    BY <1>2, <2>1, <2>2, <2>3, <2>4, <2>5, <2>6, <2>7, <2>8 DEF Run
<1>3. ASSUME NEW c \in Calls, CancelCall(c) PROVE IInv'
  BY <1>3, LeavesInv DEF CancelCall
<1>4. ASSUME EndSession \/ OthersEmit \/ Drain PROVE IInv'
  BY <1>4, EndSessionInv, OthersEmitInv, DrainInv
<1>5. ASSUME UNCHANGED vars PROVE IInv'
  BY <1>5 DEF vars, IInv, TypeOK, SlotsReturned, InsideCalls, PlaceInv, EventMatchesCall,
              ExposureInv, Exposed, Passed
<1>6. QED
  BY <1>1, <1>2, <1>3, <1>4, <1>5 DEF Next

LEMMA InvariantHolds == Spec => []IInv
  BY InitIInv, StepIInv, PTL DEF Spec

-----------------------------------------------------------------------------
\* The variables keep their types: the semaphore stays between 0 and its limit,
\* and no emitter takes more than it has room for (inflight_gate.py, emitter.py).
THEOREM TypeCorrect == Spec => []TypeOK
<1>1. IInv => TypeOK
  BY DEF IInv
<1>2. QED
  BY <1>1, InvariantHolds, PTL

\* Every way out of PerTenantInflightGate.__call__ and handle_tool_call, a
\* cancellation included, returns the tenant's slot exactly once.
THEOREM SlotsAreReturned == Spec => []SlotsReturned
<1>1. IInv => SlotsReturned
  BY DEF IInv
<1>2. QED
  BY <1>1, InvariantHolds, PTL

\* The audit event of a finished call says what was done with it, whether it was
\* refused, stopped by an open circuit or a failed lease, or sent to the upstream
\* (ToolCallLifecycle._emit_audit and its callers).
THEOREM EventsMatchCalls == Spec => []EventMatchesCall
<1>1. IInv => EventMatchesCall
  BY DEF IInv
<1>2. QED
  BY <1>1, InvariantHolds, PTL

\* However many calls a tenant makes and whoever fills the spool, no more than its
\* limit ever find it full after they passed the preflight of strict mode and reached
\* the upstream (_strict_audit_preflight_failure, DiskSpoolAuditEmitter).
THEOREM StrictExposureIsBounded == Spec => []StrictExposureBounded
<1>1. IInv => StrictExposureBounded
  <2> SUFFICES ASSUME IInv, mode = "strict", emitter = "disk"
               PROVE  Cardinality(Exposed) <= Limit
    BY DEF StrictExposureBounded, Exposed
  <2>1. Cardinality(Exposed \cup Passed) <= Limit
    BY DEF IInv, ExposureInv
  <2>2. /\ Cardinality(Exposed) <= Cardinality(Exposed \cup Passed)
        /\ Cardinality(Exposed) \in Nat /\ Cardinality(Exposed \cup Passed) \in Nat
    BY FiniteParts, FS_Subset, FS_CardinalityType DEF IInv
  <2>3. QED
    BY <2>1, <2>2, ToolCallAssumption DEF ToolCallAssumption
<1>2. QED
  BY <1>1, InvariantHolds, PTL

-----------------------------------------------------------------------------
(* Sequences without repetition *)

Unique(s) == \A i, j \in 1..Len(s) : s[i] = s[j] => i = j

\* The elements of s from position m to position n.
Part(s, m, n) == {s[i] : i \in m..n}

LEMMA AppendFacts ==
  ASSUME NEW S, NEW s \in Seq(S), NEW x \in S
  PROVE  /\ Append(s, x) \in Seq(S)
         /\ Len(Append(s, x)) = Len(s) + 1
         /\ \A i \in 1..Len(s) : Append(s, x)[i] = s[i]
         /\ Append(s, x)[Len(s) + 1] = x
         /\ InSeq(Append(s, x)) = InSeq(s) \cup {x}
         /\ Unique(s) /\ x \notin InSeq(s) => Unique(Append(s, x))
<1>1. /\ Append(s, x) \in Seq(S) /\ Len(Append(s, x)) = Len(s) + 1 /\ Len(s) \in Nat
      /\ \A i \in 1..Len(s) : Append(s, x)[i] = s[i]
      /\ Append(s, x)[Len(s) + 1] = x
  OBVIOUS
<1>2. 1..(Len(s) + 1) = 1..Len(s) \cup {Len(s) + 1}
  BY <1>1
<1>3. PICK t : t = Append(s, x)
  OBVIOUS
<1>4. /\ Len(t) = Len(s) + 1 /\ t[Len(s) + 1] = x
      /\ \A i \in 1..Len(s) : t[i] = s[i]
  BY <1>1, <1>3
<1>5. InSeq(t) = InSeq(s) \cup {x}
  BY <1>2, <1>4 DEF InSeq
<1>6. ASSUME Unique(s), x \notin InSeq(s) PROVE Unique(t)
  <2>1. ASSUME NEW i \in 1..Len(t), NEW j \in 1..Len(t), t[i] = t[j] PROVE i = j
    <3>1. CASE i \in 1..Len(s) /\ j \in 1..Len(s)
      BY <1>4, <1>6, <2>1, <3>1 DEF Unique
    <3>2. CASE i = Len(s) + 1 \/ j = Len(s) + 1
      BY <1>2, <1>4, <1>6, <2>1, <3>2 DEF InSeq
    <3>3. QED
      BY <1>2, <1>4, <2>1, <3>1, <3>2
  <2>2. QED
    BY <2>1 DEF Unique
<1>7. QED
  BY <1>1, <1>3, <1>5, <1>6

LEMMA Sliced ==
  ASSUME NEW S, NEW s \in Seq(S), NEW m \in Nat \ {0}, NEW n \in Nat, n <= Len(s), m <= n + 1
  PROVE  /\ SubSeq(s, m, n) \in Seq(S)
         /\ Len(SubSeq(s, m, n)) = n - m + 1
         /\ \A i \in 1..(n - m + 1) : SubSeq(s, m, n)[i] = s[m + i - 1]
         /\ InSeq(SubSeq(s, m, n)) = Part(s, m, n)
         /\ Unique(s) => Unique(SubSeq(s, m, n))
<1>1. PICK t : t = SubSeq(s, m, n)
  OBVIOUS
<1>2. /\ Len(t) = n - m + 1 /\ Len(t) \in Nat
      /\ \A i \in 1..Len(t) : t[i] = s[m + i - 1]
  BY <1>1
<1>3. t \in Seq(S)
  BY <1>1, SubSeqProperties
<1>4. InSeq(t) = Part(s, m, n)
  <2>1. ASSUME NEW i \in 1..Len(t) PROVE t[i] \in Part(s, m, n)
    <3>1. m + i - 1 \in m..n
      BY <1>2
    <3>2. QED
      BY <1>2, <3>1 DEF Part
  <2>2. ASSUME NEW i \in m..n PROVE s[i] \in InSeq(t)
    <3>1. i - m + 1 \in 1..Len(t) /\ m + (i - m + 1) - 1 = i
      BY <1>2
    <3>2. t[i - m + 1] = s[m + (i - m + 1) - 1]
      BY <1>2, <3>1
    <3>3. QED
      BY <3>1, <3>2 DEF InSeq
  <2>3. InSeq(t) \subseteq Part(s, m, n)
    BY <2>1 DEF InSeq
  <2>4. Part(s, m, n) \subseteq InSeq(t)
    BY <2>2 DEF Part
  <2>5. QED
    BY <2>3, <2>4
<1>5. ASSUME Unique(s) PROVE Unique(t)
  <2>1. ASSUME NEW i \in 1..Len(t), NEW j \in 1..Len(t), t[i] = t[j] PROVE i = j
    <3>1. m + i - 1 \in 1..Len(s) /\ m + j - 1 \in 1..Len(s)
      BY <1>2
    <3>2. m + i - 1 = m + j - 1
      BY <1>2, <1>5, <2>1, <3>1 DEF Unique
    <3>3. QED
      BY <3>2
  <2>2. QED
    BY <2>1 DEF Unique
<1>6. QED
  BY <1>1, <1>2, <1>3, <1>4, <1>5

LEMMA Taken ==
  ASSUME NEW S, NEW s \in Seq(S), s # << >>
  PROVE  /\ Head(s) \in S /\ Tail(s) \in Seq(S)
         /\ Len(Tail(s)) = Len(s) - 1 /\ Len(s) > 0
         /\ InSeq(s) = InSeq(Tail(s)) \cup {Head(s)}
         /\ Unique(s) => Unique(Tail(s)) /\ Head(s) \notin InSeq(Tail(s))
<1>1. Len(s) \in Nat /\ Len(s) > 0 /\ Head(s) = s[1] /\ s[1] \in S
  OBVIOUS
<1>2. PICK t : t = Tail(s)
  OBVIOUS
<1>3. t \in Seq(S) /\ Len(t) = Len(s) - 1 /\ \A i \in 1..Len(t) : t[i] = s[i + 1]
  BY <1>1, <1>2
<1>4. InSeq(s) = InSeq(t) \cup {s[1]}
  <2>1. \A i \in 1..Len(t) : i + 1 \in 1..Len(s)
    BY <1>1, <1>3
  <2>2. \A i \in 1..Len(s) : i = 1 \/ (i - 1 \in 1..Len(t) /\ s[i] = t[i - 1])
    BY <1>1, <1>3
  <2>3. 1 \in 1..Len(s)
    BY <1>1
  <2>4. InSeq(t) \subseteq InSeq(s)
    BY <1>3, <2>1 DEF InSeq
  <2>5. InSeq(s) \subseteq InSeq(t) \cup {s[1]}
    BY <2>2 DEF InSeq
  <2>6. QED
    BY <2>3, <2>4, <2>5 DEF InSeq
<1>5. ASSUME Unique(s) PROVE Unique(t) /\ s[1] \notin InSeq(t)
  <2>1. ASSUME NEW i \in 1..Len(t), NEW j \in 1..Len(t), t[i] = t[j] PROVE i = j
    <3>1. i + 1 \in 1..Len(s) /\ j + 1 \in 1..Len(s) /\ s[i + 1] = s[j + 1]
      BY <1>1, <1>3, <2>1
    <3>2. i + 1 = j + 1
      BY <1>5, <3>1 DEF Unique
    <3>3. QED
      BY <3>2
  <2>2. ASSUME NEW i \in 1..Len(t) PROVE t[i] # s[1]
    <3>1. i + 1 \in 1..Len(s) /\ 1 \in 1..Len(s) /\ i + 1 # 1
      BY <1>1, <1>3
    <3>2. QED
      BY <1>3, <1>5, <3>1 DEF Unique
  <2>3. QED
    BY <2>1, <2>2 DEF Unique, InSeq
<1>6. QED
  BY <1>1, <1>2, <1>3, <1>4, <1>5

LEMMA NothingInSeq ==
  ASSUME NEW s \in Seq(Events) PROVE InSeq(s) \subseteq Events /\ Nothing \notin InSeq(s)
  BY AuditAssumption DEF AuditAssumption, InSeq

-----------------------------------------------------------------------------
(* The inductive invariant of AuditDelivery *)

\* The worker holds an event exactly while it awaits the producer, and what join
\* waits for is that event and the queue.
WorkerInv ==
    /\ worker = "producing" <=> inHand # Nothing
    /\ unfinished = Len(queue) + (IF worker = "producing" THEN 1 ELSE 0)

\* An event is in one place of the queue, the worker's hand and the file.
PlacesInv ==
    /\ Unique(queue) /\ Unique(spool)
    /\ InSeq(queue) \cap InSeq(spool) = {}
    /\ inHand \notin InSeq(queue) \cup InSeq(spool)
    /\ InMemory \cup InSeq(spool) \subseteq accepted

\* What has become of an event goes with where it is.
EventsInv ==
    \A e \in Events :
        /\ e \notin accepted => deliveries[e] = 0 /\ lost[e] = "no"
        /\ e \in InMemory => deliveries[e] = 0 /\ lost[e] = "no" /\ e \notin durable
        /\ e \in InSeq(spool) => lost[e] = "no"
        /\ deliveries[e] > 0 => lost[e] = "no"
        /\ e \in accepted /\ lost[e] = "no" => e \in InReach

\* A replay has delivered what is before its position; from there on the file holds
\* no event that the broker got more often than there were crashes and repeats.
ReplayInv ==
    /\ readUpTo = 0 <=> next = 0
    /\ \A i \in 1..Len(spool) :
        /\ i >= next => deliveries[spool[i]] <= crashes + repeats
        /\ i < next => deliveries[spool[i]] > 0

AuditInv ==
    /\ AuditTypeOK
    /\ WorkerInv
    /\ PlacesInv
    /\ EventsInv
    /\ ReplayInv
    /\ DeliveredOnce
    /\ DurableKept

LEMMA AuditInitInv == AuditInit => AuditInv
<1> SUFFICES ASSUME AuditInit PROVE AuditInv
  OBVIOUS
<1>1. InSeq(queue) = {} /\ InSeq(spool) = {} /\ Unique(queue) /\ Unique(spool)
  BY DEF AuditInit, InSeq, Unique
<1>2. AuditTypeOK
  <2>1. /\ 0 \in 0..(MaxCrashes + MaxRepeats + 2) /\ 0 \in 0..(MaxQueue + 1)
        /\ 0 \in 0..MaxCrashes /\ 0 \in 0..MaxRepeats
    BY AuditAssumption DEF AuditAssumption
  <2>2. queue \in Seq(Events) /\ Len(queue) = 0 /\ spool \in Seq(Events) /\ Len(spool) = 0
    BY DEF AuditInit
  <2>3. Len(queue) <= MaxQueue /\ Len(spool) <= MaxSpool /\ readUpTo \in 0..Len(spool)
        /\ next \in 0..readUpTo
    BY <2>2, AuditAssumption DEF AuditInit, AuditAssumption
  <2>4. QED
    BY <2>1, <2>2, <2>3 DEF AuditInit, AuditTypeOK
<1>3. WorkerInv /\ PlacesInv /\ EventsInv /\ ReplayInv /\ DeliveredOnce /\ DurableKept
  BY <1>1, AuditAssumption
  DEF AuditAssumption, AuditInit, WorkerInv, PlacesInv, EventsInv, ReplayInv, DeliveredOnce,
      DurableKept, InMemory, InHand
<1>4. QED
  BY <1>2, <1>3 DEF AuditInv

-----------------------------------------------------------------------------
(* emit_nowait *)

LEMMA EmitQueuedStep ==
  ASSUME AuditInv, NEW e \in Events, EmitQueued(e)
  PROVE  AuditInv'
<1> USE AuditAssumption DEF AuditAssumption, AuditInv, EmitQueued, replayVars, broker, New
<1>0. queue \in Seq(Events) /\ Len(queue) \in Nat /\ spool \in Seq(Events)
  BY DEF AuditTypeOK
<1>1. /\ queue' \in Seq(Events) /\ Len(queue') = Len(queue) + 1
      /\ InSeq(queue') = InSeq(queue) \cup {e} /\ InSeq(spool') = InSeq(spool)
      /\ Unique(queue) /\ e \notin InSeq(queue) => Unique(queue')
  BY <1>0, AppendFacts
<1>2. e \notin InSeq(queue) /\ e \notin InSeq(spool) /\ e # inHand
  BY DEF PlacesInv, InMemory, InHand, AuditTypeOK
<1>3. AuditTypeOK'
  BY <1>0, <1>1 DEF AuditTypeOK, WorkerInv
<1>4. WorkerInv'
  BY <1>0, <1>1 DEF WorkerInv
<1>5. PlacesInv'
  BY <1>1, <1>2 DEF PlacesInv, InMemory, InHand
<1>6. EventsInv'
  BY <1>1, <1>2 DEF EventsInv, InMemory, InHand, InReach, AuditTypeOK
<1>7. ReplayInv' /\ DeliveredOnce' /\ DurableKept'
  BY DEF ReplayInv, DeliveredOnce, DurableKept
<1>8. QED
  BY <1>3, <1>4, <1>5, <1>6, <1>7

LEMMA EmitSpooledStep ==
  ASSUME AuditInv, NEW e \in Events, EmitSpooled(e)
  PROVE  AuditInv'
<1> USE AuditAssumption DEF AuditAssumption, AuditInv, EmitSpooled, replayVars, broker, New
<1>0. queue \in Seq(Events) /\ spool \in Seq(Events) /\ Len(spool) \in Nat
  BY DEF AuditTypeOK
<1>1. /\ spool' \in Seq(Events) /\ Len(spool') = Len(spool) + 1
      /\ InSeq(spool') = InSeq(spool) \cup {e} /\ InSeq(queue') = InSeq(queue)
      /\ Unique(spool) /\ e \notin InSeq(spool) => Unique(spool')
      /\ \A i \in 1..Len(spool) : spool'[i] = spool[i]
      /\ spool'[Len(spool) + 1] = e
  BY <1>0, AppendFacts
<1>2. e \notin InSeq(queue) /\ e \notin InSeq(spool) /\ e # inHand
  BY DEF PlacesInv, InMemory, InHand, AuditTypeOK
<1>3. AuditTypeOK'
  BY <1>0, <1>1 DEF AuditTypeOK
<1>4. WorkerInv'
  BY DEF WorkerInv
<1>5. PlacesInv'
  BY <1>1, <1>2 DEF PlacesInv, InMemory, InHand
<1>6. EventsInv'
  BY <1>1, <1>2 DEF EventsInv, InMemory, InHand, InReach, AuditTypeOK
<1>7. ReplayInv'
  <2>1. /\ deliveries[e] = 0 /\ next \in Nat /\ next <= Len(spool)
        /\ crashes \in Nat /\ repeats \in Nat
    BY <1>0 DEF EventsInv, AuditTypeOK
  <2>2. ASSUME NEW i \in 1..Len(spool')
        PROVE  /\ i >= next => deliveries[spool'[i]] <= crashes + repeats
               /\ i < next => deliveries[spool'[i]] > 0
    <3>1. CASE i \in 1..Len(spool)
      BY <1>1, <3>1 DEF ReplayInv
    <3>2. CASE i = Len(spool) + 1
      BY <1>0, <1>1, <2>1, <3>2
    <3>3. QED
      BY <1>0, <1>1, <3>1, <3>2
  <2>3. readUpTo = 0 <=> next = 0
    BY DEF ReplayInv
  <2>4. QED
    BY <2>2, <2>3 DEF ReplayInv
<1>8. DeliveredOnce' /\ DurableKept'
  BY DEF DeliveredOnce, DurableKept, EventsInv
<1>9. QED
  BY <1>3, <1>4, <1>5, <1>6, <1>7, <1>8

\* The steps that move no event.
LEMMA QuietStep ==
  ASSUME AuditInv, AuditTypeOK', UNCHANGED <<queue, inHand, spool, replayVars, broker, lost, history>>,
         worker' = "producing" <=> worker = "producing", UNCHANGED unfinished
  PROVE  AuditInv'
<1> USE DEF AuditInv, replayVars, broker, history
<1>1. WorkerInv' /\ ReplayInv'
  BY DEF WorkerInv, ReplayInv
<1>2. PlacesInv'
  BY DEF PlacesInv, InMemory, InHand, InSeq, Unique
<1>3. InReach' = InReach /\ InMemory' = InMemory /\ InSeq(spool)' = InSeq(spool)
  BY DEF InReach, InMemory, InHand, InSeq
<1>4. EventsInv'
  BY <1>3 DEF EventsInv
<1>5. DeliveredOnce' /\ DurableKept'
  BY DEF DeliveredOnce, DurableKept
<1>6. QED
  BY <1>1, <1>2, <1>4, <1>5

LEMMA EmitRefusedStep ==
  ASSUME AuditInv, NEW e \in Events, EmitRefused(e)
  PROVE  AuditInv'
<1>1. AuditTypeOK'
  BY DEF AuditInv, AuditTypeOK, EmitRefused, replayVars, broker, history
<1>2. QED
  BY <1>1, QuietStep DEF EmitRefused

LEMMA StartStep == AuditInv /\ Start => AuditInv'
<1> SUFFICES ASSUME AuditInv, Start PROVE AuditInv'
  OBVIOUS
<1>1. AuditTypeOK'
  BY DEF AuditInv, AuditTypeOK, Start, replayVars, broker, history
<1>2. QED
  BY <1>1, QuietStep DEF Start

-----------------------------------------------------------------------------
(* The worker *)

LEMMA TakeStep == AuditInv /\ Take => AuditInv'
<1> SUFFICES ASSUME AuditInv, Take PROVE AuditInv'
  OBVIOUS
<1> USE AuditAssumption DEF AuditAssumption, AuditInv, Take, replayVars, broker, history
<1>0. queue \in Seq(Events) /\ Len(queue) \in Nat /\ spool \in Seq(Events)
  BY DEF AuditTypeOK
<1>1. /\ inHand' \in Events /\ queue' \in Seq(Events)
      /\ Len(queue') = Len(queue) - 1 /\ Len(queue) > 0
      /\ InSeq(queue) = InSeq(queue') \cup {inHand'} /\ InSeq(spool') = InSeq(spool)
      /\ Unique(queue) => Unique(queue') /\ inHand' \notin InSeq(queue')
  BY <1>0, Taken
<1>2. inHand = Nothing /\ inHand' # Nothing
  BY <1>1 DEF WorkerInv
<1>3. AuditTypeOK'
  BY <1>0, <1>1 DEF AuditTypeOK
<1>4. WorkerInv'
  BY <1>0, <1>1, <1>2 DEF WorkerInv
<1>5. InMemory' = InMemory
  BY <1>1, <1>2 DEF InMemory, InHand
<1>6. PlacesInv'
  BY <1>1, <1>5 DEF PlacesInv
<1>7. InReach' = InReach
  BY <1>1, <1>2, <1>5 DEF InReach, InMemory, InHand
<1>8. EventsInv'
  BY <1>1, <1>5, <1>7 DEF EventsInv
<1>9. ReplayInv' /\ DeliveredOnce' /\ DurableKept'
  BY DEF ReplayInv, DeliveredOnce, DurableKept
<1>10. QED
  BY <1>3, <1>4, <1>6, <1>8, <1>9

\* The broker got the events in D once more.
Grown(D) ==
    /\ deliveries' \in [Events -> 0..(MaxCrashes + MaxRepeats + 2)]
    /\ \A x \in Events : deliveries'[x] = IF x \in D THEN deliveries[x] + 1 ELSE deliveries[x]

LEMMA ReachFacts ==
  ASSUME AuditTypeOK, NEW D, Reaches(D),
         \A x \in Events : x \in D => deliveries[x] <= crashes + repeats
  PROVE  Grown(D)
<1> USE AuditAssumption DEF AuditAssumption
<1>1. deliveries \in [Events -> Nat] /\ crashes \in 0..MaxCrashes /\ repeats \in 0..MaxRepeats
      /\ deliveries \in [Events -> 0..(MaxCrashes + MaxRepeats + 2)]
  BY DEF AuditTypeOK
<1>2. \A x \in Events : x \in D => deliveries[x] < MaxCrashes + MaxRepeats + 2
  BY <1>1
<1>3. \A x \in Events : deliveries'[x] = IF x \in D THEN deliveries[x] + 1 ELSE deliveries[x]
  BY <1>2 DEF Reaches
<1>4. \A x \in Events : deliveries'[x] \in 0..(MaxCrashes + MaxRepeats + 2)
  BY <1>1, <1>2, <1>3
<1>5. deliveries' = [x \in Events |-> deliveries'[x]]
  BY DEF Reaches
<1>6. QED
  BY <1>3, <1>4, <1>5 DEF Grown

LEMMA NoneReached ==
  ASSUME AuditTypeOK, deliveries' = deliveries
  PROVE  Grown({})
  BY DEF Grown, AuditTypeOK

\* A produce that failed: the broker has the event and it counts as a repeat, or
\* it does not.
Raised(D) ==
    /\ Grown(D)
    /\ repeats' \in 0..MaxRepeats /\ repeats' >= repeats
    /\ D # {} => repeats' > repeats

LEMMA RaiseFacts ==
  ASSUME AuditTypeOK, NEW e \in Events, deliveries[e] <= crashes + repeats, Raises(e)
  PROVE  \E D \in SUBSET {e} : Raised(D)
<1>1. repeats \in 0..MaxRepeats /\ MaxRepeats \in Nat
  BY AuditAssumption DEF AuditAssumption, AuditTypeOK
<1>2. CASE UNCHANGED broker
  <2>1. Grown({}) /\ repeats' = repeats
    BY <1>2, NoneReached DEF broker
  <2>2. Raised({})
    BY <1>1, <2>1 DEF Raised
  <2>3. QED
    BY <2>2
<1>3. CASE repeats < MaxRepeats /\ Reaches({e}) /\ repeats' = repeats + 1
  <2>1. Grown({e})
    BY <1>3, ReachFacts
  <2>2. Raised({e})
    BY <1>1, <1>3, <2>1 DEF Raised
  <2>3. QED
    BY <2>2
<1>4. QED
  BY <1>2, <1>3 DEF Raises

\* The event in hand is neither in the queue nor in the file, and has not been
\* delivered, lost or reported as durable.
LEMMA HandFacts ==
  ASSUME AuditInv, worker = "producing"
  PROVE  /\ inHand \in Events /\ inHand \in accepted
         /\ inHand \notin InSeq(queue) /\ inHand \notin InSeq(spool)
         /\ deliveries[inHand] = 0 /\ lost[inHand] = "no" /\ inHand \notin durable
         /\ unfinished = Len(queue) + 1
<1>1. inHand \in Events
  BY DEF AuditInv, AuditTypeOK, WorkerInv
<1>2. QED
  BY <1>1 DEF AuditInv, WorkerInv, PlacesInv, EventsInv, InMemory, InHand

\* What the worker's leaving its event changes but the event's fate.
LEMMA HandEmptied ==
  ASSUME AuditInv, worker = "producing", worker' \in {"none", "waiting", "dead"},
         inHand' = Nothing, unfinished' = unfinished - 1,
         stopper' \in {"out", "joining", "joined", "stopped"}, degraded' \in BOOLEAN,
         UNCHANGED <<queue, accepted, durable, crashes, replayVars>>
  PROVE  /\ WorkerInv'
         /\ queue' \in Seq(Events) /\ Len(queue') <= MaxQueue
         /\ unfinished' \in 0..(MaxQueue + 1)
         /\ InSeq(queue') = InSeq(queue) /\ Unique(queue')
         /\ InMemory' = InSeq(queue) /\ InSeq(queue) \subseteq Events
<1> USE AuditAssumption DEF AuditAssumption, AuditInv, replayVars
<1>1. queue \in Seq(Events) /\ Len(queue) \in 0..MaxQueue
  BY DEF AuditTypeOK
<1>2. unfinished' = Len(queue')
  BY <1>1, HandFacts
<1>3. WorkerInv'
  BY <1>1, <1>2 DEF WorkerInv
<1>4. InSeq(queue) \subseteq Events
  BY <1>1 DEF InSeq
<1>5. InMemory' = InSeq(queue)
  BY <1>4 DEF InMemory, InHand, InSeq
<1>6. QED
  BY <1>1, <1>2, <1>3, <1>4, <1>5 DEF PlacesInv, InSeq, Unique

\* The worker's event leaves it, to the broker or out of reach for a reason that
\* durable events do not have.
LEMMA HandLeaves ==
  ASSUME AuditInv, worker = "producing", worker' \in {"none", "waiting", "dead"},
         inHand' = Nothing, unfinished' = unfinished - 1,
         stopper' \in {"out", "joining", "joined", "stopped"}, degraded' \in BOOLEAN,
         NEW D \in SUBSET {inHand}, Grown(D),
         repeats' \in 0..MaxRepeats, repeats' >= repeats,
         NEW why \in {"spool_full", "disk", "cancelled"},
         lost' = [lost EXCEPT ![inHand] = IF inHand \in D THEN "no" ELSE why],
         UNCHANGED <<queue, spool, accepted, durable, crashes, replayVars>>
  PROVE  AuditInv'
<1>1. PICK e : e = inHand
  OBVIOUS
<1>2. /\ e \in Events /\ e \in accepted /\ e \notin InSeq(queue) /\ e \notin InSeq(spool)
      /\ deliveries[e] = 0 /\ e \notin durable
  BY <1>1, HandFacts
<1> USE AuditAssumption DEF AuditAssumption, AuditInv, replayVars
<1>3. /\ lost'[e] = IF e \in D THEN "no" ELSE why
      /\ \A x \in Events : x # e => lost'[x] = lost[x]
      /\ lost' \in [Events -> {"no", "spool_full", "disk", "overwritten", "truncated",
                               "cancelled", "crashed"}]
  BY <1>1, <1>2 DEF AuditTypeOK
<1>4. /\ deliveries'[e] = IF e \in D THEN 1 ELSE 0
      /\ \A x \in Events : x # e => deliveries'[x] = deliveries[x]
      /\ deliveries' \in [Events -> 0..(MaxCrashes + MaxRepeats + 2)]
  BY <1>1, <1>2 DEF Grown
<1>5. /\ WorkerInv' /\ queue' \in Seq(Events) /\ Len(queue') <= MaxQueue
      /\ unfinished' \in 0..(MaxQueue + 1)
      /\ InSeq(queue') = InSeq(queue) /\ Unique(queue')
      /\ InMemory' = InSeq(queue) /\ InSeq(queue) \subseteq Events
  BY HandEmptied
<1>6. InSeq(spool') = InSeq(spool) /\ Unique(spool) = Unique(spool')
  BY DEF InSeq, Unique
<1>7. AuditTypeOK'
  BY <1>3, <1>4, <1>5 DEF AuditTypeOK
<1>8. PlacesInv'
  <2>1. Nothing \notin InSeq(queue) \cup InSeq(spool)
    BY <1>5, NothingInSeq DEF AuditTypeOK
  <2>2. InMemory' \subseteq accepted
    BY <1>5 DEF PlacesInv, InMemory, InHand
  <2>3. QED
    BY <1>5, <1>6, <2>1, <2>2 DEF PlacesInv
<1>9. EventsInv'
  <2>1. \A x \in Events : x # e => (x \in InReach' <=> x \in InReach)
    BY <1>1, <1>4, <1>5, <1>6 DEF InReach, InMemory, InHand
  <2>2. e \in D => e \in InReach'
    BY <1>2, <1>4 DEF InReach
  <2>3. InMemory' \subseteq InMemory /\ e \notin InMemory' /\ e \notin InSeq(spool')
    BY <1>2, <1>5, <1>6 DEF InMemory, InHand
  <2>4. ASSUME NEW x \in Events
        PROVE  /\ x \notin accepted => deliveries'[x] = 0 /\ lost'[x] = "no"
               /\ x \in InMemory' => deliveries'[x] = 0 /\ lost'[x] = "no" /\ x \notin durable
               /\ x \in InSeq(spool') => lost'[x] = "no"
               /\ deliveries'[x] > 0 => lost'[x] = "no"
               /\ x \in accepted /\ lost'[x] = "no" => x \in InReach'
    <3>1. CASE x = e
      BY <1>2, <1>3, <1>4, <2>2, <2>3, <3>1
    <3>2. CASE x # e
      BY <1>3, <1>4, <1>6, <2>1, <2>3, <3>2 DEF EventsInv
    <3>3. QED
      BY <3>1, <3>2
  <2>5. QED
    BY <2>4 DEF EventsInv
<1>10. crashes \in Nat /\ repeats \in Nat /\ repeats' \in Nat /\ spool \in Seq(Events)
  BY DEF AuditTypeOK
<1>11. ReplayInv'
  <2>1. \A i \in 1..Len(spool) : spool[i] \in Events /\ deliveries'[spool[i]] = deliveries[spool[i]]
    BY <1>2, <1>4, <1>10 DEF InSeq
  <2>2. \A i \in 1..Len(spool) : deliveries[spool[i]] \in Nat
    BY <2>1 DEF AuditTypeOK
  <2>3. QED
    BY <1>10, <2>1, <2>2 DEF ReplayInv
<1>12. DeliveredOnce'
  <2>1. \A x \in Events : deliveries[x] \in Nat /\ deliveries[x] <= 1 + crashes + repeats
    BY DEF DeliveredOnce, AuditTypeOK
  <2> HIDE DEF AuditInv
  <2>2. ASSUME NEW x \in Events PROVE deliveries'[x] <= 1 + crashes + repeats'
    <3>1. CASE x = e
      BY <1>4, <1>10, <3>1
    <3>2. CASE x # e
      BY <1>4, <1>10, <2>1, <3>2
    <3>3. QED
      BY <3>1, <3>2
  <2>3. QED
    BY <2>2 DEF DeliveredOnce
<1>13. DurableKept'
  BY <1>2, <1>3 DEF DurableKept, AuditTypeOK
<1>14. QED
  BY <1>5, <1>7, <1>8, <1>9, <1>11, <1>12, <1>13

LEMMA ProducedStep == AuditInv /\ Produced => AuditInv'
<1> SUFFICES ASSUME AuditInv, Produced PROVE AuditInv'
  OBVIOUS
<1>1. /\ worker = "producing" /\ inHand \in Events /\ deliveries[inHand] = 0
      /\ lost[inHand] = "no"
  BY HandFacts DEF Produced
<1>2. /\ AuditTypeOK /\ crashes \in Nat /\ repeats \in Nat
      /\ repeats \in 0..MaxRepeats /\ repeats >= repeats /\ lost \in [Events -> {lost[x] : x \in Events}]
      /\ stopper \in {"out", "joining", "joined", "stopped"}
  BY DEF AuditInv, AuditTypeOK
<1>3. Grown({inHand})
  BY <1>1, <1>2, ReachFacts DEF Produced
<1>4. lost' = [lost EXCEPT ![inHand] = IF inHand \in {inHand} THEN "no" ELSE "disk"]
  BY <1>1, <1>2 DEF Produced
<1>5. /\ worker' = "waiting" /\ inHand' = Nothing /\ unfinished' = unfinished - 1
      /\ stopper' \in {"out", "joining", "joined", "stopped"} /\ degraded' \in BOOLEAN
      /\ UNCHANGED <<queue, spool, accepted, durable, crashes, replayVars>>
      /\ repeats' = repeats
  BY <1>2 DEF Produced, Done, TaskDone, history
<1>6. QED
  BY <1>1, <1>2, <1>3, <1>4, <1>5, HandLeaves

\* The worker's event goes to the file, whether the broker got it or not.
LEMMA HandSpooled ==
  ASSUME AuditInv, worker = "producing", Len(spool) < MaxSpool, spool' = Append(spool, inHand),
         NEW D \in SUBSET {inHand}, Raised(D),
         degraded' = TRUE, Done, UNCHANGED <<lost, replayVars, history>>
  PROVE  AuditInv'
<1>1. PICK e : e = inHand
  OBVIOUS
<1>2. /\ e \in Events /\ e \in accepted /\ e \notin InSeq(queue) /\ e \notin InSeq(spool)
      /\ deliveries[e] = 0 /\ lost[e] = "no"
  BY <1>1, HandFacts
<1> USE AuditAssumption DEF AuditAssumption, AuditInv, Done, TaskDone, replayVars, history
<1>3. /\ spool \in Seq(Events) /\ Len(spool) \in Nat
      /\ crashes \in Nat /\ repeats \in Nat /\ repeats' \in Nat /\ repeats' >= repeats
  BY DEF AuditTypeOK, Raised
<1>4. /\ spool' \in Seq(Events) /\ Len(spool') = Len(spool) + 1
      /\ InSeq(spool') = InSeq(spool) \cup {e} /\ Unique(spool')
      /\ \A i \in 1..Len(spool) : spool'[i] = spool[i]
      /\ spool'[Len(spool) + 1] = e
  BY <1>1, <1>2, <1>3, AppendFacts DEF PlacesInv
<1>5. /\ WorkerInv' /\ queue' \in Seq(Events) /\ Len(queue') <= MaxQueue
      /\ unfinished' \in 0..(MaxQueue + 1)
      /\ InSeq(queue') = InSeq(queue) /\ Unique(queue')
      /\ InMemory' = InSeq(queue) /\ InSeq(queue) \subseteq Events
  <2>1. stopper' \in {"out", "joining", "joined", "stopped"}
    BY DEF AuditTypeOK
  <2>2. QED
    BY <2>1, HandEmptied
<1>a. /\ deliveries'[e] \in {0, 1} /\ deliveries'[e] <= repeats'
      /\ \A x \in Events : x # e => deliveries'[x] = deliveries[x]
      /\ deliveries' \in [Events -> 0..(MaxCrashes + MaxRepeats + 2)]
  <2>1. /\ deliveries'[e] = IF e \in D THEN 1 ELSE 0
        /\ \A x \in Events : x # e => deliveries'[x] = deliveries[x]
        /\ deliveries' \in [Events -> 0..(MaxCrashes + MaxRepeats + 2)]
    BY <1>1, <1>2 DEF Raised, Grown
  <2>2. e \in D => repeats' >= 1
    BY <1>3 DEF Raised
  <2>3. QED
    BY <1>3, <2>1, <2>2
<1>6. AuditTypeOK'
  <2>1. spool' \in Seq(Events) /\ Len(spool') <= MaxSpool
    BY <1>3, <1>4 DEF AuditTypeOK
  <2>2. readUpTo' \in 0..Len(spool') /\ next' \in 0..readUpTo'
    BY <1>3, <1>4 DEF AuditTypeOK
  <2>3. repeats' \in 0..MaxRepeats
    BY DEF Raised
  <2>4. QED
    BY <1>5, <1>a, <2>1, <2>2, <2>3 DEF AuditTypeOK
<1>7. PlacesInv'
  <2>1. Nothing \notin InSeq(queue) \cup InSeq(spool')
    BY <1>4, <1>5, NothingInSeq
  <2>2. InMemory' \subseteq accepted /\ InSeq(spool') \subseteq accepted
    BY <1>2, <1>4, <1>5 DEF PlacesInv, InMemory, InHand
  <2>3. InSeq(queue') \cap InSeq(spool') = {}
    BY <1>2, <1>4, <1>5 DEF PlacesInv
  <2>4. QED
    BY <1>4, <1>5, <2>1, <2>2, <2>3 DEF PlacesInv
<1>8. InMemory' \subseteq InMemory /\ e \notin InMemory' /\ e \in InReach'
  BY <1>2, <1>4, <1>5 DEF InReach, InMemory, InHand
<1>9. EventsInv'
  <2>1. \A x \in Events : x # e => (x \in InReach' <=> x \in InReach)
    BY <1>1, <1>4, <1>5, <1>a DEF InReach, InMemory, InHand
  <2>2. ASSUME NEW x \in Events
        PROVE  /\ x \notin accepted => deliveries'[x] = 0 /\ lost[x] = "no"
               /\ x \in InMemory' => deliveries'[x] = 0 /\ lost[x] = "no" /\ x \notin durable
               /\ x \in InSeq(spool') => lost[x] = "no"
               /\ deliveries'[x] > 0 => lost[x] = "no"
               /\ x \in accepted /\ lost[x] = "no" => x \in InReach'
    <3>1. CASE x = e
      BY <1>2, <1>8, <3>1
    <3>2. CASE x # e
      BY <1>4, <1>8, <1>a, <2>1, <3>2 DEF EventsInv
    <3>3. QED
      BY <3>1, <3>2
  <2>3. QED
    BY <2>2 DEF EventsInv
<1>10. ReplayInv'
  <2>1. next <= Len(spool) /\ next \in Nat
    BY <1>3 DEF AuditTypeOK
  <2>0. \A i \in 1..Len(spool) : spool[i] \in Events /\ spool[i] # e
    BY <1>2, <1>3 DEF InSeq
  <2>6. \A x \in Events : /\ deliveries[x] \in Nat
                          /\ x # e => deliveries'[x] = deliveries[x]
    BY <1>a DEF AuditTypeOK
  <2>2. \A i \in 1..Len(spool) : /\ deliveries'[spool[i]] = deliveries[spool[i]]
                                 /\ deliveries[spool[i]] \in Nat
    BY ONLY <2>0, <2>6
  <2>3. ASSUME NEW i \in 1..Len(spool')
        PROVE  /\ i >= next => deliveries'[spool'[i]] <= crashes + repeats'
               /\ i < next => deliveries'[spool'[i]] > 0
    <3>1. CASE i \in 1..Len(spool)
      BY <1>3, <1>4, <2>2, <3>1 DEF ReplayInv
    <3>2. CASE i = Len(spool) + 1
      BY <1>3, <1>4, <1>a, <2>1, <3>2
    <3>3. QED
      BY <1>3, <1>4, <3>1, <3>2
  <2>4. readUpTo = 0 <=> next = 0
    BY DEF ReplayInv
  <2>5. QED
    BY <2>3, <2>4 DEF ReplayInv
<1>11. DeliveredOnce' /\ DurableKept'
  <2>1. \A x \in Events : deliveries[x] \in Nat /\ deliveries[x] <= 1 + crashes + repeats
    BY DEF DeliveredOnce, AuditTypeOK
  <2>0. DurableKept'
    BY DEF DurableKept
  <2> HIDE DEF AuditInv
  <2>2. ASSUME NEW x \in Events PROVE deliveries'[x] <= 1 + crashes + repeats'
    <3>1. CASE x = e
      BY <1>3, <1>a, <3>1
    <3>2. CASE x # e
      BY <1>3, <1>a, <2>1, <3>2
    <3>3. QED
      BY <3>1, <3>2
  <2>3. QED
    BY <2>0, <2>2 DEF DeliveredOnce
<1>12. QED
  BY <1>5, <1>6, <1>7, <1>9, <1>10, <1>11

\* What Lose does to the event in hand.
LEMMA HandLoses ==
  ASSUME AuditInv, worker = "producing", NEW D \in SUBSET {inHand}, Grown(D),
         NEW why, Lose({inHand}, why)
  PROVE  lost' = [lost EXCEPT ![inHand] = IF inHand \in D THEN "no" ELSE why]
<1>1. inHand \in Events /\ deliveries[inHand] = 0 /\ lost[inHand] = "no"
  BY HandFacts
<1>2. deliveries'[inHand] = 0 <=> inHand \notin D
  BY <1>1 DEF Grown
<1>3. lost = [x \in Events |-> lost[x]]
  BY DEF AuditInv, AuditTypeOK
<1>4. QED
  BY <1>1, <1>2, <1>3 DEF Lose

LEMMA ProduceFailsStep == AuditInv /\ ProduceFails => AuditInv'
<1> SUFFICES ASSUME AuditInv, ProduceFails PROVE AuditInv'
  OBVIOUS
<1>1. /\ worker = "producing" /\ inHand \in Events /\ deliveries[inHand] = 0
      /\ AuditTypeOK /\ crashes \in Nat /\ repeats \in Nat
  BY HandFacts DEF ProduceFails, AuditInv, AuditTypeOK
<1>2. PICK D \in SUBSET {inHand} : Raised(D)
  BY <1>1, RaiseFacts DEF ProduceFails
<1>3. CASE Len(spool) < MaxSpool
  BY <1>1, <1>2, <1>3, HandSpooled DEF ProduceFails
<1>4. CASE ~(Len(spool) < MaxSpool)
  <2>1. /\ worker' = "waiting" /\ inHand' = Nothing /\ unfinished' = unfinished - 1
        /\ stopper' \in {"out", "joining", "joined", "stopped"} /\ degraded' \in BOOLEAN
        /\ UNCHANGED <<queue, spool, accepted, durable, crashes, replayVars>>
        /\ Lose({inHand}, "spool_full")
    BY <1>1, <1>4 DEF ProduceFails, Done, TaskDone, history, AuditTypeOK
  <2>2. lost' = [lost EXCEPT ![inHand] = IF inHand \in D THEN "no" ELSE "spool_full"]
    BY <1>1, <1>2, <2>1, HandLoses DEF Raised
  <2>3. QED
    BY <1>1, <1>2, <2>1, <2>2, HandLeaves DEF Raised
<1>5. QED
  BY <1>3, <1>4

LEMMA SpoolBreaksStep == AuditInv /\ SpoolBreaks => AuditInv'
<1> SUFFICES ASSUME AuditInv, SpoolBreaks PROVE AuditInv'
  OBVIOUS
<1>1. /\ worker = "producing" /\ inHand \in Events /\ deliveries[inHand] = 0
      /\ AuditTypeOK /\ crashes \in Nat /\ repeats \in Nat
  BY HandFacts DEF SpoolBreaks, AuditInv, AuditTypeOK
<1>2. PICK D \in SUBSET {inHand} : Raised(D)
  BY <1>1, RaiseFacts DEF SpoolBreaks
<1>3. /\ worker' = "dead" /\ inHand' = Nothing /\ unfinished' = unfinished - 1
      /\ stopper' \in {"out", "joining", "joined", "stopped"} /\ degraded' \in BOOLEAN
      /\ UNCHANGED <<queue, spool, accepted, durable, crashes, replayVars>>
      /\ Lose({inHand}, "disk")
  BY <1>1 DEF SpoolBreaks, TaskDone, history, AuditTypeOK
<1>4. lost' = [lost EXCEPT ![inHand] = IF inHand \in D THEN "no" ELSE "disk"]
  BY <1>1, <1>2, <1>3, HandLoses DEF Raised
<1>5. QED
  BY <1>1, <1>2, <1>3, <1>4, HandLeaves DEF Raised

-----------------------------------------------------------------------------
(* stop *)

LEMMA StopStep == AuditInv /\ Stop => AuditInv'
<1> SUFFICES ASSUME AuditInv, Stop PROVE AuditInv'
  OBVIOUS
<1>1. AuditTypeOK'
  BY DEF AuditInv, AuditTypeOK, Stop, replayVars, broker, history
<1>2. worker' = "producing" <=> worker = "producing"
  <2>1. CASE unfinished = 0
    <3>1. Len(queue) \in Nat
      BY DEF AuditInv, AuditTypeOK
    <3>2. worker # "producing"
      BY <2>1, <3>1 DEF AuditInv, WorkerInv
    <3>3. QED
      BY <2>1, <3>2 DEF Stop
  <2>2. CASE unfinished # 0
    BY <2>2 DEF Stop
  <2>3. QED
    BY <2>1, <2>2
<1>3. QED
  BY <1>1, <1>2, QuietStep DEF Stop

LEMMA CancelWorkerStep == AuditInv /\ CancelWorker => AuditInv'
<1> SUFFICES ASSUME AuditInv, CancelWorker PROVE AuditInv'
  OBVIOUS
<1>0. PICK D \in SUBSET InHand : Reaches(D)
  BY DEF CancelWorker
<1>a. /\ AuditTypeOK /\ crashes \in Nat /\ repeats \in Nat /\ repeats \in 0..MaxRepeats
  BY DEF AuditInv, AuditTypeOK
<1>1. CASE worker = "producing"
  <2>1. inHand \in Events /\ deliveries[inHand] = 0 /\ InHand = {inHand}
    BY <1>1, HandFacts DEF InHand
  <2>2. Grown(D)
    BY <1>0, <1>a, <2>1, ReachFacts
  <2>3. /\ worker' = "none" /\ inHand' = Nothing /\ unfinished' = unfinished - 1
        /\ stopper' \in {"out", "joining", "joined", "stopped"} /\ degraded' \in BOOLEAN
        /\ UNCHANGED <<queue, spool, accepted, durable, crashes, replayVars>>
        /\ Lose({inHand}, "cancelled") /\ repeats' = repeats /\ repeats' >= repeats
    BY <1>1, <1>a, <2>1 DEF CancelWorker, history, AuditTypeOK
  <2>4. lost' = [lost EXCEPT ![inHand] = IF inHand \in D THEN "no" ELSE "cancelled"]
    BY <1>0, <1>1, <2>1, <2>2, <2>3, HandLoses
  <2>5. QED
    BY <1>0, <1>1, <1>a, <2>1, <2>2, <2>3, <2>4, HandLeaves
<1>2. CASE worker # "producing"
  <2>1. inHand = Nothing /\ inHand' = inHand
    BY <1>2 DEF CancelWorker, AuditInv, WorkerInv
  <2>2. InHand = {} /\ D = {}
    BY <1>0, <2>1, AuditAssumption DEF AuditAssumption, InHand
  <2>3. lost' = lost
    BY <2>2 DEF CancelWorker, Lose, AuditInv, AuditTypeOK
  <2>4. deliveries' = deliveries
    BY <1>0, <2>2 DEF Reaches, AuditInv, AuditTypeOK
  <2>5. AuditTypeOK'
    BY <1>2, <2>1, <2>3, <2>4 DEF CancelWorker, AuditInv, AuditTypeOK, replayVars, history
  <2>6. QED
    BY <1>2, <2>1, <2>3, <2>4, <2>5, QuietStep DEF CancelWorker, broker
<1>3. QED
  BY <1>1, <1>2

-----------------------------------------------------------------------------
(* replay_to *)

LEMMA ReplayStep == AuditInv /\ Replay => AuditInv'
<1> SUFFICES ASSUME AuditInv, Replay PROVE AuditInv'
  OBVIOUS
<1> USE DEF AuditInv, Replay, memory, broker, history
<1>1. spool \in Seq(Events) /\ Len(spool) \in Nat /\ Len(spool) > 0
  BY DEF AuditTypeOK
<1>2. AuditTypeOK'
  BY <1>1 DEF AuditTypeOK
<1>3. ReplayInv'
  BY <1>1 DEF ReplayInv
<1>4. WorkerInv'
  BY DEF WorkerInv
<1>6. InReach' = InReach /\ InMemory' = InMemory /\ InSeq(spool)' = InSeq(spool)
      /\ InSeq(queue)' = InSeq(queue)
  BY DEF InReach, InMemory, InHand, InSeq
<1>5. PlacesInv'
  <2>1. Unique(queue)' /\ Unique(spool)'
    BY DEF PlacesInv, Unique
  <2>2. QED
    BY <1>6, <2>1 DEF PlacesInv
<1>7. EventsInv' /\ DeliveredOnce' /\ DurableKept'
  BY <1>6 DEF EventsInv, DeliveredOnce, DurableKept
<1>8. QED
  BY <1>2, <1>3, <1>4, <1>5, <1>7

\* The event at the replay's position.
LEMMA AtPosition ==
  ASSUME AuditInv, readUpTo # 0
  PROVE  /\ next \in 1..Len(spool) /\ next <= readUpTo
         /\ spool[next] \in Events /\ spool[next] \in InSeq(spool)
         /\ spool[next] \in accepted /\ lost[spool[next]] = "no" /\ spool[next] \notin InMemory
         /\ deliveries[spool[next]] \in Nat /\ deliveries[spool[next]] <= crashes + repeats
         /\ \A i \in 1..Len(spool) : spool[i] = spool[next] => i = next
<1> USE DEF AuditInv
<1>1. spool \in Seq(Events) /\ Len(spool) \in Nat
  BY DEF AuditTypeOK
<1>2. next \in 1..Len(spool) /\ next <= readUpTo
  BY <1>1 DEF AuditTypeOK, ReplayInv
<1>3. spool[next] \in Events /\ spool[next] \in InSeq(spool)
  BY <1>1, <1>2 DEF InSeq
<1>4. spool[next] \in accepted /\ lost[spool[next]] = "no" /\ spool[next] \notin InMemory
  BY <1>3 DEF PlacesInv, EventsInv, InMemory, InHand
<1>5. deliveries[spool[next]] \in Nat /\ deliveries[spool[next]] <= crashes + repeats
  BY <1>2, <1>3 DEF ReplayInv, AuditTypeOK
<1>6. QED
  BY <1>2, <1>3, <1>4, <1>5 DEF PlacesInv, Unique

\* What the broker gets of the file's events, they stay where they are.
LEMMA FileDelivered ==
  ASSUME AuditInv, readUpTo # 0, NEW D \in SUBSET {spool[next]}, Grown(D),
         UNCHANGED <<queue, inHand, spool, lost, accepted, durable>>
  PROVE  PlacesInv' /\ EventsInv' /\ DurableKept'
<1>1. PICK e : e = spool[next]
  OBVIOUS
<1>2. /\ e \in Events /\ e \in InSeq(spool) /\ e \in accepted /\ lost[e] = "no"
      /\ e \notin InMemory /\ deliveries[e] \in Nat
  BY <1>1, AtPosition
<1> USE DEF AuditInv
<1>3. /\ \A x \in Events : x # e => deliveries'[x] = deliveries[x]
      /\ D \in SUBSET {e}
  BY <1>1 DEF Grown
<1>4. InMemory' = InMemory /\ InSeq(spool)' = InSeq(spool) /\ InSeq(queue)' = InSeq(queue)
      /\ Unique(queue)' = Unique(queue) /\ Unique(spool)' = Unique(spool)
  BY DEF InMemory, InHand, InSeq, Unique
<1>5. \A x \in Events : x \in InReach' <=> x \in InReach
  <2>1. ASSUME NEW x \in Events PROVE x \in InReach' <=> x \in InReach
    <3>1. CASE x = e
      BY <1>2, <1>4, <3>1 DEF InReach
    <3>2. CASE x # e
      BY <1>3, <1>4, <3>2 DEF InReach
    <3>3. QED
      BY <3>1, <3>2
  <2>2. QED
    BY <2>1
<1>6. PlacesInv'
  BY <1>4 DEF PlacesInv
<1>7. EventsInv'
  BY <1>2, <1>3, <1>4, <1>5 DEF EventsInv
<1>8. DurableKept'
  BY DEF DurableKept
<1>9. QED
  BY <1>6, <1>7, <1>8

\* One delivery more of the event at the position keeps the bound.
LEMMA StillOnce ==
  ASSUME AuditInv, readUpTo # 0, NEW D \in SUBSET {spool[next]}, Grown(D)
  PROVE  \A x \in Events : /\ deliveries'[x] <= 1 + crashes + repeats
                           /\ deliveries'[x] >= deliveries[x]
<1>1. /\ spool[next] \in Events /\ deliveries[spool[next]] \in Nat
      /\ deliveries[spool[next]] <= crashes + repeats
  BY AtPosition
<1>2. crashes \in Nat /\ repeats \in Nat
      /\ \A x \in Events : deliveries[x] \in Nat /\ deliveries[x] <= 1 + crashes + repeats
  BY DEF AuditInv, AuditTypeOK, DeliveredOnce
<1>3. \A x \in Events : /\ x \in D => x = spool[next]
                        /\ deliveries'[x] = IF x \in D THEN deliveries[x] + 1 ELSE deliveries[x]
  BY DEF Grown
<1>4. QED
  BY <1>1, <1>2, <1>3

LEMMA ReplayOneGoesOn ==
  ASSUME AuditInv, ReplayOne, next < readUpTo
  PROVE  AuditInv'
<1>0. /\ readUpTo # 0 /\ Reaches({spool[next]}) /\ next' = next + 1 /\ repeats' = repeats
      /\ UNCHANGED <<readUpTo, spool, lost, queue, unfinished, worker, inHand, degraded, stopper,
                     accepted, durable, crashes>>
  BY DEF ReplayOne, memory, history
<1>1. PICK e : e = spool[next]
  OBVIOUS
<1>2. /\ next \in 1..Len(spool) /\ next <= readUpTo /\ e \in Events
      /\ deliveries[e] \in Nat /\ deliveries[e] <= crashes + repeats
      /\ \A i \in 1..Len(spool) : spool[i] = e => i = next
  BY <1>0, <1>1, AtPosition
<1>3. /\ AuditTypeOK /\ spool \in Seq(Events) /\ Len(spool) \in Nat
  BY DEF AuditInv, AuditTypeOK
<1>4. Grown({spool[next]})
  BY <1>0, <1>1, <1>2, <1>3, ReachFacts
<1>5. PlacesInv' /\ EventsInv' /\ DurableKept'
  BY <1>0, <1>4, FileDelivered
<1>6. AuditTypeOK'
  <2>1. next' \in 0..readUpTo
    BY <1>0, <1>2, <1>3 DEF AuditTypeOK
  <2>2. QED
    BY <1>0, <1>3, <1>4, <2>1 DEF AuditTypeOK, Grown
<1>7. WorkerInv'
  BY <1>0 DEF AuditInv, WorkerInv
<1>8. ReplayInv'
  <2>1. /\ deliveries'[e] = deliveries[e] + 1
        /\ \A i \in 1..Len(spool) : i # next => deliveries'[spool[i]] = deliveries[spool[i]]
    BY <1>1, <1>2, <1>3, <1>4 DEF Grown
  <2>2. ASSUME NEW i \in 1..Len(spool)
        PROVE  /\ i >= next' => deliveries'[spool[i]] <= crashes + repeats
               /\ i < next' => deliveries'[spool[i]] > 0
    <3>1. CASE i = next
      BY <1>0, <1>1, <1>2, <2>1, <3>1
    <3>2. CASE i # next
      <4>1. (i >= next' => i >= next) /\ (i < next' => i < next)
        BY <1>0, <1>2, <3>2
      <4>2. QED
        BY <2>1, <3>2, <4>1 DEF AuditInv, ReplayInv
    <3>3. QED
      BY <3>1, <3>2
  <2>3. next' # 0
    BY <1>0, <1>2
  <2>4. QED
    BY <1>0, <2>2, <2>3 DEF ReplayInv
<1>9. DeliveredOnce'
  BY <1>0, <1>4, StillOnce DEF DeliveredOnce
<1>10. QED
  BY <1>5, <1>6, <1>7, <1>8, <1>9 DEF AuditInv

\* A cancelled replay leaves the file as it is, with what it has delivered.
LEMMA CancelReplayStep == AuditInv /\ CancelReplay => AuditInv'
<1> SUFFICES ASSUME AuditInv, CancelReplay PROVE AuditInv'
  OBVIOUS
<1>0. /\ readUpTo # 0 /\ repeats < MaxRepeats /\ repeats' = repeats + 1
      /\ readUpTo' = 0 /\ next' = 0
      /\ UNCHANGED <<spool, lost, queue, unfinished, worker, inHand, degraded, stopper,
                     accepted, durable, crashes>>
  BY DEF CancelReplay, memory, history
<1>1. PICK D \in SUBSET {spool[next]} : Reaches(D)
  BY <1>0 DEF CancelReplay, Replayed
<1>2. /\ AuditTypeOK /\ spool \in Seq(Events) /\ Len(spool) \in Nat
      /\ crashes \in Nat /\ repeats \in Nat /\ MaxRepeats \in Nat
  BY AuditAssumption DEF AuditAssumption, AuditInv, AuditTypeOK
<1>3. Grown(D)
  BY <1>0, <1>1, <1>2, AtPosition, ReachFacts
<1>4. PlacesInv' /\ EventsInv' /\ DurableKept'
  BY <1>0, <1>3, FileDelivered
<1>5. AuditTypeOK'
  <2>1. repeats' \in 0..MaxRepeats /\ readUpTo' \in 0..Len(spool') /\ next' \in 0..readUpTo'
    BY <1>0, <1>2
  <2>2. QED
    BY <1>0, <1>2, <1>3, <2>1 DEF AuditTypeOK, Grown
<1>6. WorkerInv'
  BY <1>0 DEF AuditInv, WorkerInv
<1>7. \A x \in Events : deliveries'[x] \in Nat /\ deliveries'[x] <= 1 + crashes + repeats
  BY <1>0, <1>3, StillOnce DEF Grown
<1>8. ReplayInv'
  <2>1. \A i \in 1..Len(spool) : i \in Nat \ {0} /\ spool[i] \in Events
    BY <1>2
  <2>2. \A i \in 1..Len(spool) : deliveries'[spool[i]] <= crashes + repeats' /\ ~(i < next')
    BY <1>0, <1>2, <1>7, <2>1
  <2>3. QED
    BY <1>0, <2>2 DEF ReplayInv
<1>9. DeliveredOnce'
  <2>1. \A x \in Events : deliveries'[x] <= 1 + crashes + repeats'
    BY <1>0, <1>2, <1>7
  <2>2. QED
    BY <1>0, <2>1 DEF DeliveredOnce
<1>10. QED
  BY <1>4, <1>5, <1>6, <1>8, <1>9 DEF AuditInv

\* What is written back: nothing of what the file gained since the replay read it.
LEMMA ReplaceFacts ==
  ASSUME AuditInv, readUpTo # 0, NEW rest, Replace(rest)
  PROVE  /\ readUpTo' = 0 /\ next' = 0 /\ spool' = rest
         /\ lost' \in [Events -> {"no", "spool_full", "disk", "overwritten", "truncated",
                                  "cancelled", "crashed"}]
         /\ \A i \in 1..Len(spool) : i <= readUpTo => lost'[spool[i]] = "no"
         /\ \A i \in 1..Len(spool) : i > readUpTo =>
               lost'[spool[i]] = IF deliveries'[spool[i]] = 0 THEN "overwritten" ELSE "no"
         /\ \A x \in Events : x \notin InSeq(spool) => lost'[x] = lost[x]
         /\ \A x \in Events : lost'[x] \in {lost[x], "overwritten"}
<1>0. spool \in Seq(Events) /\ Len(spool) \in Nat /\ readUpTo \in 1..Len(spool)
  BY DEF AuditInv, AuditTypeOK
<1>1. PICK E : E = Part(spool, readUpTo + 1, Len(spool))
  OBVIOUS
<1>2. InSeq(SubSeq(spool, readUpTo + 1, Len(spool))) = E
  BY <1>0, <1>1, Sliced
<1>3. lost' = [x \in Events |-> IF x \in E /\ deliveries'[x] = 0 THEN "overwritten" ELSE lost[x]]
  BY <1>2 DEF Replace, Lose
<1>4. \A i \in 1..Len(spool) : i > readUpTo => spool[i] \in E /\ spool[i] \in Events
  BY <1>0, <1>1 DEF Part
<1>5. \A i \in 1..Len(spool) : i <= readUpTo => spool[i] \notin E /\ spool[i] \in Events
  <2>1. ASSUME NEW i \in 1..Len(spool), i <= readUpTo, spool[i] \in E PROVE FALSE
    <3>1. PICK j \in (readUpTo + 1)..Len(spool) : spool[i] = spool[j]
      BY <1>1, <2>1 DEF Part
    <3>2. j \in 1..Len(spool) /\ j # i
      BY <1>0, <2>1, <3>1
    <3>3. QED
      BY <2>1, <3>1, <3>2 DEF AuditInv, PlacesInv, Unique
  <2>2. QED
    BY <1>0, <2>1
<1>6. E \subseteq InSeq(spool)
  BY <1>0, <1>1 DEF InSeq, Part
<1>7. \A i \in 1..Len(spool) : lost[spool[i]] = "no"
  BY <1>0 DEF AuditInv, EventsInv, InSeq
<1>9. lost' \in [Events -> {"no", "spool_full", "disk", "overwritten", "truncated",
                            "cancelled", "crashed"}]
  BY <1>3 DEF AuditInv, AuditTypeOK
<1>10. QED
  BY <1>3, <1>4, <1>5, <1>6, <1>7, <1>9 DEF Replace

\* A replay ends at position n with rest to be written back: what is before n has
\* been delivered.
WrittenBack(rest, n) ==
    /\ rest \in Seq(Events) /\ Len(rest) <= Len(spool) /\ Unique(rest)
    /\ InSeq(rest) = Part(spool, n, readUpTo)

DeliveredUpTo(n) ==
    /\ deliveries' \in [Events -> 0..(MaxCrashes + MaxRepeats + 2)]
    /\ repeats' \in 0..MaxRepeats
    /\ \A x \in Events : deliveries'[x] <= 1 + crashes + repeats'
    /\ \A x \in Events : x \notin InSeq(spool) => deliveries'[x] = deliveries[x]
    /\ \A i \in 1..readUpTo : i < n => deliveries'[spool[i]] > 0
    /\ \A i \in n..readUpTo : deliveries'[spool[i]] <= crashes + repeats'

\* The end of a replay, whether it got through or not.
LEMMA ReplayEnds ==
  ASSUME AuditInv, readUpTo # 0, NEW rest, Replace(rest), NEW n \in 1..(readUpTo + 1),
         WrittenBack(rest, n), DeliveredUpTo(n), UNCHANGED <<memory, stopper, history>>
  PROVE  AuditInv'
<1>0. /\ spool \in Seq(Events) /\ Len(spool) \in Nat /\ readUpTo \in 1..Len(spool)
      /\ deliveries \in [Events -> Nat] /\ crashes \in Nat /\ Len(spool) <= MaxSpool
      /\ queue \in Seq(Events) /\ n \in Nat \ {0}
  BY DEF AuditInv, AuditTypeOK
<1>a. \A i \in 1..Len(spool) : spool[i] \in Events
  BY <1>0
<1>b. Unique(spool)
  BY DEF AuditInv, PlacesInv
<1>c. \A i \in n..readUpTo : i \in 1..Len(spool) /\ i >= n
  BY <1>0
<1>d. \A i, j \in 1..Len(spool) : i # j => spool[i] # spool[j]
  BY <1>b DEF Unique
<1>e. \A i \in 1..readUpTo : i \in 1..Len(spool) /\ i \in Nat
  BY <1>0
<1>1. /\ readUpTo' = 0 /\ next' = 0 /\ spool' = rest
      /\ lost' \in [Events -> {"no", "spool_full", "disk", "overwritten", "truncated",
                               "cancelled", "crashed"}]
      /\ \A i \in 1..Len(spool) : i <= readUpTo => lost'[spool[i]] = "no"
      /\ \A i \in 1..Len(spool) : i > readUpTo =>
            lost'[spool[i]] = IF deliveries'[spool[i]] = 0 THEN "overwritten" ELSE "no"
      /\ \A x \in Events : x \notin InSeq(spool) => lost'[x] = lost[x]
      /\ \A x \in Events : lost'[x] \in {lost[x], "overwritten"}
  BY ReplaceFacts
<1>2. /\ InSeq(queue)' = InSeq(queue) /\ InMemory' = InMemory /\ Unique(queue)' = Unique(queue)
      /\ InSeq(spool)' = InSeq(rest) /\ Unique(spool)' = Unique(rest)
  <2>1. queue' = queue /\ inHand' = inHand /\ spool' = rest
    BY <1>1 DEF memory
  <2>2. InSeq(queue)' = InSeq(queue) /\ Unique(queue)' = Unique(queue)
    BY <2>1 DEF InSeq, Unique
  <2>3. InSeq(spool)' = InSeq(rest) /\ Unique(spool)' = Unique(rest)
    BY <2>1 DEF InSeq, Unique
  <2>4. QED
    BY <2>1, <2>2, <2>3 DEF InMemory, InHand
<1>3. InSeq(rest) \subseteq InSeq(spool)
  <2>1. Part(spool, n, readUpTo) \subseteq InSeq(spool)
    BY <1>c DEF InSeq, Part
  <2>2. QED
    BY <2>1 DEF WrittenBack
<1>4. AuditTypeOK'
  <2>1. Len(rest) \in Nat /\ Len(rest) <= MaxSpool
    BY <1>0, AuditAssumption DEF AuditAssumption, WrittenBack
  <2>2. /\ UNCHANGED <<queue, unfinished, worker, inHand, degraded, stopper>>
        /\ UNCHANGED <<accepted, durable, crashes>>
        /\ spool' \in Seq(Events) /\ Len(spool') <= MaxSpool
        /\ readUpTo' \in 0..Len(spool') /\ next' \in 0..readUpTo'
    BY <1>1, <2>1 DEF memory, history, WrittenBack
  <2>3. QED
    BY <1>1, <2>2 DEF AuditInv, AuditTypeOK, DeliveredUpTo
<1>5. WorkerInv'
  BY DEF AuditInv, WorkerInv, memory
<1>6. PlacesInv'
  <2>1. inHand' = inHand /\ accepted' = accepted /\ Unique(rest)
    BY DEF memory, history, WrittenBack
  <2>2. QED
    BY <1>2, <1>3, <2>1 DEF AuditInv, PlacesInv
\* Each event of the file is written back, was delivered, or is overwritten.
<1>7. ASSUME NEW x \in InSeq(spool)
      PROVE  \/ x \in InSeq(rest) /\ lost'[x] = "no"
             \/ deliveries'[x] > 0 /\ lost'[x] = "no"
             \/ x \notin InSeq(rest) /\ deliveries'[x] = 0 /\ lost'[x] = "overwritten"
  <2>1. PICK i \in 1..Len(spool) : x = spool[i]
    BY DEF InSeq
  <2>0. x \in InSeq(rest) <=> \E j \in n..readUpTo : x = spool[j]
    BY DEF WrittenBack, Part
  <2>2. CASE i <= readUpTo /\ i >= n
    <3>1. i \in n..readUpTo
      BY <1>0, <2>2
    <3>2. QED
      BY <1>1, <2>0, <2>1, <2>2, <3>1
  <2>3. CASE i < n /\ i <= readUpTo
    <3>1. i \in 1..readUpTo
      BY <1>0, <2>3
    <3>2. QED
      BY <1>1, <2>1, <2>3, <3>1 DEF DeliveredUpTo
  <2>4. CASE i > readUpTo
    <3>1. \A j \in 1..readUpTo : j # i
      BY <1>0, <2>4
    <3>2. \A j \in n..readUpTo : j # i
      BY <1>0, <2>4
    <3>3. x \notin InSeq(rest)
      BY <1>c, <1>d, <2>0, <2>1, <3>2
    <3>4. deliveries'[x] \in Nat
      BY <1>a, <2>1 DEF DeliveredUpTo
    <3>5. QED
      BY <1>1, <2>1, <2>4, <3>3, <3>4
  <2>5. QED
    BY <1>0, <2>1, <2>2, <2>3, <2>4
<1>8. ASSUME NEW x \in Events, x \notin InSeq(spool)
      PROVE  deliveries'[x] = deliveries[x] /\ lost'[x] = lost[x] /\ x \notin InSeq(rest)
  BY <1>1, <1>3, <1>8 DEF DeliveredUpTo
<1>9. EventsInv'
  <2>1. ASSUME NEW x \in Events
        PROVE  /\ x \notin accepted => deliveries'[x] = 0 /\ lost'[x] = "no"
               /\ x \in InMemory => deliveries'[x] = 0 /\ lost'[x] = "no" /\ x \notin durable
               /\ x \in InSeq(rest) => lost'[x] = "no"
               /\ deliveries'[x] > 0 => lost'[x] = "no"
               /\ x \in accepted /\ lost'[x] = "no" =>
                     x \in InSeq(queue) \cup InHand \cup InSeq(rest)
                           \cup {y \in Events : deliveries'[y] > 0}
    <3>1. CASE x \in InSeq(spool)
      <4>1. x \in accepted /\ x \notin InMemory
        BY <3>1 DEF AuditInv, PlacesInv, InMemory, InHand
      <4>2. QED
        BY <1>0, <1>7, <3>1, <4>1
    <3>2. CASE x \notin InSeq(spool)
      <4>1. deliveries'[x] = deliveries[x] /\ lost'[x] = lost[x] /\ x \notin InSeq(rest)
        BY <1>8, <3>2
      <4>2. QED
        BY <3>2, <4>1 DEF AuditInv, EventsInv, InReach, InMemory, InHand
    <3>3. QED
      BY <3>1, <3>2
  <2>2. accepted' = accepted /\ durable' = durable /\ inHand' = inHand
    BY DEF memory, history
  <2>3. QED
    BY <1>2, <2>1, <2>2 DEF EventsInv, InReach, InMemory, InHand
<1>10. ReplayInv'
  <2>1. ASSUME NEW i \in 1..Len(rest) PROVE deliveries'[rest[i]] <= crashes + repeats'
    <3>1. rest[i] \in InSeq(rest)
      BY DEF InSeq
    <3>2. PICK j \in n..readUpTo : rest[i] = spool[j]
      BY <3>1 DEF Part, WrittenBack
    <3>3. QED
      BY <3>2 DEF DeliveredUpTo
  <2>2. crashes' = crashes
    BY DEF history
  <2>3. ~ \E i \in 1..Len(rest) : i < next'
    BY <1>1
  <2>4. QED
    BY <1>1, <2>1, <2>2, <2>3 DEF ReplayInv
<1>11. DeliveredOnce' /\ DurableKept'
  <2>1. durable' = durable /\ crashes' = crashes /\ durable \subseteq Events
    BY DEF history, AuditInv, AuditTypeOK
  <2>2. DeliveredOnce'
    BY <2>1 DEF DeliveredOnce, DeliveredUpTo
  <2>3. DurableKept'
    BY <1>1, <2>1 DEF AuditInv, DurableKept
  <2>4. QED
    BY <2>2, <2>3
<1>12. QED
  BY <1>4, <1>5, <1>6, <1>9, <1>10, <1>11 DEF AuditInv


LEMMA ReplayOneLast ==
  ASSUME AuditInv, ReplayOne, ~(next < readUpTo)
  PROVE  AuditInv'
<1>0. /\ readUpTo # 0 /\ Reaches({spool[next]}) /\ Replace(<< >>) /\ repeats' = repeats
      /\ UNCHANGED <<memory, stopper, history>>
  BY DEF ReplayOne
<1>1. PICK e : e = spool[next]
  OBVIOUS
<1>2. /\ next \in 1..Len(spool) /\ next <= readUpTo /\ e \in Events /\ e \in InSeq(spool)
      /\ deliveries[e] \in Nat /\ deliveries[e] <= crashes + repeats
  BY <1>0, <1>1, AtPosition
<1>3. /\ spool \in Seq(Events) /\ Len(spool) \in Nat /\ readUpTo \in 1..Len(spool)
      /\ next = readUpTo /\ deliveries \in [Events -> Nat] /\ AuditTypeOK
      /\ repeats \in 0..MaxRepeats
  <2>1. /\ spool \in Seq(Events) /\ Len(spool) \in Nat /\ readUpTo \in 0..Len(spool)
        /\ deliveries \in [Events -> Nat] /\ AuditTypeOK /\ repeats \in 0..MaxRepeats
    BY DEF AuditInv, AuditTypeOK
  <2>2. readUpTo \in 1..Len(spool) /\ next = readUpTo
    BY <1>0, <1>2, <2>1
  <2>3. QED
    BY <2>1, <2>2
<1>4. Grown({spool[next]})
  BY <1>0, <1>1, <1>2, <1>3, ReachFacts
<1>5. PICK n : n = readUpTo + 1
  OBVIOUS
<1>6. PICK rest : rest = << >>
  OBVIOUS
<1>7. rest \in Seq(Events) /\ Len(rest) = 0 /\ Unique(rest) /\ InSeq(rest) = {}
  BY <1>6 DEF Unique, InSeq
<1>8. n..readUpTo = {} /\ n \in 1..(readUpTo + 1)
  BY <1>3, <1>5
<1>9. \A i \in 1..readUpTo : deliveries'[spool[i]] > 0
  <2>1. ASSUME NEW i \in 1..readUpTo PROVE deliveries'[spool[i]] > 0
    <3>1. CASE i = next
      BY <1>1, <1>2, <1>4, <3>1 DEF Grown
    <3>2. CASE i # next
      <4>1. i < next /\ i \in 1..Len(spool)
        BY <1>3, <3>2
      <4>2. deliveries[spool[i]] > 0 /\ spool[i] \in Events
        BY <1>3, <4>1 DEF AuditInv, ReplayInv
      <4>3. PICK x \in Events : x = spool[i]
        BY <4>2
      <4>4. /\ deliveries[x] \in Nat /\ deliveries[x] > 0
            /\ deliveries'[x] = deliveries[x] \/ deliveries'[x] = deliveries[x] + 1
        BY <1>3, <1>4, <4>2, <4>3 DEF Grown
      <4>5. deliveries'[x] > 0
        BY <4>4
      <4>6. QED
        BY <4>3, <4>5
    <3>3. QED
      BY <3>1, <3>2
  <2>2. QED
    BY <2>1
<1>10. \A x \in Events : deliveries'[x] <= 1 + crashes + repeats'
  BY <1>0, <1>4, StillOnce
<1>11. InSeq(rest) = Part(spool, n, readUpTo)
  BY <1>7, <1>8 DEF Part
<1>12. Replace(rest) /\ Len(rest) <= Len(spool)
  BY <1>0, <1>3, <1>6, <1>7
<1>13. WrittenBack(rest, n)
  BY <1>7, <1>11, <1>12 DEF WrittenBack
<1>14. \A x \in Events : x \notin InSeq(spool) => deliveries'[x] = deliveries[x]
  BY <1>1, <1>2, <1>4 DEF Grown
<1>15. DeliveredUpTo(n)
  BY <1>0, <1>3, <1>4, <1>8, <1>9, <1>10, <1>14 DEF DeliveredUpTo, Grown
<1>16. QED
  BY <1>0, <1>8, <1>12, <1>13, <1>15, ReplayEnds

LEMMA ReplayOneStep == AuditInv /\ ReplayOne => AuditInv'
  BY ReplayOneGoesOn, ReplayOneLast

LEMMA ReplayFailsStep == AuditInv /\ ReplayFails => AuditInv'
<1> SUFFICES ASSUME AuditInv, ReplayFails PROVE AuditInv'
  OBVIOUS
<1>0. /\ readUpTo # 0 /\ Replace(SubSeq(spool, next, readUpTo)) /\ Raises(spool[next])
      /\ UNCHANGED <<memory, stopper, history>>
  BY DEF ReplayFails
<1>1. /\ spool \in Seq(Events) /\ Len(spool) \in Nat /\ readUpTo \in 1..Len(spool)
      /\ next \in 1..readUpTo /\ deliveries \in [Events -> Nat] /\ AuditTypeOK
      /\ crashes \in Nat /\ repeats \in Nat
  BY <1>0 DEF AuditInv, AuditTypeOK, ReplayInv
<1>a. PICK e : e = spool[next]
  OBVIOUS
<1>b. /\ e \in Events /\ e \in InSeq(spool) /\ deliveries[e] \in Nat
      /\ deliveries[e] <= crashes + repeats
      /\ \A i \in 1..Len(spool) : spool[i] = e => i = next
  BY <1>0, <1>a, AtPosition
<1>c. PICK D \in SUBSET {e} : Raised(D)
  BY <1>0, <1>1, <1>a, <1>b, RaiseFacts
<1>d. /\ Grown(D) /\ repeats' \in 0..MaxRepeats /\ repeats' \in Nat /\ repeats' >= repeats
      /\ D # {} => repeats' > repeats
  BY <1>c DEF Raised
<1>2. PICK rest : rest = SubSeq(spool, next, readUpTo)
  OBVIOUS
<1>3. /\ rest \in Seq(Events) /\ Len(rest) = readUpTo - next + 1
      /\ InSeq(rest) = Part(spool, next, readUpTo) /\ Unique(rest)
  <2>1. Unique(spool) /\ next \in Nat \ {0} /\ readUpTo \in Nat /\ readUpTo <= Len(spool)
        /\ next <= readUpTo + 1
    BY <1>1 DEF AuditInv, PlacesInv
  <2>2. /\ SubSeq(spool, next, readUpTo) \in Seq(Events)
        /\ Len(SubSeq(spool, next, readUpTo)) = readUpTo - next + 1
        /\ InSeq(SubSeq(spool, next, readUpTo)) = Part(spool, next, readUpTo)
        /\ Unique(SubSeq(spool, next, readUpTo))
    BY <1>1, <2>1, Sliced
  <2>3. QED
    BY <1>2, <2>2
<1>4. \A x \in Events : /\ deliveries'[x] \in Nat
                        /\ x \notin D => deliveries'[x] = deliveries[x]
                        /\ x \in D => x = e /\ deliveries'[x] = deliveries[e] + 1
  BY <1>c, <1>d DEF Grown
<1>5. \A i \in 1..readUpTo : i < next => deliveries'[spool[i]] > 0
  <2>1. ASSUME NEW i \in 1..readUpTo, i < next PROVE deliveries'[spool[i]] > 0
    <3>1. i \in 1..Len(spool) /\ spool[i] \in Events /\ deliveries[spool[i]] > 0
      BY <1>1, <2>1 DEF AuditInv, ReplayInv
    <3>2. spool[i] \notin D
      BY <1>1, <1>b, <1>c, <2>1, <3>1
    <3>3. QED
      BY <1>4, <3>1, <3>2
  <2>2. QED
    BY <2>1
<1>6. \A i \in next..readUpTo : deliveries'[spool[i]] <= crashes + repeats'
  <2>1. ASSUME NEW i \in next..readUpTo PROVE deliveries'[spool[i]] <= crashes + repeats'
    <3>1. i \in 1..Len(spool) /\ i >= next /\ spool[i] \in Events
      BY <1>1
    <3>2. deliveries[spool[i]] \in Nat /\ deliveries[spool[i]] <= crashes + repeats
      BY <1>1, <3>1 DEF AuditInv, ReplayInv
    <3>3. CASE spool[i] \in D
      <4>1. deliveries'[spool[i]] = deliveries[e] + 1 /\ repeats' > repeats
        BY <1>4, <1>d, <3>1, <3>3
      <4>2. QED
        BY <1>1, <1>b, <1>d, <4>1
    <3>4. CASE spool[i] \notin D
      BY <1>1, <1>4, <1>d, <3>1, <3>2, <3>4
    <3>5. QED
      BY <3>3, <3>4
  <2>2. QED
    BY <2>1
<1>7. \A x \in Events : deliveries'[x] <= 1 + crashes + repeats'
  <2>1. \A x \in Events : deliveries'[x] <= 1 + crashes + repeats
    BY <1>0, <1>a, <1>c, <1>d, StillOnce
  <2>2. QED
    BY <1>1, <1>4, <1>d, <2>1
<1>8. \A x \in Events : x \notin InSeq(spool) => deliveries'[x] = deliveries[x]
  BY <1>4, <1>b
<1>9. Len(rest) <= Len(spool) /\ next \in 1..(readUpTo + 1) /\ Replace(rest)
  BY <1>0, <1>1, <1>2, <1>3
<1>10. WrittenBack(rest, next)
  BY <1>3, <1>9 DEF WrittenBack
<1>11. DeliveredUpTo(next)
  BY <1>5, <1>6, <1>7, <1>8, <1>d DEF DeliveredUpTo, Grown
<1>12. QED
  BY <1>0, <1>9, <1>10, <1>11, ReplayEnds

-----------------------------------------------------------------------------
(* A crash *)

\* The broker may have what was on its way to it.
LEMMA CrashDelivers ==
  ASSUME AuditInv, NEW D \in SUBSET (InHand \cup Replayed), Reaches(D)
  PROVE  /\ Grown(D)
         /\ \A x \in Events : x \in D => x \in accepted /\ lost[x] = "no"
         /\ \A x \in Events : deliveries'[x] \in Nat /\ deliveries[x] \in Nat
                              /\ deliveries'[x] <= 1 + crashes + repeats
                              /\ deliveries'[x] >= deliveries[x]
<1>1. /\ AuditTypeOK /\ crashes \in Nat /\ repeats \in Nat
      /\ \A x \in Events : deliveries[x] \in Nat /\ deliveries[x] <= 1 + crashes + repeats
  BY DEF AuditInv, AuditTypeOK, DeliveredOnce
<1>2. \A x \in Events : x \in InHand =>
         deliveries[x] = 0 /\ x \in accepted /\ lost[x] = "no"
  BY DEF AuditInv, EventsInv, PlacesInv, InMemory, InHand
<1>3. \A x \in Events : x \in Replayed =>
         deliveries[x] <= crashes + repeats /\ x \in accepted /\ lost[x] = "no"
  BY AtPosition DEF Replayed
<1>4. \A x \in Events : x \in D =>
         deliveries[x] <= crashes + repeats /\ x \in accepted /\ lost[x] = "no"
  BY <1>1, <1>2, <1>3
<1>5. Grown(D)
  BY <1>1, <1>4, ReachFacts
<1>6. \A x \in Events : deliveries'[x] \in Nat
                        /\ deliveries'[x] = IF x \in D THEN deliveries[x] + 1 ELSE deliveries[x]
  BY <1>5 DEF Grown
<1>7. QED
  BY <1>1, <1>4, <1>5, <1>6

\* What a crash leaves of the process.
LEMMA Restarted ==
  ASSUME AuditInv, Restart, AuditTypeOK', spool' \in {spool, << >>}
  PROVE  /\ InSeq(queue)' = {} /\ InMemory' = {}
         /\ WorkerInv' /\ PlacesInv' /\ ReplayInv' /\ DeliveredOnce'
<1>0. /\ queue' = << >> /\ unfinished' = 0 /\ worker' = "none" /\ inHand' = Nothing
      /\ readUpTo' = 0 /\ next' = 0 /\ crashes' = crashes + 1 /\ repeats' = repeats
      /\ accepted' = accepted
  BY DEF Restart
<1>1. PICK D \in SUBSET (InHand \cup Replayed) : Reaches(D)
  BY DEF Restart
<1>a. spool' \in Seq(Events) /\ AuditTypeOK
  BY DEF AuditInv, AuditTypeOK
<1>b. \A x \in Events : deliveries'[x] \in Nat /\ deliveries'[x] <= 1 + crashes + repeats
  BY <1>1, CrashDelivers
<1>2. /\ crashes \in Nat /\ repeats \in Nat /\ spool' \in Seq(Events)
      /\ \A x \in Events : deliveries'[x] \in Nat /\ deliveries'[x] <= 1 + crashes + repeats
  BY <1>a, <1>b DEF AuditTypeOK
<1>3. \A x \in Events : deliveries'[x] <= crashes' + repeats'
  BY <1>0, <1>2
<1>4. InSeq(queue)' = {} /\ Unique(queue)' /\ InMemory' = {}
  BY <1>0, AuditAssumption DEF AuditAssumption, InSeq, Unique, InMemory, InHand
<1>5. WorkerInv'
  BY <1>0 DEF WorkerInv
<1>6. PlacesInv'
  <2>1. Nothing \notin InSeq(spool')
    BY <1>2, NothingInSeq
  <2>2. Unique(spool') /\ InSeq(spool') \subseteq accepted
    <3>1. CASE spool' = spool
      BY <3>1 DEF AuditInv, PlacesInv
    <3>2. CASE spool' = << >>
      BY <3>2 DEF Unique, InSeq
    <3>3. QED
      BY <3>1, <3>2
  <2>3. QED
    BY <1>0, <1>4, <2>1, <2>2 DEF PlacesInv
<1>7. ReplayInv'
  <2>1. \A i \in 1..Len(spool') : spool'[i] \in Events /\ ~(i < 0)
    BY <1>2
  <2>2. QED
    BY <1>0, <1>3, <2>1 DEF ReplayInv
<1>8. DeliveredOnce'
  <2>1. \A x \in Events : deliveries'[x] <= 1 + crashes' + repeats'
    BY <1>0, <1>2
  <2>2. QED
    BY <2>1 DEF DeliveredOnce
<1>9. QED
  BY <1>4, <1>5, <1>6, <1>7, <1>8

\* The memory is gone; of the file's events, those that stay are no worse off than
\* those after a replay's position.
LEMMA CrashStep == AuditInv /\ Crash => AuditInv'
<1> SUFFICES ASSUME AuditInv, Crash PROVE AuditInv'
  OBVIOUS
<1>0. /\ queue' = << >> /\ unfinished' = 0 /\ worker' = "none" /\ inHand' = Nothing
      /\ degraded' = FALSE /\ stopper' = "out" /\ readUpTo' = 0 /\ next' = 0
      /\ crashes < MaxCrashes /\ crashes' = crashes + 1 /\ repeats' = repeats
      /\ spool' = spool /\ accepted' = accepted /\ durable' = durable
      /\ lost' = [x \in Events |-> IF x \in InMemory /\ deliveries'[x] = 0 THEN "crashed" ELSE lost[x]]
  BY DEF Crash, Restart, Lose
<1>1. PICK D \in SUBSET (InHand \cup Replayed) : Reaches(D)
  BY DEF Crash, Restart
<1>2. /\ Grown(D)
      /\ \A x \in Events : x \in D => x \in accepted /\ lost[x] = "no"
      /\ \A x \in Events : deliveries'[x] \in Nat /\ deliveries[x] \in Nat
                           /\ deliveries'[x] >= deliveries[x]
  BY <1>1, CrashDelivers
<1>3. AuditTypeOK'
  <2>1. queue' \in Seq(Events) /\ Len(queue') = 0 /\ Len(spool) \in Nat /\ crashes \in Nat
    BY <1>0 DEF AuditInv, AuditTypeOK
  <2>2. Len(queue') <= MaxQueue /\ 0 \in 0..(MaxQueue + 1) /\ 0 \in 0..Len(spool') /\ next' \in 0..readUpTo'
        /\ crashes' \in 0..MaxCrashes
    BY <1>0, <2>1, AuditAssumption DEF AuditAssumption
  <2>3. QED
    BY <1>0, <1>2, <2>1, <2>2 DEF AuditInv, AuditTypeOK, Grown
<1>4. /\ InSeq(queue)' = {} /\ InMemory' = {}
      /\ WorkerInv' /\ PlacesInv' /\ ReplayInv' /\ DeliveredOnce'
  BY <1>0, <1>3, Restarted DEF Crash
<1>5. EventsInv'
  <2>1. \A x \in Events : x \in InMemory => x \in accepted /\ x \notin InSeq(spool) /\ lost[x] = "no"
    BY DEF AuditInv, PlacesInv, EventsInv, InMemory, InHand
  <2>2. \A x \in Events : x \in accepted /\ x \notin InMemory /\ lost[x] = "no" =>
                             x \in InSeq(spool) \/ deliveries[x] > 0
    BY DEF AuditInv, EventsInv, InReach, InMemory, InHand
  <2>3. ASSUME NEW x \in Events
        PROVE  /\ x \notin accepted => deliveries'[x] = 0 /\ lost'[x] = "no"
               /\ x \in InSeq(spool) => lost'[x] = "no"
               /\ deliveries'[x] > 0 => lost'[x] = "no"
               /\ x \in accepted /\ lost'[x] = "no" => x \in InSeq(spool) \/ deliveries'[x] > 0
    <3>0. /\ deliveries'[x] \in Nat /\ deliveries[x] \in Nat /\ deliveries'[x] >= deliveries[x]
          /\ x \notin D => deliveries'[x] = deliveries[x]
          /\ x \in D => x \in accepted /\ lost[x] = "no"
      BY <1>2 DEF Grown
    <3>1. CASE x \in InMemory
      BY <1>0, <2>1, <3>0, <3>1
    <3>2. CASE x \notin InMemory
      BY <1>0, <2>2, <3>0, <3>2 DEF AuditInv, EventsInv
    <3>3. QED
      BY <3>1, <3>2
  <2>4. InSeq(spool)' = InSeq(spool)
    BY <1>0 DEF InSeq
  <2>5. QED
    BY <1>0, <1>4, <2>3, <2>4 DEF EventsInv, InReach
<1>6. DurableKept'
  <2>1. \A x \in durable : x \in Events /\ x \notin InMemory
    BY DEF AuditInv, AuditTypeOK, EventsInv
  <2>2. QED
    BY <1>0, <2>1 DEF AuditInv, DurableKept
<1>7. QED
  BY <1>3, <1>4, <1>5, <1>6 DEF AuditInv

LEMMA CrashInReplaceStep == AuditInv /\ CrashInReplace => AuditInv'
<1> SUFFICES ASSUME AuditInv, CrashInReplace PROVE AuditInv'
  OBVIOUS
<1>a. PICK gone : gone = InSeq(SubSeq(spool, next, Len(spool)))
  OBVIOUS
<1>0. /\ queue' = << >> /\ unfinished' = 0 /\ worker' = "none" /\ inHand' = Nothing
      /\ degraded' = FALSE /\ stopper' = "out" /\ readUpTo' = 0 /\ next' = 0
      /\ crashes < MaxCrashes /\ crashes' = crashes + 1 /\ repeats' = repeats
      /\ spool' = << >> /\ accepted' = accepted /\ durable' = durable
      /\ lost' = [x \in Events |-> IF deliveries'[x] > 0 THEN lost[x]
                                  ELSE IF x \in InMemory THEN "crashed"
                                  ELSE IF x \in gone THEN "truncated" ELSE lost[x]]
  BY <1>a DEF CrashInReplace, Restart
<1>1. /\ spool \in Seq(Events) /\ Len(spool) \in Nat /\ crashes \in Nat
      /\ \A i \in 1..Len(spool) : spool[i] \in Events
      /\ readUpTo \in 1..Len(spool) /\ next \in 1..readUpTo
  BY DEF AuditInv, AuditTypeOK, CrashInReplace, ReplayInv
<1>b. PICK D \in SUBSET (InHand \cup Replayed) : Reaches(D)
  BY DEF CrashInReplace, Restart
<1>2. /\ Grown(D)
      /\ \A x \in Events : x \in D => x \in accepted /\ lost[x] = "no"
      /\ \A x \in Events : deliveries'[x] \in Nat /\ deliveries[x] \in Nat
                           /\ deliveries'[x] >= deliveries[x]
  BY <1>b, CrashDelivers
\* What the file held and no replay delivered; nothing but what it held is truncated.
<1>3. /\ \A x \in InSeq(spool) : deliveries[x] = 0 => x \in gone
      /\ gone \subseteq InSeq(spool)
  <2>1. gone = Part(spool, next, Len(spool))
    BY <1>1, <1>a, Sliced
  <2>2. \A i \in 1..Len(spool) : i < next => deliveries[spool[i]] # 0
    BY <1>1 DEF AuditInv, ReplayInv
  <2>3. \A i \in 1..Len(spool) : deliveries[spool[i]] = 0 => i \in next..Len(spool)
    BY <1>1, <2>2
  <2>4. \A i \in next..Len(spool) : i \in 1..Len(spool)
    BY <1>1
  <2>5. QED
    BY <2>1, <2>3, <2>4 DEF InSeq, Part
<1>4. AuditTypeOK'
  <2>1. queue' \in Seq(Events) /\ Len(queue') = 0 /\ spool' \in Seq(Events) /\ Len(spool') = 0
    BY <1>0
  <2>2. Len(queue') <= MaxQueue /\ 0 \in 0..(MaxQueue + 1) /\ readUpTo' \in 0..Len(spool')
        /\ next' \in 0..readUpTo' /\ Len(spool') <= MaxSpool /\ crashes' \in 0..MaxCrashes
    BY <1>0, <1>1, <2>1, AuditAssumption DEF AuditAssumption
  <2>3. lost' \in [Events -> {"no", "spool_full", "disk", "overwritten", "truncated",
                              "cancelled", "crashed"}]
    BY <1>0 DEF AuditInv, AuditTypeOK
  <2>4. QED
    BY <1>0, <1>2, <2>1, <2>2, <2>3 DEF AuditInv, AuditTypeOK, Grown
<1>5. /\ InSeq(queue)' = {} /\ InMemory' = {}
      /\ WorkerInv' /\ PlacesInv' /\ ReplayInv' /\ DeliveredOnce'
  BY <1>0, <1>4, Restarted DEF CrashInReplace
<1>6. EventsInv'
  <2>1. \A x \in Events : x \in InMemory \cup gone => x \in accepted /\ lost[x] = "no"
    BY <1>3 DEF AuditInv, PlacesInv, EventsInv, InMemory, InHand
  <2>2. \A x \in Events : x \in accepted /\ x \notin InMemory \cup gone /\ lost[x] = "no" =>
                             deliveries[x] > 0
    BY <1>2, <1>3 DEF AuditInv, EventsInv, InReach, InMemory, InHand
  <2>3. ASSUME NEW x \in Events
        PROVE  /\ x \notin accepted => deliveries'[x] = 0 /\ lost'[x] = "no"
               /\ deliveries'[x] > 0 => lost'[x] = "no"
               /\ x \in accepted /\ lost'[x] = "no" => deliveries'[x] > 0
    <3>0. /\ deliveries'[x] \in Nat /\ deliveries[x] \in Nat /\ deliveries'[x] >= deliveries[x]
          /\ x \notin D => deliveries'[x] = deliveries[x]
          /\ x \in D => x \in accepted /\ lost[x] = "no"
      BY <1>2 DEF Grown
    <3>1. CASE x \in InMemory \cup gone
      BY <1>0, <2>1, <3>0, <3>1
    <3>2. CASE x \notin InMemory \cup gone
      BY <1>0, <2>2, <3>0, <3>2 DEF AuditInv, EventsInv
    <3>3. QED
      BY <3>1, <3>2
  <2>4. InSeq(spool)' = {}
    BY <1>0 DEF InSeq
  <2>5. QED
    BY <1>0, <1>5, <2>3, <2>4 DEF EventsInv, InReach
<1>7. DurableKept'
  <2>1. \A x \in durable : x \in Events /\ x \notin InMemory
    BY DEF AuditInv, AuditTypeOK, EventsInv
  <2>2. QED
    BY <1>0, <2>1 DEF AuditInv, DurableKept
<1>8. QED
  BY <1>4, <1>5, <1>6, <1>7 DEF AuditInv

-----------------------------------------------------------------------------
(* The theorems about audit delivery *)

LEMMA AuditInvStutters == AuditInv /\ UNCHANGED auditVars => AuditInv'
<1> SUFFICES ASSUME AuditInv, UNCHANGED auditVars PROVE AuditInv'
  OBVIOUS
<1>1. AuditTypeOK'
  BY DEF AuditInv, AuditTypeOK, auditVars
<1>2. QED
  BY <1>1, QuietStep DEF auditVars, replayVars, broker, history

LEMMA AuditInvHolds == AuditSpec => []AuditInv
<1>1. AuditInv /\ AuditNext => AuditInv'
  BY EmitQueuedStep, EmitSpooledStep, EmitRefusedStep, StartStep, TakeStep, ProducedStep,
     ProduceFailsStep, SpoolBreaksStep, StopStep, CancelWorkerStep, ReplayStep, ReplayOneStep,
     ReplayFailsStep, CancelReplayStep, CrashStep, CrashInReplaceStep
  DEF AuditNext, EmitEvent, Work
<1>2. AuditInv /\ [AuditNext]_auditVars => AuditInv'
  BY <1>1, AuditInvStutters
<1>3. QED
  BY AuditInitInv, <1>2, PTL DEF AuditSpec

\* No event that emit_nowait accepted disappears unseen: at every moment it is in
\* the queue, with the worker, in the spool file or at the broker, or it was lost
\* in one of the six ways the code has; and _unfinished_tasks is what join has to
\* wait for.
THEOREM EveryEventAccounted == AuditSpec => []Accounted
<1>1. AuditInv => Accounted
  <2>1. AuditInv => \A x \in accepted : lost[x] = "no" <=> x \in InReach
    <3> SUFFICES ASSUME AuditInv, NEW x \in accepted PROVE lost[x] = "no" <=> x \in InReach
      OBVIOUS
    <3>1. x \in Events
      BY DEF AuditInv, AuditTypeOK
    <3>2. x \in InReach => lost[x] = "no"
      BY <3>1 DEF AuditInv, EventsInv, InReach, InMemory, InHand
    <3>3. lost[x] = "no" => x \in InReach
      BY <3>1 DEF AuditInv, EventsInv
    <3>4. QED
      BY <3>2, <3>3
  <2>2. QED
    BY <2>1 DEF AuditInv, Accounted, WorkerInv
<1>2. QED
  BY <1>1, AuditInvHolds, PTL

\* The broker gets an event again only for a crash, for a produce that failed after
\* the broker had taken it, or for a replay that was cancelled, and once for each
\* (AsyncAuditEmitter._run, DiskSpool.replay_to).
THEOREM OneDeliveryPerLife == AuditSpec => []DeliveredOnce
<1>1. AuditInv => DeliveredOnce
  BY DEF AuditInv
<1>2. QED
  BY <1>1, AuditInvHolds, PTL

\* What emit_nowait reported as durable is lost to a replay only.
THEOREM DurableMeansDurable == AuditSpec => []DurableKept
<1>1. AuditInv => DurableKept
  BY DEF AuditInv
<1>2. QED
  BY <1>1, AuditInvHolds, PTL

-----------------------------------------------------------------------------
(* SiemExporter: the inductive invariant *)

\* The events that are at one of ps.
Where(at, ps) == {e \in Exported : at[e] \in ps}

LEMMA AtWhere ==
  ASSUME NEW ps PROVE At(ps) = Where(place, ps)
BY DEF At, Where

\* An event is in the queue or in the batch under way once, and where it is said
\* to be; there is a batch only while the worker is at one.
QueueInv ==
    /\ Unique(items) /\ InSeq(items) = Where(place, {"queued"})
    /\ Unique(task.batch) /\ InSeq(task.batch) = Where(place, {"drained"})
    /\ inFlight = Len(task.batch)
    /\ task.at \in {"none", "idle"} => task.batch = << >>
    /\ phase # "running" => task.at = "none"
    /\ Where(place, {"lost"}) # {} => phase = "stopped"

CountInv ==
    /\ sent = Cardinality(Where(place, {"sent"}))
    /\ dropped = Cardinality(Where(place, {"refused", "failed"}))

\* Without a race, who has read the settings and is still to store what was read,
\* has read the current ones.
FreshInv ==
    ~unsettled /\ ~raced =>
        /\ cache \in {Absent, Failed, row}
        /\ token \in {NoToken, secret}
        /\ \A e \in Where(place, {"loaded"}) : aim[e] \in {row, Failed}
        /\ task.at = "fetched" => task.token = secret

ExporterInv ==
    /\ ExporterTypeOK
    /\ QueueInv
    /\ CountInv
    /\ FreshInv

\* Moves, with the places before and after it as parameters.
Goes(f, g, es, p) == g = [e \in Exported |-> IF e \in es THEN p ELSE f[e]]

LEMMA Moved ==
  ASSUME NEW f, NEW g, NEW es \in SUBSET Exported, NEW p, Goes(f, g, es, p)
  PROVE  /\ \A ps : p \in ps => Where(g, ps) = Where(f, ps) \cup es
         /\ \A ps : p \notin ps => Where(g, ps) = Where(f, ps) \ es
         /\ f \in [Exported -> EventPlaces] /\ p \in EventPlaces => g \in [Exported -> EventPlaces]
BY DEF Where, Goes

LEMMA AtFinite ==
  ASSUME NEW ps
  PROVE  Where(place, ps) \subseteq Exported /\ IsFiniteSet(Where(place, ps)) /\ Cardinality(Where(place, ps)) \in Nat
<1>1. Where(place, ps) \in SUBSET Exported
  BY DEF Where
<1>2. QED
  BY <1>1, FS_Subset, FS_CardinalityType, SiemAssumption DEF SiemAssumption

\* A sequence without repetition is as long as it has elements.
LEMMA UniqueCounted ==
  ASSUME NEW S, NEW s \in Seq(S), Unique(s)
  PROVE  IsFiniteSet(InSeq(s)) /\ Cardinality(InSeq(s)) = Len(s)
<1>1. PICK f : f = [i \in 1..Len(s) |-> s[i]]
  OBVIOUS
<1>2. f \in Bijection(1..Len(s), InSeq(s))
  <2>1. f \in [1..Len(s) -> InSeq(s)]
    BY <1>1 DEF InSeq
  <2>2. \A i, j \in 1..Len(s) : f[i] = f[j] => i = j
    BY <1>1 DEF Unique
  <2>3. \A x \in InSeq(s) : \E i \in 1..Len(s) : f[i] = x
    BY <1>1 DEF InSeq
  <2>4. QED
    BY <2>1, <2>2, <2>3 DEF Bijection, Injection, Surjection, IsInjective
<1>3. ExistsBijection(1..Len(s), InSeq(s)) /\ Len(s) \in Nat
  BY <1>2 DEF ExistsBijection
<1>4. IsFiniteSet(InSeq(s))
  BY <1>3, FS_NatBijection
<1>5. QED
  BY <1>3, <1>4, FS_CountingElements

LEMMA WorkerFacts ==
  /\ Idle = [at |-> "idle", batch |-> << >>, token |-> NoToken, attempt |-> 1]
  /\ NoWorker \in Worker /\ Idle \in Worker
  /\ InSeq(<< >>) = {} /\ Unique(<< >>) /\ Len(<< >>) = 0
<1>1. Idle = [at |-> "idle", batch |-> << >>, token |-> NoToken, attempt |-> 1]
  BY DEF Idle, NoWorker
<1>2. 1 \in 1..MaxAttempts /\ << >> \in Seq(Exported)
  BY SiemAssumption DEF SiemAssumption
<1>3. NoWorker \in Worker /\ Idle \in Worker
  BY <1>1, <1>2 DEF NoWorker, Worker
<1>4. QED
  BY <1>1, <1>3 DEF InSeq, Unique

LEMMA ExporterInitInv == ExporterInit => ExporterInv
<1> SUFFICES ASSUME ExporterInit PROVE ExporterInv
  OBVIOUS
<1>1. \A ps : "new" \notin ps => Where(place, ps) = {}
  BY DEF ExporterInit, Where
<1>2. ExporterTypeOK
  <2>1. items \in Seq(Exported) /\ Len(items) <= MaxItems /\ 1 \in Versions
    BY SiemAssumption DEF SiemAssumption, ExporterInit, Versions
  <2>2. place \in [Exported -> EventPlaces] /\ aim \in [Exported -> Found]
    BY DEF ExporterInit, EventPlaces, Found
  <2>3. QED
    BY <2>1, <2>2, WorkerFacts DEF ExporterInit, ExporterTypeOK
<1>3. QueueInv
  BY <1>1, WorkerFacts DEF QueueInv, ExporterInit, NoWorker
<1>4. CountInv
  BY <1>1, FS_EmptySet DEF CountInv, ExporterInit
<1>5. FreshInv
  BY <1>1 DEF FreshInv, ExporterInit, NoWorker
<1>6. QED
  BY <1>2, <1>3, <1>4, <1>5 DEF ExporterInv

-----------------------------------------------------------------------------
(* Steps that move no event *)

LEMMA NothingMoves ==
  ASSUME ExporterInv, UNCHANGED <<items, stats, inFlight, place>>, task'.batch = task.batch,
         task'.at \in {"none", "idle"} => task'.batch = << >>,
         phase' # "running" => task'.at = "none", phase = "stopped" => phase' = "stopped"
  PROVE  QueueInv' /\ CountInv'
<1>1. \A ps : Where(place', ps) = Where(place, ps)
  BY DEF Where
<1>2. InSeq(items)' = InSeq(items) /\ InSeq(task.batch)' = InSeq(task.batch)
      /\ Unique(items)' = Unique(items) /\ Unique(task.batch)' = Unique(task.batch)
  BY DEF InSeq, Unique
<1>3. QueueInv'
  BY <1>1, <1>2 DEF ExporterInv, QueueInv
<1>4. CountInv'
  BY <1>1 DEF ExporterInv, CountInv, stats
<1>5. QED
  BY <1>3, <1>4

LEMMA SettingsStep ==
  ASSUME ExporterInv, Configure \/ StoreToken \/ Invalidate \/ ExpireTarget \/ ExpireToken
  PROVE  ExporterInv'
<1>1. UNCHANGED <<made, items, stats, inFlight, phase, task, flushed, place, aim>>
  BY DEF Configure, StoreToken, Invalidate, ExpireTarget, ExpireToken, settings
<1>2. QueueInv' /\ CountInv'
  <2>1. task'.at \in {"none", "idle"} => task'.batch = << >>
    BY <1>1 DEF ExporterInv, QueueInv
  <2>2. phase' # "running" => task'.at = "none"
    BY <1>1 DEF ExporterInv, QueueInv
  <2>3. QED
    BY <1>1, <2>1, <2>2, NothingMoves
<1>3. ExporterTypeOK'
  <2>1. StoreToken => secret' \in Versions
    BY SiemAssumption DEF SiemAssumption, StoreToken, ExporterInv, ExporterTypeOK, Versions
  <2>2. /\ row' \in Targets \cup {None} /\ secret' \in Versions /\ unsettled' \in BOOLEAN
        /\ cache' \in Found \cup {Absent} /\ token' \in {NoToken} \cup Versions
    BY <2>1 DEF ExporterInv, ExporterTypeOK, Configure, StoreToken, Invalidate, ExpireTarget,
                ExpireToken, settings
  <2>3. raced' \in BOOLEAN
    BY DEF ExporterInv, ExporterTypeOK, Configure, StoreToken, Invalidate, ExpireTarget,
           ExpireToken, settings
  <2>4. QED
    BY <1>1, <2>2, <2>3 DEF ExporterInv, ExporterTypeOK, stats
<1>4. FreshInv'
  <2>1. CASE Configure \/ StoreToken
    BY <2>1 DEF FreshInv, Configure, StoreToken
  <2>2. CASE Invalidate
    <3>1. ~Racing => /\ \A e \in Where(place, {"loaded"}) : aim[e] \in {row, Failed}
                     /\ task.at = "fetched" => task.token = secret
      BY AtWhere DEF Racing
    <3>2. QED
      BY <1>1, <2>2, <3>1 DEF FreshInv, Invalidate
  <2>3. CASE ExpireTarget \/ ExpireToken
    BY <1>1, <2>3 DEF ExporterInv, FreshInv, ExpireTarget, ExpireToken, settings
  <2>4. QED
    BY <2>1, <2>2, <2>3
<1>5. QED
  BY <1>2, <1>3, <1>4 DEF ExporterInv

LEMMA ExporterStarts ==
  ASSUME ExporterInv, StartExporter \/ Flush
  PROVE  ExporterInv'
<1>1. UNCHANGED <<settings, cache, token, made, items, stats, inFlight, task, place, aim>>
  BY DEF StartExporter, Flush
<1>2. QueueInv' /\ CountInv'
  <2>1. task'.at \in {"none", "idle"} => task'.batch = << >>
    BY <1>1 DEF ExporterInv, QueueInv
  <2>2. phase' = "running" /\ phase # "stopped"
    BY DEF StartExporter, Flush
  <2>3. QED
    BY <1>1, <2>1, <2>2, NothingMoves
<1>3. ExporterTypeOK'
  BY <1>1 DEF ExporterInv, ExporterTypeOK, StartExporter, Flush, settings, stats
<1>4. FreshInv'
  BY <1>1 DEF ExporterInv, FreshInv, settings
<1>5. QED
  BY <1>2, <1>3, <1>4 DEF ExporterInv

\* The worker's steps that keep its batch; what it has been told of a token is the
\* current one, but for a race.
LEMMA BatchKept ==
  ASSUME ExporterInv, EnsureWorker \/ UseToken \/ FetchToken \/ TokenArrives \/ Retry
  PROVE  ExporterInv'
<1>1. UNCHANGED <<settings, cache, made, items, stats, inFlight, phase, flushed, place, aim>>
  BY DEF EnsureWorker, UseToken, FetchToken, TokenArrives, Retry
<1>2. /\ task' \in Worker /\ task'.batch = task.batch
      /\ task'.at \in {"none", "idle"} => task'.batch = << >>
      /\ phase = "running"
  <2>1. CASE EnsureWorker
    BY <2>1, WorkerFacts DEF EnsureWorker, ExporterInv, QueueInv
  <2>2. CASE UseToken
    <3>1. task \in Worker /\ task.at = "token" /\ token \in Versions
      BY <2>2 DEF UseToken, ExporterInv, ExporterTypeOK
    <3>2. task' = [at |-> "sending", batch |-> task.batch, token |-> token, attempt |-> task.attempt]
      BY <2>2, <3>1 DEF UseToken, Worker
    <3>3. QED
      BY <3>1, <3>2 DEF ExporterInv, QueueInv, Worker
  <2>3. CASE FetchToken
    <3>1. task \in Worker /\ task.at = "token" /\ secret \in Versions
      BY <2>3 DEF FetchToken, ExporterInv, ExporterTypeOK
    <3>2. task' = [at |-> "fetched", batch |-> task.batch, token |-> secret, attempt |-> task.attempt]
      BY <2>3, <3>1 DEF FetchToken, Worker
    <3>3. QED
      BY <3>1, <3>2 DEF ExporterInv, QueueInv, Worker
  <2>4. CASE TokenArrives
    <3>1. task \in Worker /\ task.at = "fetched"
      BY <2>4 DEF TokenArrives, ExporterInv, ExporterTypeOK
    <3>2. task' = [at |-> "sending", batch |-> task.batch, token |-> task.token, attempt |-> task.attempt]
      BY <2>4, <3>1 DEF TokenArrives, Worker
    <3>3. QED
      BY <3>1, <3>2 DEF ExporterInv, QueueInv, Worker
  <2>5. CASE Retry
    <3>1. task \in Worker /\ task.at = "sending" /\ task.attempt < MaxAttempts
      BY <2>5 DEF Retry, ExporterInv, ExporterTypeOK
    <3>2. PICK n : n = task.attempt + 1
      OBVIOUS
    <3>3. n \in 1..MaxAttempts
      BY <3>1, <3>2, SiemAssumption DEF SiemAssumption, Worker
    <3>4. task' = [at |-> "sending", batch |-> task.batch, token |-> task.token, attempt |-> n]
      BY <2>5, <3>1, <3>2 DEF Retry, Worker
    <3>5. QED
      BY <3>1, <3>3, <3>4 DEF ExporterInv, QueueInv, Worker
  <2>6. QED
    BY <2>1, <2>2, <2>3, <2>4, <2>5
<1>3. QueueInv' /\ CountInv'
  BY <1>1, <1>2, NothingMoves
<1>4. token' \in {NoToken} \cup Versions
  BY DEF EnsureWorker, UseToken, FetchToken, TokenArrives, Retry, ExporterInv, ExporterTypeOK, Worker
<1>5. ExporterTypeOK'
  BY <1>1, <1>2, <1>4 DEF ExporterInv, ExporterTypeOK, settings, stats
<1>6. FreshInv'
  <2>1. task \in Worker
    BY DEF ExporterInv, ExporterTypeOK
  <2>2. /\ task'.at = "fetched" => task'.token = secret \/ (task.at = "fetched" /\ task'.token = task.token)
        /\ token' = token \/ (task.at = "fetched" /\ token' = task.token)
    BY <2>1, WorkerFacts DEF EnsureWorker, UseToken, FetchToken, TokenArrives, Retry, Worker
  <2>3. QED
    BY <1>1, <2>2 DEF ExporterInv, FreshInv, settings
<1>7. QED
  BY <1>3, <1>5, <1>6 DEF ExporterInv

-----------------------------------------------------------------------------
(* emit_nowait *)

\* An emit that has not come to the queue changes neither the queue, nor the worker,
\* nor a counter.
LEMMA BeforeTheQueue ==
  ASSUME ExporterInv, NEW e \in Exported, place[e] \in {"new", "loaded"},
         NEW p \in {"loaded", "found", "nowhere"}, Moves({e}, p),
         UNCHANGED <<items, stats, inFlight, phase, task>>
  PROVE  QueueInv' /\ CountInv' /\ place' \in [Exported -> EventPlaces]
<1>1. p \in EventPlaces /\ Goes(place, place', {e}, p) /\ {e} \in SUBSET Exported
  BY DEF EventPlaces, Moves, Goes
<1>1a. \A ps : p \notin ps => Where(place', ps) = Where(place, ps) \ {e}
  BY <1>1, Moved
<1>2. \A ps \in {{"queued"}, {"drained"}, {"lost"}, {"sent"}, {"refused", "failed"}} :
         Where(place', ps) = Where(place, ps)
  <2>1. ASSUME NEW ps \in {{"queued"}, {"drained"}, {"lost"}, {"sent"}, {"refused", "failed"}}
        PROVE  Where(place', ps) = Where(place, ps)
    <3>1. p \notin ps /\ "new" \notin ps /\ "loaded" \notin ps
      OBVIOUS
    <3>2. Where(place', ps) = Where(place, ps) \ {e}
      BY <1>1a, <3>1
    <3>3. e \notin Where(place, ps)
      BY <3>1 DEF Where
    <3>4. QED
      BY <3>2, <3>3
  <2>2. QED
    BY <2>1
<1>3. InSeq(items)' = InSeq(items) /\ InSeq(task.batch)' = InSeq(task.batch)
      /\ Unique(items)' = Unique(items) /\ Unique(task.batch)' = Unique(task.batch)
  BY DEF InSeq, Unique
<1>4. QueueInv'
  BY <1>2, <1>3 DEF ExporterInv, QueueInv
<1>5. CountInv'
  BY <1>2 DEF ExporterInv, CountInv, stats
<1>6. place' \in [Exported -> EventPlaces]
  BY <1>1, Moved DEF ExporterInv, ExporterTypeOK
<1>7. QED
  BY <1>4, <1>5, <1>6

LEMMA LookUpStep ==
  ASSUME ExporterInv, NEW e \in Exported, Hit(e) \/ Load(e) \/ Store(e)
  PROVE  ExporterInv'
<1>1. UNCHANGED <<settings, token, made, items, stats, inFlight, phase, task, flushed>>
  BY DEF Hit, Load, Store
<1>2. PICK p \in {"loaded", "found", "nowhere"} : Moves({e}, p)
  BY DEF Hit, Load, Store, After
<1>3. place[e] \in {"new", "loaded"}
  BY DEF Hit, Load, Store
<1>4. QueueInv' /\ CountInv' /\ place' \in [Exported -> EventPlaces]
  BY <1>1, <1>2, <1>3, BeforeTheQueue
<1>5. cache' \in Found \cup {Absent} /\ aim' \in [Exported -> Found]
  BY DEF Hit, Load, Store, ExporterInv, ExporterTypeOK, Found
<1>6. ExporterTypeOK'
  BY <1>1, <1>4, <1>5 DEF ExporterInv, ExporterTypeOK, settings, stats
<1>7. FreshInv'
  <2> SUFFICES ASSUME ~unsettled, ~raced
               PROVE  /\ cache' \in {Absent, Failed, row} /\ token \in {NoToken, secret}
                      /\ \A x \in Where(place', {"loaded"}) : aim'[x] \in {row, Failed}
                      /\ task.at = "fetched" => task.token = secret
    BY <1>1 DEF FreshInv, settings
  <2>1. cache \in {Absent, Failed, row} /\ token \in {NoToken, secret}
        /\ (\A x \in Exported : place[x] = "loaded" => aim[x] \in {row, Failed})
        /\ (task.at = "fetched" => task.token = secret)
    BY DEF ExporterInv, FreshInv, Where
  <2>2. place' = [x \in Exported |-> IF x \in {e} THEN p ELSE place[x]]
    BY <1>2 DEF Moves
  <2>3. \A x \in Exported : place'[x] = "loaded" => aim'[x] \in {row, Failed}
    <3>1. CASE Hit(e)
      BY <2>1, <3>1 DEF Hit, Moves, After
    <3>2. CASE Load(e)
      BY <2>1, <3>2 DEF Load, Moves, ExporterInv, ExporterTypeOK
    <3>3. CASE Store(e)
      BY <2>1, <3>3 DEF Store, Moves, After, ExporterInv, ExporterTypeOK
    <3>4. QED
      BY <3>1, <3>2, <3>3
  <2>4. cache' \in {Absent, Failed, row}
    BY <2>1 DEF Hit, Load, Store
  <2>5. QED
    BY <2>1, <2>3, <2>4 DEF Where
<1>8. QED
  BY <1>4, <1>6, <1>7 DEF ExporterInv

\* FreshInv does not look at events that were found to be wanted.
LEMMA FreshUnlooked ==
  ASSUME ExporterInv, UNCHANGED <<settings, cache, token, aim>>,
         Where(place', {"loaded"}) \subseteq Where(place, {"loaded"}), task'.at # "fetched" \/ task' = task
  PROVE  FreshInv'
BY DEF ExporterInv, FreshInv, settings

LEMMA PushStep ==
  ASSUME ExporterInv, NEW e \in Exported, Push(e)
  PROVE  ExporterInv'
<1>1. UNCHANGED <<settings, cache, token, sent, inFlight, phase, task, flushed, aim>> /\ made' = TRUE
      /\ place[e] = "found"
  BY DEF Push
<1>2. items \in Seq(Exported) /\ Len(items) \in Nat /\ Len(items) <= MaxItems /\ dropped \in Nat
  BY DEF ExporterInv, ExporterTypeOK
<1>3. InSeq(task.batch)' = InSeq(task.batch) /\ Unique(task.batch)' = Unique(task.batch)
  BY <1>1 DEF InSeq, Unique
<1>4. \A ps : "found" \notin ps => Where(place, ps) \ {e} = Where(place, ps)
  BY <1>1 DEF Where
<1>4a. place \in [Exported -> EventPlaces] /\ {e} \in SUBSET Exported
  BY DEF ExporterInv, ExporterTypeOK
<1>5. CASE Len(items) >= MaxItems
  <2>1. Moves({e}, "refused") /\ dropped' = dropped + 1 /\ items' = items
    BY <1>5 DEF Push
  <2>1a. Goes(place, place', {e}, "refused") /\ "refused" \in EventPlaces
    BY <2>1 DEF Moves, Goes, EventPlaces
  <2>2. /\ \A ps : "refused" \in ps => Where(place', ps) = Where(place, ps) \cup {e}
        /\ \A ps : "refused" \notin ps => Where(place', ps) = Where(place, ps) \ {e}
        /\ place' \in [Exported -> EventPlaces]
    BY <1>4a, <2>1a, Moved
  <2>3. \A ps : "refused" \notin ps /\ "found" \notin ps => Where(place', ps) = Where(place, ps)
    BY <1>4, <2>2
  <2>4. Where(place', {"loaded"}) \subseteq Where(place, {"loaded"})
    BY <2>3
  <2>5. Where(place', {"refused", "failed"}) = Where(place, {"refused", "failed"}) \cup {e}
    BY <2>2
  <2>6. Cardinality(Where(place', {"refused", "failed"})) = Cardinality(Where(place, {"refused", "failed"})) + 1
    <3>1. e \notin Where(place, {"refused", "failed"})
      BY <1>1 DEF Where
    <3>2. QED
      BY <2>5, <3>1, AtFinite, FS_AddElement
  <2>7. CountInv'
    BY <1>1, <2>1, <2>3, <2>6 DEF ExporterInv, CountInv
  <2>8. InSeq(items)' = InSeq(items) /\ Unique(items)' = Unique(items)
    BY <2>1 DEF InSeq, Unique
  <2>9. QueueInv'
    BY <1>1, <1>3, <2>3, <2>8 DEF ExporterInv, QueueInv
  <2>10. place' \in [Exported -> EventPlaces]
    BY <2>2
  <2>11. ExporterTypeOK'
    BY <1>1, <1>2, <2>1, <2>10 DEF ExporterInv, ExporterTypeOK, settings
  <2>12. FreshInv'
    BY <1>1, <2>4, FreshUnlooked
  <2>13. QED
    BY <2>7, <2>9, <2>11, <2>12 DEF ExporterInv
<1>6. CASE ~(Len(items) >= MaxItems)
  <2>1. Moves({e}, "queued") /\ dropped' = dropped /\ items' = Append(items, e)
    BY <1>6 DEF Push
  <2>1a. Goes(place, place', {e}, "queued") /\ "queued" \in EventPlaces
    BY <2>1 DEF Moves, Goes, EventPlaces
  <2>2. /\ \A ps : "queued" \in ps => Where(place', ps) = Where(place, ps) \cup {e}
        /\ \A ps : "queued" \notin ps => Where(place', ps) = Where(place, ps) \ {e}
        /\ place' \in [Exported -> EventPlaces]
    BY <1>4a, <2>1a, Moved
  <2>3. \A ps : "queued" \notin ps /\ "found" \notin ps => Where(place', ps) = Where(place, ps)
    BY <1>4, <2>2
  <2>4. Where(place', {"loaded"}) \subseteq Where(place, {"loaded"})
    BY <2>3
  <2>5. Where(place', {"queued"}) = Where(place, {"queued"}) \cup {e}
    BY <2>2
  <2>6. e \notin InSeq(items)
    BY <1>1 DEF ExporterInv, QueueInv, Where
  <2>7. items' \in Seq(Exported) /\ Len(items') = Len(items) + 1
        /\ InSeq(items') = InSeq(items) \cup {e} /\ Unique(items')
    BY <1>2, <2>1, <2>6, AppendFacts DEF ExporterInv, QueueInv
  <2>8. CountInv'
    BY <1>1, <2>1, <2>3 DEF ExporterInv, CountInv
  <2>9. QueueInv'
    BY <1>1, <1>3, <2>3, <2>5, <2>7 DEF ExporterInv, QueueInv
  <2>10. place' \in [Exported -> EventPlaces]
    BY <2>2
  <2>11. Len(items') <= MaxItems
    BY <1>2, <1>6, <2>7, SiemAssumption DEF SiemAssumption
  <2>12. ExporterTypeOK'
    BY <1>1, <2>1, <2>7, <2>10, <2>11 DEF ExporterInv, ExporterTypeOK, settings
  <2>13. FreshInv'
    BY <1>1, <2>4, FreshUnlooked
  <2>14. QED
    BY <2>8, <2>9, <2>12, <2>13 DEF ExporterInv
<1>7. QED
  BY <1>5, <1>6

-----------------------------------------------------------------------------
(* Batches *)

LEMMA TakeBatchStep ==
  ASSUME ExporterInv, TakeBatch
  PROVE  ExporterInv'
<1>1. PICK n : n = IF Len(items) < BatchMax THEN Len(items) ELSE BatchMax
  OBVIOUS
<1>2. PICK batch : batch = SubSeq(items, 1, n)
  OBVIOUS
<1>3. /\ task.at = "idle" /\ items # << >> /\ items' = SubSeq(items, n + 1, Len(items))
      /\ inFlight' = n
      /\ task' = [at |-> "token", batch |-> batch, token |-> NoToken, attempt |-> 1]
      /\ Moves(InSeq(batch), "drained")
      /\ UNCHANGED <<settings, cache, token, made, stats, phase, flushed, aim>>
  BY <1>1, <1>2 DEF TakeBatch, InSeq, Elements
<1>4. items \in Seq(Exported) /\ Len(items) \in Nat \ {0} /\ Len(items) <= MaxItems /\ Unique(items)
  BY <1>3 DEF ExporterInv, ExporterTypeOK, QueueInv
<1>5. n \in Nat \ {0} /\ n <= Len(items)
  BY <1>1, <1>4, SiemAssumption DEF SiemAssumption
<1>6. batch \in Seq(Exported) /\ Len(batch) = n /\ InSeq(batch) = Part(items, 1, n) /\ Unique(batch)
  <2>1. 1 \in Nat \ {0} /\ n \in Nat /\ 1 <= n + 1
    BY <1>5
  <2>2. /\ SubSeq(items, 1, n) \in Seq(Exported) /\ Len(SubSeq(items, 1, n)) = n - 1 + 1
        /\ InSeq(SubSeq(items, 1, n)) = Part(items, 1, n) /\ Unique(SubSeq(items, 1, n))
    BY <1>4, <1>5, <2>1, Sliced
  <2>3. QED
    BY <1>2, <1>5, <2>2
<1>7. /\ items' \in Seq(Exported) /\ Len(items') = Len(items) - n
      /\ InSeq(items') = Part(items, n + 1, Len(items)) /\ Unique(items')
  <2>1. n + 1 \in Nat \ {0} /\ n + 1 <= Len(items) + 1 /\ Len(items) - (n + 1) + 1 = Len(items) - n
    BY <1>4, <1>5
  <2>2. /\ SubSeq(items, n + 1, Len(items)) \in Seq(Exported)
        /\ Len(SubSeq(items, n + 1, Len(items))) = Len(items) - (n + 1) + 1
        /\ InSeq(SubSeq(items, n + 1, Len(items))) = Part(items, n + 1, Len(items))
        /\ Unique(SubSeq(items, n + 1, Len(items)))
    BY <1>4, <2>1, Sliced
  <2>3. QED
    BY <1>3, <2>1, <2>2
\* What is taken and what stays make up the queue.
<1>8. InSeq(items') = InSeq(items) \ InSeq(batch) /\ InSeq(batch) \subseteq InSeq(items)
  <2>1. \A i \in 1..n : i \in 1..Len(items) /\ i \notin (n + 1)..Len(items)
    BY <1>4, <1>5
  <2>2. \A i \in (n + 1)..Len(items) : i \in 1..Len(items) /\ i \notin 1..n
    BY <1>4, <1>5
  <2>3. \A i \in 1..Len(items) : i \in 1..n \/ i \in (n + 1)..Len(items)
    BY <1>4, <1>5
  <2>4. Part(items, 1, n) \subseteq InSeq(items) /\ Part(items, n + 1, Len(items)) \subseteq InSeq(items)
    BY <2>1, <2>2 DEF Part, InSeq
  <2>5. Part(items, 1, n) \cap Part(items, n + 1, Len(items)) = {}
    BY <1>4, <2>1, <2>2 DEF Part, Unique
  <2>6. InSeq(items) \subseteq Part(items, 1, n) \cup Part(items, n + 1, Len(items))
    BY <2>3 DEF Part, InSeq
  <2>7. QED
    BY <1>6, <1>7, <2>4, <2>5, <2>6
<1>9. InSeq(items) = Where(place, {"queued"}) /\ Where(place, {"drained"}) = {}
  BY <1>3, WorkerFacts DEF ExporterInv, QueueInv
<1>10. InSeq(batch) \in SUBSET Exported /\ "drained" \in EventPlaces
  BY <1>8, <1>9 DEF Where, EventPlaces
<1>10a. Goes(place, place', InSeq(batch), "drained") /\ place \in [Exported -> EventPlaces]
  BY <1>3 DEF Moves, Goes, ExporterInv, ExporterTypeOK
<1>11. /\ \A ps : "drained" \in ps => Where(place', ps) = Where(place, ps) \cup InSeq(batch)
       /\ \A ps : "drained" \notin ps => Where(place', ps) = Where(place, ps) \ InSeq(batch)
       /\ place' \in [Exported -> EventPlaces]
  BY <1>10, <1>10a, Moved
<1>12. \A ps : "drained" \notin ps /\ "queued" \notin ps => Where(place', ps) = Where(place, ps)
  <2>1. ASSUME NEW ps, "drained" \notin ps, "queued" \notin ps
        PROVE  Where(place', ps) = Where(place, ps)
    <3>1. Where(place, ps) \cap Where(place, {"queued"}) = {}
      BY <2>1 DEF Where
    <3>2. InSeq(batch) \subseteq Where(place, {"queued"})
      BY <1>8, <1>9
    <3>3. Where(place', ps) = Where(place, ps) \ InSeq(batch)
      BY <1>11, <2>1
    <3>4. QED
      BY <3>1, <3>2, <3>3
  <2>2. QED
    BY <2>1
<1>12a. /\ Where(place', {"drained"}) = InSeq(batch) /\ Where(place', {"queued"}) = InSeq(items')
        /\ Where(place', {"loaded"}) \subseteq Where(place, {"loaded"})
  BY <1>8, <1>9, <1>11
<1>13. task' \in Worker /\ task'.batch = batch /\ task'.at = "token"
  BY <1>3, <1>6, SiemAssumption DEF SiemAssumption, Worker
<1>14. QueueInv'
  <2>1. phase = "running"
    BY <1>3 DEF ExporterInv, QueueInv, ExporterTypeOK
  <2>2. InSeq(task.batch)' = InSeq(batch) /\ Unique(task.batch)' = Unique(batch)
    BY <1>13 DEF InSeq, Unique
  <2>3. QED
    BY <1>3, <1>6, <1>7, <1>12, <1>12a, <1>13, <2>1, <2>2 DEF ExporterInv, QueueInv
<1>15. CountInv'
  BY <1>3, <1>12 DEF ExporterInv, CountInv, stats
<1>16. ExporterTypeOK'
  <2>1. place' \in [Exported -> EventPlaces]
    BY <1>11
  <2>2. Len(items') <= MaxItems
    BY <1>4, <1>5, <1>7, SiemAssumption DEF SiemAssumption
  <2>3. QED
    BY <1>3, <1>5, <1>7, <1>13, <2>1, <2>2 DEF ExporterInv, ExporterTypeOK, settings, stats
<1>17. FreshInv'
  BY <1>3, <1>12a, <1>13, FreshUnlooked
<1>18. QED
  BY <1>14, <1>15, <1>16, <1>17 DEF ExporterInv

\* The worker's batch goes to one place, whole.
LEMMA BatchGoes ==
  ASSUME ExporterInv, NEW p \in {"sent", "failed", "lost"}, Moves(Elements(task.batch), p),
         task' \in {Idle, NoWorker}, inFlight' = 0, phase' # "running" => task' = NoWorker,
         p = "lost" \/ phase = "stopped" => phase' = "stopped", UNCHANGED items
  PROVE  /\ QueueInv' /\ place' \in [Exported -> EventPlaces]
         /\ Where(place', {"loaded"}) \subseteq Where(place, {"loaded"})
         /\ \A ps : "drained" \notin ps /\ p \notin ps => Where(place', ps) = Where(place, ps)
         /\ \A ps : "drained" \notin ps /\ p \in ps =>
               Cardinality(Where(place', ps)) = Cardinality(Where(place, ps)) + Len(task.batch)
<1>1. Elements(task.batch) = Where(place, {"drained"}) /\ InSeq(task.batch) = Where(place, {"drained"})
  BY DEF ExporterInv, QueueInv, Elements, InSeq
<1>2. Elements(task.batch) \in SUBSET Exported /\ p \in EventPlaces
  BY <1>1, AtFinite DEF EventPlaces
<1>3. \A ps : "drained" \notin ps => Where(place, ps) \cap Where(place, {"drained"}) = {}
  BY DEF Where
<1>2a. Goes(place, place', Where(place, {"drained"}), p) /\ place \in [Exported -> EventPlaces]
  BY <1>1 DEF Moves, Goes, ExporterInv, ExporterTypeOK
<1>2b. Where(place, {"drained"}) \in SUBSET Exported
  BY <1>1, <1>2
<1>3a. /\ \A ps : p \in ps => Where(place', ps) = Where(place, ps) \cup Where(place, {"drained"})
       /\ \A ps : p \notin ps => Where(place', ps) = Where(place, ps) \ Where(place, {"drained"})
       /\ place' \in [Exported -> EventPlaces]
  BY <1>2, <1>2a, <1>2b, Moved
<1>4. \A ps : "drained" \notin ps /\ p \notin ps => Where(place', ps) = Where(place, ps)
  BY <1>3, <1>3a
<1>5. Where(place', {"drained"}) = {}
  BY <1>3a
<1>6. task.batch \in Seq(Exported) /\ Unique(task.batch)
  BY DEF ExporterInv, ExporterTypeOK, QueueInv, Worker
<1>7. Cardinality(Where(place, {"drained"})) = Len(task.batch) /\ Len(task.batch) \in Nat
  BY <1>1, <1>6, UniqueCounted
<1>8. ASSUME NEW ps, "drained" \notin ps, p \in ps
      PROVE  Cardinality(Where(place', ps)) = Cardinality(Where(place, ps)) + Len(task.batch)
  <2>1. Where(place', ps) = Where(place, ps) \cup Where(place, {"drained"})
    BY <1>8, <1>3a
  <2>2. Where(place, ps) \cap Where(place, {"drained"}) = {}
    BY <1>3, <1>8
  <2>3. IsFiniteSet(Where(place, ps)) /\ IsFiniteSet(Where(place, {"drained"})) /\ Cardinality(Where(place, ps)) \in Nat
    BY AtFinite
  <2>4. Cardinality(Where(place, ps) \cup Where(place, {"drained"}))
        = Cardinality(Where(place, ps)) + Cardinality(Where(place, {"drained"})) - Cardinality(Where(place, ps) \cap Where(place, {"drained"}))
    BY <2>3, FS_Union
  <2>5. Cardinality(Where(place, ps) \cap Where(place, {"drained"})) = 0
    BY <2>2, FS_EmptySet
  <2>6. QED
    BY <1>7, <2>1, <2>3, <2>4, <2>5
<1>9. task'.batch = << >> /\ task'.at \in {"idle", "none"} /\ (phase' # "running" => task'.at = "none")
  BY WorkerFacts DEF NoWorker
<1>10. InSeq(task.batch)' = {} /\ Unique(task.batch)' /\ Len(task'.batch) = 0
  BY <1>9 DEF InSeq, Unique
<1>11. InSeq(items)' = InSeq(items) /\ Unique(items)' = Unique(items) /\ Where(place', {"queued"}) = Where(place, {"queued"})
  BY <1>4 DEF InSeq, Unique
<1>12. Where(place', {"lost"}) # {} => phase' = "stopped"
  <2>1. CASE p = "lost"
    BY <2>1
  <2>2. CASE p # "lost"
    BY <1>4, <2>2 DEF ExporterInv, QueueInv
  <2>3. QED
    BY <2>1, <2>2
<1>13. QueueInv'
  BY <1>5, <1>9, <1>10, <1>11, <1>12 DEF ExporterInv, QueueInv
<1>14. place' \in [Exported -> EventPlaces] /\ Where(place', {"loaded"}) = Where(place, {"loaded"})
  BY <1>3a, <1>4
<1>15. QED
  BY <1>4, <1>8, <1>13, <1>14

LEMMA BatchEndsStep ==
  ASSUME ExporterInv, Accepted \/ GivesUp
  PROVE  ExporterInv'
<1>1. /\ task' = Idle /\ inFlight' = 0
      /\ UNCHANGED <<settings, cache, token, made, items, phase, flushed, aim>>
      /\ task.at \in {"token", "sending"}
  BY DEF Accepted, GivesUp, BatchEnds
<1>2. phase = "running" /\ Len(task.batch) \in Nat /\ sent \in Nat /\ dropped \in Nat
  BY <1>1 DEF ExporterInv, ExporterTypeOK, QueueInv, Worker
<1>3. PICK p \in {"sent", "failed"} :
        /\ Moves(Elements(task.batch), p)
        /\ p = "sent" => sent' = sent + Len(task.batch) /\ dropped' = dropped
        /\ p = "failed" => dropped' = dropped + Len(task.batch) /\ sent' = sent
  BY DEF Accepted, GivesUp, BatchEnds
<1>4. /\ QueueInv' /\ place' \in [Exported -> EventPlaces]
      /\ Where(place', {"loaded"}) \subseteq Where(place, {"loaded"})
      /\ \A ps : "drained" \notin ps /\ p \notin ps => Where(place', ps) = Where(place, ps)
      /\ \A ps : "drained" \notin ps /\ p \in ps =>
            Cardinality(Where(place', ps)) = Cardinality(Where(place, ps)) + Len(task.batch)
  BY <1>1, <1>2, <1>3, BatchGoes
<1>5. CountInv'
  <2>1. CASE p = "sent"
    BY <1>3, <1>4, <2>1 DEF ExporterInv, CountInv
  <2>2. CASE p = "failed"
    BY <1>3, <1>4, <2>2 DEF ExporterInv, CountInv
  <2>3. QED
    BY <2>1, <2>2
<1>6. ExporterTypeOK'
  <2>1. sent' \in Nat /\ dropped' \in Nat
    BY <1>2, <1>3
  <2>2. QED
    BY <1>1, <1>4, <2>1, WorkerFacts DEF ExporterInv, ExporterTypeOK, settings
<1>7. FreshInv'
  <2>1. task'.at # "fetched"
    BY <1>1, WorkerFacts
  <2>2. QED
    BY <1>1, <1>4, <2>1, FreshUnlooked
<1>8. QED
  BY <1>4, <1>5, <1>6, <1>7 DEF ExporterInv

LEMMA StopExporterStep ==
  ASSUME ExporterInv, StopExporter
  PROVE  ExporterInv'
<1>1. /\ task' = NoWorker /\ inFlight' = 0 /\ phase' = "stopped" /\ Moves(Elements(task.batch), "lost")
      /\ UNCHANGED <<settings, cache, token, made, items, stats, flushed, aim>>
  BY DEF StopExporter
<1>2. /\ QueueInv' /\ place' \in [Exported -> EventPlaces]
      /\ Where(place', {"loaded"}) \subseteq Where(place, {"loaded"})
      /\ \A ps : "drained" \notin ps /\ "lost" \notin ps => Where(place', ps) = Where(place, ps)
  BY <1>1, BatchGoes
<1>3. CountInv'
  BY <1>1, <1>2 DEF ExporterInv, CountInv, stats
<1>4. ExporterTypeOK'
  BY <1>1, <1>2, WorkerFacts DEF ExporterInv, ExporterTypeOK, settings, stats
<1>5. FreshInv'
  <2>1. task'.at # "fetched"
    BY <1>1 DEF NoWorker
  <2>2. QED
    BY <1>1, <1>2, <2>1, FreshUnlooked
<1>6. QED
  BY <1>2, <1>3, <1>4, <1>5 DEF ExporterInv

-----------------------------------------------------------------------------
(* The theorems about the exporter *)

LEMMA ExporterStutters == ExporterInv /\ UNCHANGED exporterVars => ExporterInv'
<1> SUFFICES ASSUME ExporterInv, UNCHANGED exporterVars PROVE ExporterInv'
  OBVIOUS
<1>1. ExporterTypeOK'
  BY DEF ExporterInv, ExporterTypeOK, exporterVars, settings, stats
<1>2. QueueInv' /\ CountInv'
  <2>1. task'.at \in {"none", "idle"} => task'.batch = << >>
    BY DEF ExporterInv, QueueInv, exporterVars
  <2>2. phase' # "running" => task'.at = "none"
    BY DEF ExporterInv, QueueInv, exporterVars
  <2>3. QED
    BY <2>1, <2>2, NothingMoves DEF exporterVars
<1>3. FreshInv'
  <2>1. Where(place', {"loaded"}) = Where(place, {"loaded"})
    BY DEF exporterVars
  <2>2. QED
    BY <2>1, FreshUnlooked DEF exporterVars
<1>4. QED
  BY <1>1, <1>2, <1>3 DEF ExporterInv

LEMMA ExporterStep == ExporterInv /\ [ExporterNext]_exporterVars => ExporterInv'
  BY LookUpStep, PushStep, BatchKept, TakeBatchStep, BatchEndsStep, ExporterStarts, StopExporterStep,
     SettingsStep, ExporterStutters
  DEF ExporterNext, EmitNowait, TaskRuns

LEMMA ExporterInvHolds == ExporterSpec => []ExporterInv
  BY ExporterInitInv, ExporterStep, PTL DEF ExporterSpec

\* Loss is visible: the two counters, the queue and the batch under way account for
\* every event that came to the queue, each once, until the exporter is stopped.
THEOREM ExportIsAccounted == ExporterSpec => []ExportAccounted
<1>1. ExporterInv => ExportAccounted
  <2> SUFFICES ASSUME ExporterInv PROVE ExportAccounted
    OBVIOUS
  <2>1. Elements(items) = InSeq(items) /\ Elements(task.batch) = InSeq(task.batch)
    BY DEF Elements, InSeq
  <2>2. items \in Seq(Exported) /\ task.batch \in Seq(Exported)
    BY DEF ExporterInv, ExporterTypeOK, Worker
  <2>3. Cardinality(InSeq(items)) = Len(items) /\ Cardinality(InSeq(task.batch)) = Len(task.batch)
    BY <2>2, UniqueCounted DEF ExporterInv, QueueInv
  <2>4. \A ps : At(ps) = Where(place, ps)
    BY AtWhere
  <2>5. QED
    BY <2>1, <2>3, <2>4 DEF ExporterInv, QueueInv, CountInv, ExportAccounted
<1>2. QED
  BY <1>1, ExporterInvHolds, PTL

\* invalidate() leaves no old answer of either cache in use, but for a look-up or a
\* token fetch that was on its way.
THEOREM SettingsChangesTakeEffect == ExporterSpec => []SettingsTakeEffect
<1>1. ExporterInv => SettingsTakeEffect
  BY DEF ExporterInv, FreshInv, SettingsTakeEffect
<1>2. QED
  BY <1>1, ExporterInvHolds, PTL

\* flush() returns True only when no event is in the queue or with the worker.
THEOREM FlushedMeansSettled == ExporterSpec => FlushMeansSettled
<1>1. ASSUME ExporterInv, ExporterNext, flushed', ~flushed
      PROVE  At({"queued", "drained"}) = {}
  <2>1. Flush
    BY <1>1 DEF ExporterNext, EmitNowait, TaskRuns, Hit, Load, Store, Push, EnsureWorker, TakeBatch,
       UseToken, FetchToken, TokenArrives, Accepted, GivesUp, BatchEnds, Retry, StartExporter,
       StopExporter, Configure, StoreToken, Invalidate, ExpireTarget, ExpireToken
  <2>2. items = << >> /\ inFlight = 0
    BY <2>1 DEF Flush
  <2>3. task.batch \in Seq(Exported) /\ Len(task.batch) = 0
    BY <1>1, <2>2 DEF ExporterInv, ExporterTypeOK, QueueInv, Worker
  <2>4. Where(place, {"queued"}) = {} /\ Where(place, {"drained"}) = {}
    BY <1>1, <2>2, <2>3, WorkerFacts DEF ExporterInv, QueueInv
  <2>5. QED
    BY <2>4 DEF At, Where
<1>2. ExporterInv /\ [ExporterNext]_exporterVars =>
         [flushed' /\ ~flushed => At({"queued", "drained"}) = {}]_exporterVars
  BY <1>1
<1>3. QED
  BY <1>2, ExporterInvHolds, PTL DEF ExporterSpec, FlushMeansSettled

=============================================================================
