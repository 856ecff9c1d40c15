-------------------------- MODULE Directory_proofs --------------------------
(***************************************************************************)
(* Theorems about Directory, for any persons, requests, pollers and        *)
(* sweepers.                                                               *)
(***************************************************************************)
EXTENDS Directory, TLAPS

\* Whoever has loaded a row that is gone has been told so.
LoadedIsThere ==
    /\ \A r \in Requests :
          request[r] # None /\ ~request[r].gone => user[request[r].person] # None
    /\ \A w \in Pollers, p \in Persons :
          poll[w].seen[p] # None /\ ~poll[w].seen[p].gone => user[p] # None

\* An active row with a soft_deleted_at has two writers, or was PUT.
Marked ==
    \A p \in Persons :
        user[p] # None /\ ~user[p].disabled /\ user[p].softDeleted # "no" => p \in mixed

\* What a sweeper is about to delete is there, and not active without a reason.
Picked ==
    \A s \in Sweepers, p \in Persons :
        sweep[s][p] = "due" =>
            user[p] # None /\ (user[p].disabled \/ p \in mixed \cup restored)

IInv == TypeOK /\ LoadedIsThere /\ Marked /\ Picked

-----------------------------------------------------------------------------
(* What the operators return *)

LEMMA AfterType ==
  ASSUME NEW op \in Ops, NEW u \in User
  PROVE  /\ After(op, u) \in User
         /\ ~After(op, u).disabled =>
               \/ op = "patch_on" /\ After(op, u).softDeleted = "no"
               \/ op = "put_on" /\ After(op, u).softDeleted = u.softDeleted
               \/ After(op, u).disabled = u.disabled /\ After(op, u).softDeleted = u.softDeleted
  BY DEF Ops, User, After

LEMMA IdlePollType == IdlePoll \in Poll
  BY DEF IdlePoll, Poll

LEMMA TwoColumns ==
  ASSUME NEW u \in User, NEW d, NEW s
  PROVE  [[u EXCEPT !.disabled = d] EXCEPT !.softDeleted = s]
             = [link |-> u.link, disabled |-> d, softDeleted |-> s]
<1>1. u = [link |-> u.link, disabled |-> u.disabled, softDeleted |-> u.softDeleted]
  BY DEF User
<1>2. [u EXCEPT !.disabled = d]
          = [link |-> u.link, disabled |-> d, softDeleted |-> u.softDeleted]
  BY <1>1
<1>3. [[link |-> u.link, disabled |-> d, softDeleted |-> u.softDeleted]
           EXCEPT !.softDeleted = s]
          = [link |-> u.link, disabled |-> d, softDeleted |-> s]
  OBVIOUS
<1>4. QED
  BY <1>2, <1>3, Zenon

\* An update keeps the row, its type and the marks of whoever it makes active.
LEMMA UpdateKeeps ==
  ASSUME TypeOK, Marked, NEW p \in Persons, NEW op \in Ops, NEW u \in User,
         user[p] # None, Update(p, op, u)
  PROVE  /\ user' \in [Persons -> User \cup {None}]
         /\ mixed' \subseteq Persons /\ restored' \subseteq Persons
         /\ \A q \in Persons : user[q] # None => user'[q] # None
         /\ mixed \subseteq mixed' /\ restored \subseteq restored'
         /\ Marked'
         /\ Candidate(p) /\ ~user'[p].disabled => p \in mixed' \cup restored'
<1> DEFINE v == After(op, u)
           disabled == IF v.disabled # u.disabled THEN v.disabled ELSE user[p].disabled
           softDeleted == IF Stamps(op, u) \/ v.softDeleted # u.softDeleted
                          THEN v.softDeleted ELSE user[p].softDeleted
           new == [link |-> user[p].link, disabled |-> disabled, softDeleted |-> softDeleted]
<1>1. user[p] \in User /\ v \in User /\ u \in User
  BY AfterType DEF TypeOK
<1>2. new \in User /\ new # None
  BY <1>1, NoneAssumption DEF User
<1>3. user' = [user EXCEPT ![p] = new]
  <2>1. [[user[p] EXCEPT !.disabled = disabled] EXCEPT !.softDeleted = softDeleted] = new
    BY <1>1, TwoColumns
  <2>2. user' = [[user EXCEPT ![p] = [user[p] EXCEPT !.disabled = disabled]]
                    EXCEPT ![p] = [[user[p] EXCEPT !.disabled = disabled]
                                       EXCEPT !.softDeleted = softDeleted]]
    BY <1>1 DEF Update, TypeOK, User
  <2>3. QED
    BY <2>1, <2>2 DEF TypeOK
<1>4. user' \in [Persons -> User \cup {None}] /\ user'[p] = new
  BY <1>2, <1>3 DEF TypeOK
<1>5. mixed' \subseteq Persons /\ restored' \subseteq Persons
  BY DEF Update, TypeOK
<1>6. mixed \subseteq mixed' /\ restored \subseteq restored'
  BY DEF Update
<1>7. \A q \in Persons : user[q] # None => user'[q] # None
  BY <1>2, <1>3 DEF TypeOK
<1>8. Marked'
  <2> SUFFICES ASSUME NEW q \in Persons, user'[q] # None, ~user'[q].disabled,
                      user'[q].softDeleted # "no"
               PROVE  q \in mixed'
    BY DEF Marked
  <2>1. CASE q # p
    BY <2>1, <1>3, <1>6 DEF Marked, TypeOK
  <2>2. CASE q = p /\ ~Overtaken(p, u) /\ ~(op = "put_on" /\ u.softDeleted # "no")
    <3>1. user[p].disabled = u.disabled /\ user[p].softDeleted = u.softDeleted
      BY <2>2 DEF Overtaken
    <3>2. user'[p].disabled = v.disabled
      BY <3>1, <1>4
    <3>3. user'[p].softDeleted = v.softDeleted
      BY <3>1, <1>4
    <3>4. v.disabled = u.disabled /\ v.softDeleted = u.softDeleted
      BY <2>2, <3>2, <3>3, AfterType
    <3>5. QED
      BY <2>2, <3>1, <3>2, <3>3, <3>4, <1>6 DEF Marked
  <2>3. CASE q = p /\ (Overtaken(p, u) \/ (op = "put_on" /\ u.softDeleted # "no"))
    BY <2>3 DEF Update
  <2>4. QED
    BY <2>1, <2>2, <2>3
<1>9. Candidate(p) /\ ~user'[p].disabled => p \in mixed' \cup restored'
  <2> SUFFICES ASSUME Candidate(p), ~user'[p].disabled, p \notin mixed'
               PROVE  p \in restored'
    OBVIOUS
  <2>1. ~Overtaken(p, u)
    BY DEF Update
  <2>2. ~v.disabled
    BY <2>1, <1>4 DEF Overtaken
  <2>3. QED
    BY <2>2 DEF Update
<1>10. QED
  BY <1>4, <1>5, <1>6, <1>7, <1>8, <1>9

-----------------------------------------------------------------------------
(* The pollers *)

\* What a step does to one poller, when it takes no row away.
LEMMA PollMoves ==
  ASSUME TypeOK, LoadedIsThere, NEW w \in Pollers, NEW next \in Poll,
         poll' = [poll EXCEPT ![w] = next], UNCHANGED request,
         \A p \in Persons : user[p] # None => user'[p] # None,
         \A p \in Persons :
            next.seen[p] # None /\ ~next.seen[p].gone => user'[p] # None
  PROVE  poll' \in [Pollers -> Poll] /\ LoadedIsThere'
<1>1. poll' \in [Pollers -> Poll]
  BY DEF TypeOK
<1>2. \A r \in Requests : request[r] # None => request[r].person \in Persons
  BY DEF TypeOK, Request
<1>3. \A r \in Requests :
         request'[r] # None /\ ~request'[r].gone => user'[request'[r].person] # None
  BY <1>2 DEF LoadedIsThere
<1>4. \A x \in Pollers, p \in Persons :
         poll'[x].seen[p] # None /\ ~poll'[x].seen[p].gone => user'[p] # None
  BY DEF LoadedIsThere, TypeOK
<1>5. QED
  BY <1>1, <1>3, <1>4 DEF LoadedIsThere

LEMMA HandledMoves ==
  ASSUME TypeOK, NEW w \in Pollers, NEW p \in Persons, NEW expires \in BOOLEAN,
         Handled(w, p, expires)
  PROVE  \E next \in Poll :
            /\ poll' = [poll EXCEPT ![w] = next]
            /\ \A x \in Persons : next.seen[x] # None =>
                  poll[w].seen[x] # None /\ next.seen[x].gone = poll[w].seen[x].gone
<1> DEFINE q == poll[w]
           seen == [x \in Persons |->
                       IF q.seen[x] = None THEN None
                       ELSE [q.seen[x] EXCEPT !.expired = @ \/ expires]]
           local == IF p \in q.remote THEN q.local ELSE q.local \ {p}
           next == [q EXCEPT !.remote = q.remote \ {p}, !.local = local, !.seen = seen]
<1>1. q \in Poll
  BY DEF TypeOK
<1>2. \A x \in Persons : q.seen[x] # None =>
         /\ [q.seen[x] EXCEPT !.expired = @ \/ expires] \in Loaded
         /\ [q.seen[x] EXCEPT !.expired = @ \/ expires].gone = q.seen[x].gone
  BY <1>1 DEF Poll, Loaded
<1>3. seen \in [Persons -> Loaded \cup {None}]
  BY <1>2
<1>4. next \in Poll /\ next.seen = seen
  BY <1>1, <1>3 DEF Poll
<1>5. poll' = [poll EXCEPT ![w] = next]
  BY <1>1 DEF Handled, TypeOK
<1>6. \A x \in Persons : next.seen[x] # None =>
         q.seen[x] # None /\ next.seen[x].gone = q.seen[x].gone
  BY <1>2, <1>4
<1> HIDE DEF next
<1>7. QED
  BY <1>4, <1>5, <1>6

-----------------------------------------------------------------------------
(* The invariant *)

LEMMA InitIInv == Init => IInv
<1> SUFFICES ASSUME Init PROVE IInv
  OBVIOUS
<1>1. TypeOK
  BY IdlePollType, DirectoryAssumption DEF Init, TypeOK, Statuses
<1>2. LoadedIsThere /\ Marked /\ Picked
  BY DEF Init, IdlePoll, LoadedIsThere, Marked, Picked
<1>3. QED
  BY <1>1, <1>2 DEF IInv

\* Counting keeps to its bound.
LEMMA CountedType ==
  ASSUME TypeOK, Counted \/ UNCHANGED changes
  PROVE  changes' \in 0 .. MaxChanges
  BY DirectoryAssumption DEF TypeOK, Counted

LEMMA LoadStep ==
  ASSUME IInv, NEW r \in Requests, NEW p \in Persons, NEW op \in Ops, Load(r, p, op)
  PROVE  IInv'
<1> USE DEF IInv, Load
<1>1. [op |-> op, person |-> p, seen |-> user[p], gone |-> FALSE] \in Request
  BY DEF TypeOK, Request
<1>2. TypeOK'
  BY <1>1, CountedType DEF TypeOK, rows
<1>3. LoadedIsThere'
  BY <1>1 DEF LoadedIsThere, TypeOK, rows
<1>4. Marked' /\ Picked'
  BY DEF Marked, Picked, rows
<1>5. QED
  BY <1>2, <1>3, <1>4

\* After an update of rows by somebody who leaves polls and sweeps alone.
LEMMA PickedAfterUpdate ==
  ASSUME IInv, NEW p \in Persons, NEW op \in Ops, NEW u \in User,
         user[p] # None, Update(p, op, u), UNCHANGED sweep
  PROVE  Picked'
<1>1. \A q \in Persons : user[q] # None => user'[q] # None
  BY UpdateKeeps DEF IInv
<1>2. mixed \subseteq mixed' /\ restored \subseteq restored'
  BY UpdateKeeps DEF IInv
<1>3. Candidate(p) /\ ~user'[p].disabled => p \in mixed' \cup restored'
  BY UpdateKeeps DEF IInv
<1>4. \A q \in Persons \ {p} : user'[q] = user[q]
  BY DEF Update, IInv, TypeOK
<1>5. SUFFICES ASSUME NEW s \in Sweepers, NEW q \in Persons, sweep[s][q] = "due"
               PROVE  user'[q] # None /\ (user'[q].disabled \/ q \in mixed' \cup restored')
  BY DEF Picked
<1>6. CASE q = p
  BY <1>1, <1>3, <1>5, <1>6 DEF Picked, Candidate, IInv
<1>7. CASE q # p
  BY <1>2, <1>4, <1>5, <1>7 DEF Picked, IInv
<1>8. QED
  BY <1>6, <1>7

LEMMA CommitStep ==
  ASSUME IInv, NEW r \in Requests, Commit(r)
  PROVE  IInv'
<1> DEFINE q == request[r]
<1>1. q \in Request /\ q # None
  BY DEF Commit, IInv, TypeOK
<1>2. q.person \in Persons /\ q.op \in Ops /\ q.seen \in User
  BY <1>1 DEF Request
<1>3. request' \in [Requests -> Request \cup {None}]
  BY DEF Commit, IInv, TypeOK
<1>4. /\ \A x \in Requests : request'[x] # None => request'[x] = request[x]
      /\ barred' \subseteq Persons
  BY <1>2 DEF Commit, IInv, TypeOK
<1>5. CASE Writes(q.op, q.seen) /\ ~q.gone
  <2>1. user[q.person] # None
    BY <1>1, <1>5 DEF IInv, LoadedIsThere
  <2>2. Update(q.person, q.op, q.seen)
    BY <1>5 DEF Commit
  <2>3. /\ user' \in [Persons -> User \cup {None}]
        /\ mixed' \subseteq Persons /\ restored' \subseteq Persons
        /\ \A x \in Persons : user[x] # None => user'[x] # None
        /\ Marked'
    BY <1>2, <2>1, <2>2, UpdateKeeps DEF IInv
  <2>4. Picked'
    BY <1>2, <2>1, <2>2, PickedAfterUpdate DEF Commit
  <2>5. TypeOK'
    BY <1>3, <1>4, <2>3 DEF Commit, IInv, TypeOK
  <2>6. LoadedIsThere'
    <3>1. \A x \in Requests : request[x] # None => request[x].person \in Persons
      BY DEF IInv, TypeOK, Request
    <3>2. QED
      BY <1>4, <2>3, <3>1 DEF Commit, IInv, LoadedIsThere
  <2>7. QED
    BY <2>3, <2>4, <2>5, <2>6 DEF IInv
<1>6. CASE ~(Writes(q.op, q.seen) /\ ~q.gone)
  <2>1. UNCHANGED rows
    BY <1>6 DEF Commit
  <2>2. TypeOK'
    BY <1>3, <1>4, <2>1 DEF Commit, IInv, TypeOK, rows
  <2>3. LoadedIsThere' /\ Marked' /\ Picked'
    BY <1>4, <2>1 DEF Commit, IInv, LoadedIsThere, Marked, Picked, rows
  <2>4. QED
    BY <2>2, <2>3 DEF IInv
<1>7. QED
  BY <1>5, <1>6

\* A row is created where there was none.
LEMMA CreateKeeps ==
  ASSUME TypeOK, Marked, Picked, NEW p \in Persons, NEW link \in {"id", "subject", "none"},
         NEW disabled \in BOOLEAN, Create(p, link, disabled), UNCHANGED sweep
  PROVE  /\ user' \in [Persons -> User \cup {None}]
         /\ mixed' \subseteq Persons /\ restored' \subseteq Persons
         /\ \A q \in Persons : user[q] # None => user'[q] # None
         /\ Marked' /\ Picked'
<1> DEFINE new == [link |-> link, disabled |-> disabled, softDeleted |-> "no"]
<1>1. new \in User /\ new # None /\ new.softDeleted = "no"
  BY NoneAssumption DEF User
<1>2. user[p] = None /\ user' = [user EXCEPT ![p] = new]
  BY DEF Create
<1> HIDE DEF new
<1>3. user' \in [Persons -> User \cup {None}]
  BY <1>1, <1>2 DEF TypeOK
<1>4. \A q \in Persons : user[q] # None => user'[q] = user[q]
  BY <1>2 DEF TypeOK
<1>5. Marked'
  BY <1>1, <1>2 DEF Create, Marked, TypeOK
<1>6. Picked'
  BY <1>4 DEF Create, Picked
<1>7. QED
  BY <1>3, <1>4, <1>5, <1>6 DEF Create, TypeOK

\* The same for whoever leaves requests and polls alone.
LEMMA CreateStep ==
  ASSUME IInv, NEW p \in Persons, NEW link \in {"id", "subject", "none"},
         NEW disabled \in BOOLEAN, Create(p, link, disabled),
         Counted \/ UNCHANGED changes,
         UNCHANGED <<transport, connected, staff, request, poll, sweep, inactive, barred>>
  PROVE  IInv'
<1>1. /\ user' \in [Persons -> User \cup {None}]
      /\ mixed' \subseteq Persons /\ restored' \subseteq Persons
      /\ \A q \in Persons : user[q] # None => user'[q] # None
      /\ Marked' /\ Picked'
  BY CreateKeeps DEF IInv
<1>2. TypeOK'
  BY <1>1, CountedType DEF IInv, TypeOK
<1>3. \A r \in Requests : request[r] # None => request[r].person \in Persons
  BY DEF IInv, TypeOK, Request
<1>4. LoadedIsThere'
  BY <1>1, <1>3 DEF IInv, LoadedIsThere
<1>5. QED
  BY <1>1, <1>2, <1>4 DEF IInv

LEMMA DisconnectStep ==
  ASSUME IInv, Disconnect
  PROVE  IInv'
<1>1. \A p \in Persons : user[p] # None =>
         /\ [user[p] EXCEPT !.link = "none"] \in User
         /\ [user[p] EXCEPT !.link = "none"] # None
         /\ [user[p] EXCEPT !.link = "none"].disabled = user[p].disabled
         /\ [user[p] EXCEPT !.link = "none"].softDeleted = user[p].softDeleted
  BY NoneAssumption DEF IInv, TypeOK, User
<1>2. user' \in [Persons -> User \cup {None}]
  BY <1>1 DEF Disconnect
<1>3. \A p \in Persons :
         /\ user[p] # None <=> user'[p] # None
         /\ user[p] # None => /\ user'[p].disabled = user[p].disabled
                             /\ user'[p].softDeleted = user[p].softDeleted
  BY <1>1 DEF Disconnect
<1>4. \A w \in Pollers :
         /\ [poll[w] EXCEPT !.valid = FALSE] \in Poll
         /\ [poll[w] EXCEPT !.valid = FALSE].seen = poll[w].seen
  <2>1. \A w \in Pollers : poll[w] \in Poll
    BY DEF IInv, TypeOK
  <2>2. \A x \in Poll : [x EXCEPT !.valid = FALSE] \in Poll
    BY DEF Poll
  <2>3. \A x \in Poll : [x EXCEPT !.valid = FALSE].seen = x.seen
    BY DEF Poll
  <2>4. QED
    BY <2>1, <2>2, <2>3
<1>5. /\ poll' \in [Pollers -> Poll]
      /\ \A w \in Pollers : poll'[w].seen = poll[w].seen
  BY <1>4 DEF Disconnect
<1>6. TypeOK'
  BY <1>2, <1>5, CountedType DEF IInv, TypeOK, Disconnect
<1>7. \A r \in Requests : request[r] # None => request[r].person \in Persons
  BY DEF IInv, TypeOK, Request
<1>8. LoadedIsThere'
  BY <1>3, <1>5, <1>7 DEF IInv, LoadedIsThere, Disconnect
<1>9. Marked' /\ Picked'
  BY <1>3 DEF IInv, Marked, Picked, Disconnect
<1>10. QED
  BY <1>6, <1>8, <1>9 DEF IInv

LEMMA StaffStep ==
  ASSUME IInv, NEW p \in Persons, NEW status \in Statuses, StaffChange(p, status)
  PROVE  IInv'
<1>1. staff' \in [Persons -> Statuses] /\ inactive' \in [Pollers -> SUBSET Persons]
  BY DEF StaffChange, IInv, TypeOK
<1>2. TypeOK'
  BY <1>1, CountedType DEF StaffChange, rows, IInv, TypeOK
<1>3. LoadedIsThere' /\ Marked' /\ Picked'
  BY DEF StaffChange, rows, IInv, LoadedIsThere, Marked, Picked
<1>4. QED
  BY <1>2, <1>3 DEF IInv

LEMMA ConnectStep ==
  ASSUME IInv, Connect
  PROVE  IInv'
  BY DEF Connect, rows, IInv, TypeOK, LoadedIsThere, Marked, Picked

LEMMA GraceStep ==
  ASSUME IInv, NEW p \in Persons, GraceElapses(p)
  PROVE  IInv'
<1> DEFINE new == [user[p] EXCEPT !.softDeleted = "due"]
<1>1. /\ new \in User /\ new # None
      /\ new.disabled = user[p].disabled /\ user[p].softDeleted # "no"
  BY NoneAssumption DEF GraceElapses, IInv, TypeOK, User
<1>2. user' = [user EXCEPT ![p] = new]
  BY DEF GraceElapses
<1> HIDE DEF new
<1>3. user' \in [Persons -> User \cup {None}]
  BY <1>1, <1>2 DEF IInv, TypeOK
<1>4. \A q \in Persons : user[q] # None => user'[q] # None
  BY <1>1, <1>2 DEF IInv, TypeOK
<1>5. TypeOK'
  BY <1>3 DEF GraceElapses, IInv, TypeOK
<1>6. \A r \in Requests : request[r] # None => request[r].person \in Persons
  BY DEF IInv, TypeOK, Request
<1>7. LoadedIsThere'
  BY <1>4, <1>6 DEF GraceElapses, IInv, LoadedIsThere
<1>8. Marked'
  BY <1>1, <1>2 DEF GraceElapses, IInv, TypeOK, Marked
<1>9. Picked'
  BY DEF GraceElapses, Quiet, Picked
<1>10. QED
  BY <1>5, <1>7, <1>8, <1>9 DEF IInv

-----------------------------------------------------------------------------
(* The steps of a poller *)

\* A poller that touches no row and keeps to what it has loaded.
LEMMA PollOnly ==
  ASSUME IInv, NEW w \in Pollers, NEW next \in Poll, poll' = [poll EXCEPT ![w] = next],
         \A p \in Persons :
            next.seen[p] # None /\ ~next.seen[p].gone => user[p] # None,
         inactive' \in [Pollers -> SUBSET Persons], Counted \/ UNCHANGED changes,
         UNCHANGED <<transport, connected, staff, request, sweep, barred, rows>>
  PROVE  IInv'
<1>1. poll' \in [Pollers -> Poll] /\ LoadedIsThere'
  <2>1. UNCHANGED user
    BY DEF rows
  <2>2. QED
    BY <2>1, PollMoves DEF IInv
<1>2. TypeOK'
  BY <1>1, CountedType DEF IInv, TypeOK, rows
<1>3. Marked' /\ Picked'
  BY DEF IInv, Marked, Picked, rows
<1>4. QED
  BY <1>1, <1>2, <1>3 DEF IInv

LEMMA PollEndsStep ==
  ASSUME IInv, NEW w \in Pollers, PollEnds(w), Counted \/ UNCHANGED changes,
         UNCHANGED <<transport, connected, staff, request, sweep, barred, rows>>
  PROVE  IInv'
<1>1. IdlePoll \in Poll /\ \A p \in Persons : IdlePoll.seen[p] = None
  BY IdlePollType DEF IdlePoll
<1>2. inactive' \in [Pollers -> SUBSET Persons]
  BY DEF PollEnds, IInv, TypeOK
<1>3. QED
  BY <1>1, <1>2, PollOnly DEF PollEnds

LEMMA StartStep ==
  ASSUME IInv, NEW w \in Pollers, StartPoll(w)
  PROVE  IInv'
<1> DEFINE next == [poll[w] EXCEPT !.at = "listing", !.valid = TRUE]
<1>1. poll[w] \in Poll
  BY DEF IInv, TypeOK
<1>2. next \in Poll /\ next.seen = poll[w].seen
  BY <1>1 DEF Poll
<1>3. poll' = [poll EXCEPT ![w] = next]
  BY <1>1 DEF StartPoll, IInv, TypeOK
<1>4. inactive' \in [Pollers -> SUBSET Persons]
  BY DEF StartPoll, IInv, TypeOK
<1> HIDE DEF next
<1>5. \A x \in Persons : next.seen[x] # None /\ ~next.seen[x].gone => user[x] # None
  BY <1>2 DEF IInv, LoadedIsThere
<1>6. QED
  BY <1>2, <1>3, <1>4, <1>5, PollOnly DEF StartPoll

LEMMA ReadPageStep ==
  ASSUME IInv, NEW w \in Pollers, NEW p \in Persons, ReadPage(w, p)
  PROVE  IInv'
<1> DEFINE next == [poll[w] EXCEPT !.listed = [@ EXCEPT ![p] = staff[p]]]
<1>1. poll[w] \in Poll
  BY DEF IInv, TypeOK
<1>2. next \in Poll /\ next.seen = poll[w].seen
  BY <1>1 DEF Poll, IInv, TypeOK
<1>3. poll' = [poll EXCEPT ![w] = next]
  BY <1>1 DEF ReadPage, IInv, TypeOK
<1>4. inactive' \in [Pollers -> SUBSET Persons]
  BY DEF ReadPage, IInv, TypeOK
<1> HIDE DEF next
<1>5. \A x \in Persons : next.seen[x] # None /\ ~next.seen[x].gone => user[x] # None
  BY <1>2 DEF IInv, LoadedIsThere
<1>6. QED
  BY <1>2, <1>3, <1>4, <1>5, PollOnly DEF ReadPage

LEMMA BeginStep ==
  ASSUME IInv, NEW w \in Pollers, BeginReconcile(w)
  PROVE  IInv'
<1> DEFINE listed == poll[w].listed
           linked == {p \in Persons : user[p] # None /\ user[p].link # "none"}
           seen == [p \in Persons |->
                       IF p \notin linked THEN None
                       ELSE [row |-> user[p], expired |-> FALSE, gone |-> FALSE]]
           present == {p \in Persons : listed[p] # "absent"}
           local == {p \in linked : p \notin present \/ user[p].link = "subject"}
           next == [poll[w] EXCEPT !.at = "reconciling", !.listed = listed, !.seen = seen,
                       !.remote = present, !.local = local]
<1>1. poll[w] \in Poll
  BY DEF IInv, TypeOK
<1>2. seen \in [Persons -> Loaded \cup {None}]
  BY DEF Loaded, IInv, TypeOK
<1>3. next \in Poll /\ next.seen = seen
  BY <1>1, <1>2 DEF Poll
<1>4. poll' = [poll EXCEPT ![w] = next]
  BY <1>1 DEF BeginReconcile, Reconciling, IInv, TypeOK
<1>5. \A p \in Persons : seen[p] # None => user[p] # None
  OBVIOUS
<1>6. inactive' \in [Pollers -> SUBSET Persons]
  BY DEF BeginReconcile, IInv, TypeOK
<1> HIDE DEF next, seen
<1>7. QED
  BY <1>3, <1>4, <1>5, <1>6, PollOnly DEF BeginReconcile

LEMMA ReloadStep ==
  ASSUME IInv, NEW w \in Pollers, NEW p \in Persons, Reload(w, p)
  PROVE  IInv'
<1>1. CASE poll[w].seen[p].gone
  BY <1>1, PollEndsStep DEF Reload
<1>2. CASE ~poll[w].seen[p].gone
  <2> DEFINE object == [poll[w].seen[p] EXCEPT !.row = user[p], !.expired = FALSE]
             next == [poll[w] EXCEPT !.seen = [@ EXCEPT ![p] = object]]
  <2>1. poll[w] \in Poll /\ poll[w].seen[p] # None
    BY DEF Reload, Known, IInv, TypeOK
  <2>2. poll[w].seen[p] \in Loaded /\ user[p] \in User /\ user[p] # None
    BY <1>2, <2>1 DEF Poll, IInv, TypeOK, LoadedIsThere
  <2>3. object \in Loaded
    BY <2>2 DEF Loaded
  <2>4. poll' = [poll EXCEPT ![w] = next]
    BY <1>2, <2>1, <2>2 DEF Reload, IInv, TypeOK, Poll, Loaded
  <2> HIDE DEF object
  <2>5. next \in Poll /\ next.seen = [poll[w].seen EXCEPT ![p] = object]
    BY <2>1, <2>3 DEF Poll
  <2>6. inactive' \in [Pollers -> SUBSET Persons]
    BY <1>2 DEF Reload, IInv, TypeOK
  <2> HIDE DEF next
  <2>7. \A x \in Persons : next.seen[x] # None /\ ~next.seen[x].gone => user[x] # None
    BY <2>1, <2>2, <2>5 DEF IInv, LoadedIsThere, Poll
  <2>8. QED
    BY <1>2, <2>4, <2>5, <2>6, <2>7, PollOnly DEF Reload
<1>3. QED
  BY <1>1, <1>2

\* A poller that creates or updates a row and goes on to the next.
LEMMA HandledStep ==
  ASSUME IInv, NEW w \in Pollers, NEW p \in Persons, NEW expires \in BOOLEAN,
         Handled(w, p, expires),
         user' \in [Persons -> User \cup {None}],
         mixed' \subseteq Persons, restored' \subseteq Persons,
         \A q \in Persons : user[q] # None => user'[q] # None,
         Marked', Picked',
         UNCHANGED <<transport, connected, staff, request, sweep, changes, inactive, barred>>
  PROVE  IInv'
<1>1. PICK next \in Poll :
         /\ poll' = [poll EXCEPT ![w] = next]
         /\ \A x \in Persons : next.seen[x] # None =>
               poll[w].seen[x] # None /\ next.seen[x].gone = poll[w].seen[x].gone
  BY HandledMoves DEF IInv
<1>2. \A x \in Persons : next.seen[x] # None /\ ~next.seen[x].gone => user'[x] # None
  BY <1>1 DEF IInv, LoadedIsThere
<1>3. poll' \in [Pollers -> Poll] /\ LoadedIsThere'
  BY <1>1, <1>2, PollMoves DEF IInv
<1>4. TypeOK'
  BY <1>3 DEF IInv, TypeOK
<1>5. QED
  BY <1>3, <1>4 DEF IInv

LEMMA RowsKept ==
  ASSUME IInv, UNCHANGED <<sweep, rows>>
  PROVE  /\ user' \in [Persons -> User \cup {None}]
         /\ mixed' \subseteq Persons /\ restored' \subseteq Persons
         /\ \A q \in Persons : user[q] # None => user'[q] # None
         /\ Marked' /\ Picked'
  BY DEF IInv, TypeOK, Marked, Picked, rows

LEMMA ProvisionStep ==
  ASSUME IInv, NEW w \in Pollers, NEW p \in Persons, Provision(w, p)
  PROVE  IInv'
<1>1. CASE Create(p, "id", FALSE) /\ Handled(w, p, TRUE)
  <2>1. /\ user' \in [Persons -> User \cup {None}]
        /\ mixed' \subseteq Persons /\ restored' \subseteq Persons
        /\ \A q \in Persons : user[q] # None => user'[q] # None
        /\ Marked' /\ Picked'
    BY <1>1, CreateKeeps DEF Provision, IInv
  <2>2. QED
    BY <1>1, <2>1, HandledStep DEF Provision
<1>2. CASE UNCHANGED rows /\ \E expires \in BOOLEAN : Handled(w, p, expires)
  <2>1. PICK expires \in BOOLEAN : Handled(w, p, expires)
    BY <1>2
  <2>2. QED
    BY <1>2, <2>1, RowsKept, HandledStep DEF Provision
<1>3. QED
  BY <1>1, <1>2 DEF Provision

LEMMA VerdictIsOp ==
  ASSUME NEW w, NEW p, Verdict(w, p) # "none"
  PROVE  Verdict(w, p) \in Ops
  BY DEF Verdict, Ops

LEMMA ReconcileStep ==
  ASSUME IInv, NEW w \in Pollers, NEW p \in Persons, Reconcile(w, p)
  PROVE  IInv'
<1> DEFINE op == Verdict(w, p)
           seen == poll[w].seen[p]
<1>1. seen \in Loaded /\ seen # None
  BY DEF Reconcile, Known, IInv, TypeOK, Poll
<1>2. CASE op = "none" /\ Handled(w, p, FALSE) /\ UNCHANGED <<inactive, rows>>
  BY <1>2, RowsKept, HandledStep DEF Reconcile
<1>3. CASE op # "none" /\ ~seen.gone /\ Update(p, op, seen.row) /\ Handled(w, p, TRUE)
           /\ UNCHANGED inactive
  <2>1. user[p] # None
    BY <1>1, <1>3 DEF IInv, LoadedIsThere
  <2>2. op \in Ops /\ seen.row \in User
    BY <1>1, <1>3, VerdictIsOp DEF Loaded
  <2>3. /\ user' \in [Persons -> User \cup {None}]
        /\ mixed' \subseteq Persons /\ restored' \subseteq Persons
        /\ \A q \in Persons : user[q] # None => user'[q] # None
        /\ Marked'
    BY <1>3, <2>1, <2>2, UpdateKeeps DEF IInv
  <2>4. Picked'
    BY <1>3, <2>1, <2>2, PickedAfterUpdate DEF Reconcile
  <2>5. QED
    BY <1>3, <2>3, <2>4, HandledStep DEF Reconcile
<1>4. CASE op # "none" /\ seen.gone /\ PollEnds(w) /\ UNCHANGED rows
  BY <1>4, PollEndsStep DEF Reconcile
<1>5. QED
  BY <1>2, <1>3, <1>4 DEF Reconcile

-----------------------------------------------------------------------------
(* The steps of a sweeper *)

LEMMA ScanStep ==
  ASSUME IInv, NEW s \in Sweepers, Scan(s)
  PROVE  IInv'
<1>1. sweep' \in [Sweepers -> [Persons -> {"no", "due", "gone"}]]
  BY DEF Scan, IInv, TypeOK
<1>2. TypeOK'
  BY <1>1 DEF Scan, rows, IInv, TypeOK
<1>3. Picked'
  BY DEF Scan, Due, rows, IInv, TypeOK, Marked, Picked
<1>4. QED
  BY <1>2, <1>3 DEF Scan, rows, IInv, LoadedIsThere, Marked

LEMMA SkipStep ==
  ASSUME IInv, NEW s \in Sweepers, NEW p \in Persons, Skip(s, p)
  PROVE  IInv'
<1>1. sweep' \in [Sweepers -> [Persons -> {"no", "due", "gone"}]]
  BY DEF Skip, IInv, TypeOK
<1>2. Counted \/ UNCHANGED changes
  BY DEF Skip
<1>3. changes' \in 0 .. MaxChanges
  BY <1>2, CountedType DEF IInv
<1>4. TypeOK'
  BY <1>1, <1>3 DEF Skip, rows, IInv, TypeOK
<1>5. Picked'
  BY DEF Skip, rows, IInv, TypeOK, Picked
<1>6. QED
  BY <1>4, <1>5 DEF Skip, rows, IInv, LoadedIsThere, Marked

LEMMA HardDeleteStep ==
  ASSUME IInv, NEW s \in Sweepers, NEW p \in Persons, HardDelete(s, p)
  PROVE  IInv'
<1>1. user' = [user EXCEPT ![p] = None]
  BY DEF HardDelete, Delete
<1>2. \A r \in Requests :
         /\ request'[r] \in Request \cup {None}
         /\ request'[r] # None => request[r] # None /\ request'[r].person = request[r].person
         /\ request'[r] # None /\ ~request'[r].gone =>
               ~request[r].gone /\ request[r].person # p
  BY DEF HardDelete, Delete, IInv, TypeOK, Request
<1>3. request' \in [Requests -> Request \cup {None}]
  BY <1>2 DEF HardDelete, Delete
<1>4. \A w \in Pollers :
         /\ poll'[w] \in Poll
         /\ \A q \in Persons : poll'[w].seen[q] # None /\ ~poll'[w].seen[q].gone =>
               poll[w].seen[q] # None /\ ~poll[w].seen[q].gone /\ q # p
  <2> SUFFICES ASSUME NEW w \in Pollers
               PROVE  /\ poll'[w] \in Poll
                      /\ \A q \in Persons :
                            poll'[w].seen[q] # None /\ ~poll'[w].seen[q].gone =>
                               poll[w].seen[q] # None /\ ~poll[w].seen[q].gone /\ q # p
    OBVIOUS
  <2> DEFINE object == [poll[w].seen[p] EXCEPT !.gone = TRUE]
  <2>1. poll[w] \in Poll
    BY DEF IInv, TypeOK
  <2>2. CASE poll[w].seen[p] = None
    BY <2>1, <2>2 DEF HardDelete, Delete
  <2>3. CASE poll[w].seen[p] # None
    <3>1. object \in Loaded /\ object.gone
      BY <2>1, <2>3 DEF Poll, Loaded
    <3>2. poll'[w] = [poll[w] EXCEPT !.seen = [@ EXCEPT ![p] = object]]
      BY <2>1, <2>3 DEF HardDelete, Delete, Poll, Loaded
    <3> HIDE DEF object
    <3>3. QED
      BY <2>1, <3>1, <3>2 DEF Poll
  <2>4. QED
    BY <2>2, <2>3
<1>5. poll' \in [Pollers -> Poll]
  BY <1>4 DEF HardDelete, Delete
<1>6. \A t \in Sweepers : sweep'[t] = [sweep[t] EXCEPT ![p] =
                               IF t = s \/ sweep[t][p] = "no" THEN "no" ELSE "gone"]
  BY DEF HardDelete, Delete
<1>7. TypeOK'
  <2>1. sweep' \in [Sweepers -> [Persons -> {"no", "due", "gone"}]]
    BY <1>6 DEF HardDelete, Delete, IInv, TypeOK
  <2>2. QED
    BY <1>1, <1>3, <1>5, <2>1 DEF HardDelete, Delete, IInv, TypeOK
<1>8. LoadedIsThere'
  <2>1. \A r \in Requests : request[r] # None => request[r].person \in Persons
    BY DEF IInv, TypeOK, Request
  <2>2. QED
    BY <1>1, <1>2, <1>4, <2>1 DEF IInv, TypeOK, LoadedIsThere
<1>9. Marked'
  BY <1>1 DEF HardDelete, Delete, IInv, TypeOK, Marked
<1>10. Picked'
  BY <1>1, <1>6 DEF HardDelete, Delete, IInv, TypeOK, Picked
<1>11. QED
  BY <1>7, <1>8, <1>9, <1>10 DEF IInv

-----------------------------------------------------------------------------
(* The theorems *)

LEMMA PollerKeeps ==
  ASSUME IInv, NEW w \in Pollers, PollerStep(w) \/ PollFails(w)
  PROVE  IInv'
<1>1. CASE StartPoll(w)
  BY <1>1, StartStep
<1>2. CASE BeginReconcile(w)
  BY <1>2, BeginStep
<1>3. CASE EndPoll(w)
  BY <1>3, PollEndsStep DEF EndPoll
<1>4. CASE PollFails(w)
  BY <1>4, PollEndsStep DEF PollFails
<1>5. ASSUME NEW p \in Persons, ReadPage(w, p) PROVE IInv'
  BY <1>5, ReadPageStep
<1>6. ASSUME NEW p \in Persons, Reload(w, p) PROVE IInv'
  BY <1>6, ReloadStep
<1>7. ASSUME NEW p \in Persons, Provision(w, p) PROVE IInv'
  BY <1>7, ProvisionStep
<1>8. ASSUME NEW p \in Persons, Reconcile(w, p) PROVE IInv'
  BY <1>8, ReconcileStep
<1>9. QED
  BY <1>1, <1>2, <1>3, <1>4, <1>5, <1>6, <1>7, <1>8 DEF PollerStep

LEMMA NextIInv == IInv /\ [Next]_vars => IInv'
<1> SUFFICES ASSUME IInv, [Next]_vars PROVE IInv'
  OBVIOUS
<1>1. CASE UNCHANGED vars
  BY <1>1 DEF vars, rows, IInv, TypeOK, LoadedIsThere, Marked, Picked
<1>2. ASSUME NEW r \in Requests, Commit(r) PROVE IInv'
  BY <1>2, CommitStep
<1>3. ASSUME NEW r \in Requests, NEW p \in Persons, NEW op \in Ops, Load(r, p, op)
      PROVE  IInv'
  BY <1>3, LoadStep
<1>4. ASSUME NEW p \in Persons, NEW link \in {"id", "subject"}, SignIn(p, link)
      PROVE  IInv'
  BY <1>4, CreateStep DEF SignIn
<1>5. ASSUME NEW p \in Persons, GraceElapses(p) PROVE IInv'
  BY <1>5, GraceStep
<1>6. ASSUME NEW p \in Persons, NEW active \in BOOLEAN, Post(p, active) PROVE IInv'
  <2>1. (~active) \in BOOLEAN
    OBVIOUS
  <2>2. QED
    BY <1>6, <2>1, CreateStep DEF Post
<1>7. ASSUME NEW p \in Persons, NEW status \in Statuses, StaffChange(p, status)
      PROVE  IInv'
  BY <1>7, StaffStep
<1>8. ASSUME NEW p \in Persons, CreateLocal(p) PROVE IInv'
  BY <1>8, CreateStep DEF CreateLocal
<1>9. CASE Disconnect
  BY <1>9, DisconnectStep
<1>10. CASE Connect
  BY <1>10, ConnectStep
<1>11. ASSUME NEW w \in Pollers, PollerStep(w) \/ PollFails(w) PROVE IInv'
  BY <1>11, PollerKeeps
<1>12. ASSUME NEW s \in Sweepers, Scan(s) PROVE IInv'
  BY <1>12, ScanStep
<1>13. ASSUME NEW s \in Sweepers, NEW p \in Persons, Skip(s, p) PROVE IInv'
  BY <1>13, SkipStep
<1>14. ASSUME NEW s \in Sweepers, NEW p \in Persons, HardDelete(s, p) PROVE IInv'
  BY <1>14, HardDeleteStep
<1>15. QED
  BY <1>1, <1>2, <1>3, <1>4, <1>5, <1>6, <1>7, <1>8, <1>9, <1>10, <1>11, <1>12, <1>13,
     <1>14 DEF Next, Operator

LEMMA Inductive == Spec => []IInv
<1>1. QED
  BY InitIInv, NextIInv, PTL DEF Spec

\* The variables keep their types, for any number of requests, pollers and sweepers:
\* no update ever meets a row that is not there.
THEOREM TypeCorrect == Spec => []TypeOK
<1>1. IInv => TypeOK
  BY DEF IInv
<1>2. QED
  BY <1>1, Inductive, PTL

\* No step but a sweeper's takes a row away.
LEMMA RowsStay ==
  ASSUME IInv, Next, NEW p \in Persons, user[p] # None,
         \A s \in Sweepers, q \in Persons : ~HardDelete(s, q)
  PROVE  user'[p] # None
<1>1. ASSUME NEW q \in Persons, NEW op \in Ops, NEW u \in User, user[q] # None,
             Update(q, op, u)
      PROVE  user'[p] # None
  BY <1>1, UpdateKeeps DEF IInv
<1>2. ASSUME NEW q \in Persons, NEW link, NEW disabled, Create(q, link, disabled)
      PROVE  user'[p] # None
  BY <1>2 DEF Create, IInv, TypeOK
<1>3. ASSUME UNCHANGED rows PROVE user'[p] # None
  BY <1>3 DEF rows
<1>4. ASSUME NEW r \in Requests, Commit(r) PROVE user'[p] # None
  <2>1. request[r] \in Request /\ request[r] # None
    BY <1>4 DEF Commit, IInv, TypeOK
  <2>2. CASE Writes(request[r].op, request[r].seen) /\ ~request[r].gone
    <3>1. user[request[r].person] # None
      BY <2>1, <2>2 DEF IInv, LoadedIsThere
    <3>2. QED
      BY <1>1, <1>4, <2>1, <2>2, <3>1 DEF Commit, Request
  <2>3. QED
    BY <1>3, <1>4, <2>2 DEF Commit
<1>5. ASSUME NEW w \in Pollers, NEW q \in Persons, Reconcile(w, q) PROVE user'[p] # None
  <2> DEFINE seen == poll[w].seen[q]
  <2>1. seen \in Loaded /\ seen # None
    BY <1>5 DEF Reconcile, Known, IInv, TypeOK, Poll
  <2>2. CASE UNCHANGED rows
    BY <1>3, <2>2
  <2>3. CASE Verdict(w, q) # "none" /\ ~seen.gone /\ Update(q, Verdict(w, q), seen.row)
    <3>1. user[q] # None
      BY <2>1, <2>3 DEF IInv, LoadedIsThere
    <3>2. Verdict(w, q) \in Ops /\ seen.row \in User
      BY <2>1, <2>3, VerdictIsOp DEF Loaded
    <3>3. QED
      BY <1>1, <2>3, <3>1, <3>2
  <2>4. QED
    BY <1>5, <2>2, <2>3 DEF Reconcile
<1>6. ASSUME NEW w \in Pollers, PollerStep(w) \/ PollFails(w) PROVE user'[p] # None
  BY <1>2, <1>3, <1>5, <1>6 DEF PollerStep, PollFails, StartPoll, BeginReconcile, EndPoll,
     ReadPage, Reload, Provision
<1>7. CASE Disconnect
  BY <1>7, NoneAssumption DEF Disconnect, IInv, TypeOK, User
<1>8. ASSUME NEW q \in Persons, GraceElapses(q) PROVE user'[p] # None
  BY <1>8, NoneAssumption DEF GraceElapses, IInv, TypeOK, User
<1>9. ASSUME NEW q \in Persons,
             \/ \E link \in {"id", "subject"} : SignIn(q, link)
             \/ CreateLocal(q) \/ \E active \in BOOLEAN : Post(q, active)
      PROVE  user'[p] # None
  BY <1>2, <1>9 DEF SignIn, CreateLocal, Post
<1>10. ASSUME \/ Connect
              \/ \E r \in Requests, q \in Persons, op \in Ops : Load(r, q, op)
              \/ \E q \in Persons, status \in Statuses : StaffChange(q, status)
              \/ \E s \in Sweepers : Scan(s) \/ \E q \in Persons : Skip(s, q)
       PROVE  user'[p] # None
  BY <1>3, <1>10 DEF Connect, Load, StaffChange, Scan, Skip
<1>11. QED
  BY <1>4, <1>6, <1>7, <1>8, <1>9, <1>10 DEF Next, Operator

\* The sweeper deletes nobody who is active, but for the two ways the property names:
\* a row with columns of two writers or of a PUT, and one restored after the scan.
THEOREM SweepersKeepActive == Spec => ActiveKept
<1>1. IInv /\ [Next]_vars =>
        [\A p \in Persons : user[p] # None /\ user'[p] = None =>
              user[p].disabled \/ p \in mixed \cup restored]_vars
  <2> SUFFICES ASSUME IInv, Next, NEW p \in Persons, user[p] # None, user'[p] = None
               PROVE  user[p].disabled \/ p \in mixed \cup restored
    OBVIOUS
  <2>1. PICK s \in Sweepers, q \in Persons : HardDelete(s, q)
    BY RowsStay
  <2>2. user' = [user EXCEPT ![q] = None] /\ sweep[s][q] = "due"
    BY <2>1 DEF HardDelete, Delete
  <2>3. q = p
    BY <2>2 DEF IInv, TypeOK
  <2>4. QED
    BY <2>2, <2>3 DEF IInv, Picked
<1>2. QED
  BY <1>1, Inductive, PTL DEF Spec, ActiveKept

-----------------------------------------------------------------------------
(* The evidence of a poll *)

\* Who was seen to be inactive, or is, was so at some moment of the poll.
Evidence ==
    \A w \in Pollers, p \in Persons :
        /\ poll[w].at = "idle" => poll[w].listed[p] = None
        /\ poll[w].at = "reconciling" => poll[w].listed[p] # None
        /\ p \in poll[w].local => poll[w].at = "reconciling"
        /\ poll[w].at # "idle" /\ staff[p] # "active" => p \in inactive[w]
        /\ poll[w].at # "idle" /\ poll[w].listed[p] \notin {None, "active"}
              => p \in inactive[w]

\* The poller w goes on from a row of p that is still there.
Held(w, p) == poll[w].seen[p] # None /\ ~poll[w].seen[p].gone

\* Whoever is left over from the listing and has a row by the directory's id was not
\* in it: the others are rows by a subject, and a row that takes the place of one that
\* is gone is not the one that was loaded.
LeftOver ==
    \A w \in Pollers, p \in Persons :
        p \in poll[w].local /\ Held(w, p) /\ user[p] # None /\ user[p].link = "id"
            => poll[w].listed[p] = "absent"

EInv == IInv /\ Evidence /\ LeftOver

\* Steps that do not change what the pollers know of the directory.
LEMMA EvidenceStays ==
  ASSUME Evidence, UNCHANGED <<staff, inactive>>,
         \A w \in Pollers : /\ poll'[w].at = poll[w].at
                            /\ poll'[w].listed = poll[w].listed
                            /\ poll'[w].local \subseteq poll[w].local
  PROVE  Evidence'
  BY DEF Evidence

LEMMA HandledEvidence ==
  ASSUME IInv, Evidence, NEW w \in Pollers, NEW p \in Persons, NEW expires,
         Handled(w, p, expires), UNCHANGED <<staff, inactive>>
  PROVE  Evidence'
<1>1. poll \in [Pollers -> Poll]
  BY DEF IInv, TypeOK
<1>2. \A x \in Pollers : /\ poll'[x].at = poll[x].at
                        /\ poll'[x].listed = poll[x].listed
                        /\ poll'[x].local \subseteq poll[x].local
  BY <1>1 DEF Handled, Poll
<1>3. QED
  BY <1>2, EvidenceStays

LEMMA PollEndsEvidence ==
  ASSUME IInv, Evidence, NEW w \in Pollers, PollEnds(w), UNCHANGED staff
  PROVE  Evidence'
<1>1. poll'[w] = IdlePoll /\ \A x \in Pollers \ {w} : poll'[x] = poll[x]
  BY DEF PollEnds, IInv, TypeOK
<1>2. \A x \in Pollers \ {w} : inactive'[x] = inactive[x]
  BY DEF PollEnds, IInv, TypeOK
<1>3. QED
  BY <1>1, <1>2 DEF Evidence, IdlePoll

LEMMA StartEvidence ==
  ASSUME IInv, Evidence, NEW w \in Pollers, StartPoll(w)
  PROVE  Evidence'
<1>1. /\ poll'[w].at = "listing" /\ poll'[w].listed = poll[w].listed
      /\ poll'[w].local = poll[w].local
      /\ \A x \in Pollers \ {w} : poll'[x] = poll[x]
  BY DEF StartPoll, IInv, TypeOK, Poll
<1>2. /\ inactive'[w] = {p \in Persons : staff[p] # "active"}
      /\ \A x \in Pollers \ {w} : inactive'[x] = inactive[x]
  BY DEF StartPoll, IInv, TypeOK
<1>3. poll[w].at = "idle" /\ staff' = staff
  BY DEF StartPoll
<1>4. \A q \in Persons :
         /\ poll'[w].listed[q] = None /\ q \notin poll'[w].local
         /\ staff'[q] # "active" => q \in inactive'[w]
  BY <1>1, <1>2, <1>3 DEF Evidence
<1>5. QED
  BY <1>1, <1>2, <1>3, <1>4 DEF Evidence

LEMMA ReadPageEvidence ==
  ASSUME IInv, Evidence, NEW w \in Pollers, NEW p \in Persons, ReadPage(w, p)
  PROVE  Evidence'
<1>1. /\ poll'[w].at = "listing" /\ poll'[w].listed = [poll[w].listed EXCEPT ![p] = staff[p]]
      /\ poll'[w].local = poll[w].local
      /\ \A x \in Pollers \ {w} : poll'[x] = poll[x]
  BY DEF ReadPage, IInv, TypeOK, Poll
<1>2. poll[w].listed \in [Persons -> Statuses \cup {None}]
  BY DEF IInv, TypeOK, Poll
<1>3. poll[w].at = "listing" /\ staff' = staff /\ inactive' = inactive
  BY DEF ReadPage
<1>4. \A q \in Persons :
         /\ q \notin poll'[w].local
         /\ staff'[q] # "active" => q \in inactive'[w]
         /\ poll'[w].listed[q] \notin {None, "active"} => q \in inactive'[w]
  <2>1. \A q \in Persons :
           /\ q \notin poll[w].local
           /\ staff[q] # "active" => q \in inactive[w]
           /\ poll[w].listed[q] \notin {None, "active"} => q \in inactive[w]
    BY <1>3 DEF Evidence
  <2>2. \A q \in Persons :
           poll'[w].listed[q] = IF q = p THEN staff[q] ELSE poll[w].listed[q]
    BY <1>1, <1>2
  <2>3. QED
    BY <1>1, <1>3, <2>1, <2>2
<1>5. poll'[w].at = "listing" /\ staff' = staff
  BY <1>1, <1>3
<1>6. \A x \in Pollers \ {w} : poll'[x] = poll[x] /\ inactive'[x] = inactive[x]
  BY <1>1, <1>3
<1>7. QED
  BY <1>4, <1>5, <1>6 DEF Evidence

LEMMA BeginEvidence ==
  ASSUME IInv, Evidence, NEW w \in Pollers, BeginReconcile(w)
  PROVE  Evidence'
<1> DEFINE listed == poll[w].listed
           linked == {p \in Persons : user[p] # None /\ user[p].link # "none"}
           present == {p \in Persons : listed[p] # "absent"}
           local == {p \in linked : p \notin present \/ user[p].link = "subject"}
<1>1. /\ poll'[w].at = "reconciling" /\ poll'[w].listed = listed /\ poll'[w].local = local
      /\ \A x \in Pollers \ {w} : poll'[x] = poll[x]
  <2>1. poll[w] \in Poll /\ poll \in [Pollers -> Poll]
    BY DEF IInv, TypeOK
  <2>2. Reconciling(w, listed)
    BY DEF BeginReconcile
  <2>3. QED
    BY <2>1, <2>2 DEF Reconciling, Poll
<1>3. /\ poll[w].at = "listing" /\ \A p \in Persons : poll[w].listed[p] # None
      /\ staff' = staff /\ inactive' = inactive
  BY DEF BeginReconcile
<1>4. \A q \in Persons :
         /\ poll'[w].listed[q] # None
         /\ staff'[q] # "active" => q \in inactive'[w]
         /\ poll'[w].listed[q] \notin {None, "active"} => q \in inactive'[w]
  BY <1>1, <1>3 DEF Evidence
<1>5. poll'[w].at = "reconciling"
  BY <1>1
<1>6. \A x \in Pollers \ {w} : poll'[x] = poll[x] /\ inactive'[x] = inactive[x]
  BY <1>1, <1>3
<1>7. staff' = staff
  BY <1>3
<1>8. QED
  BY <1>4, <1>5, <1>6, <1>7 DEF Evidence

LEMMA StaffEvidence ==
  ASSUME IInv, Evidence, NEW p \in Persons, NEW status \in Statuses, StaffChange(p, status)
  PROVE  Evidence'
<1>1. staff' = [staff EXCEPT ![p] = status] /\ poll' = poll
  BY DEF StaffChange
<1>2. CASE status = "active"
  BY <1>1, <1>2 DEF StaffChange, Evidence, IInv, TypeOK
<1>3. CASE status # "active"
  <2>1. \A w \in Pollers : poll[w].at # "idle" => inactive'[w] = inactive[w] \cup {p}
    BY <1>3 DEF StaffChange
  <2>2. QED
    BY <1>1, <2>1 DEF Evidence, IInv, TypeOK
<1>4. QED
  BY <1>2, <1>3

\* A deletion takes nothing from a poll but a row it has loaded.
LEMMA DeleteFrees ==
  ASSUME IInv, NEW s \in Sweepers, NEW p \in Persons, HardDelete(s, p)
  PROVE  \A w \in Pollers : /\ poll'[w].at = poll[w].at
                            /\ poll'[w].listed = poll[w].listed
                            /\ poll'[w].local \subseteq poll[w].local
                            /\ \A q \in Persons : Held(w, q)' => Held(w, q)
<1> SUFFICES ASSUME NEW w \in Pollers
             PROVE  /\ poll'[w].at = poll[w].at
                    /\ poll'[w].listed = poll[w].listed
                    /\ poll'[w].local \subseteq poll[w].local
                    /\ \A q \in Persons : Held(w, q)' => Held(w, q)
  OBVIOUS
<1> DEFINE object == [poll[w].seen[p] EXCEPT !.gone = TRUE]
           seen == [poll[w].seen EXCEPT ![p] = object]
<1>1. poll[w] \in Poll /\ poll[w].seen \in [Persons -> Loaded \cup {None}]
  BY DEF IInv, TypeOK, Poll
<1>2. poll'[w] = IF poll[w].seen[p] = None THEN poll[w] ELSE [poll[w] EXCEPT !.seen = seen]
  BY <1>1 DEF HardDelete, Delete, Poll, Loaded
<1>3. poll[w].seen[p] # None => object.gone
  BY <1>1 DEF Loaded
<1> HIDE DEF object
<1>4. /\ \A q \in Persons : q # p => seen[q] = poll[w].seen[q]
      /\ poll[w].seen[p] # None => seen[p].gone
  BY <1>1, <1>3
<1> HIDE DEF seen
<1>5. /\ poll'[w].at = poll[w].at /\ poll'[w].listed = poll[w].listed
      /\ poll'[w].local = poll[w].local
      /\ poll'[w].seen = IF poll[w].seen[p] = None THEN poll[w].seen ELSE seen
  BY <1>1, <1>2 DEF Poll
<1>6. \A q \in Persons : Held(w, q)' => Held(w, q)
  BY <1>4, <1>5 DEF Held
<1>7. QED
  BY <1>5, <1>6

\* Neither does a row that is read again, and is there.
LEMMA ReloadFrees ==
  ASSUME IInv, NEW w \in Pollers, NEW p \in Persons, Reload(w, p), ~poll[w].seen[p].gone
  PROVE  \A x \in Pollers : /\ poll'[x].at = poll[x].at
                            /\ poll'[x].listed = poll[x].listed
                            /\ poll'[x].local \subseteq poll[x].local
                            /\ \A q \in Persons : Held(x, q)' => Held(x, q)
<1> DEFINE object == [poll[w].seen[p] EXCEPT !.row = user[p], !.expired = FALSE]
           seen == [poll[w].seen EXCEPT ![p] = object]
           next == [poll[w] EXCEPT !.seen = seen]
<1>1. /\ poll \in [Pollers -> Poll] /\ poll[w].seen[p] \in Loaded /\ poll[w].seen[p] # None
      /\ poll[w].seen \in [Persons -> Loaded \cup {None}]
  BY DEF Reload, Known, IInv, TypeOK, Poll
<1>2. poll' = [poll EXCEPT ![w] = next]
  BY <1>1 DEF Reload, Poll, Loaded
<1> HIDE DEF object
<1>3. \A q \in Persons : q # p => seen[q] = poll[w].seen[q]
  BY <1>1
<1> HIDE DEF seen
<1>4. /\ next.at = poll[w].at /\ next.listed = poll[w].listed /\ next.local = poll[w].local
      /\ next.seen = seen
  BY <1>1 DEF Poll
<1> HIDE DEF next
<1>5. \A x \in Pollers, q \in Persons : Held(x, q)' => Held(x, q)
  BY <1>1, <1>2, <1>3, <1>4 DEF Held
<1>6. QED
  BY <1>1, <1>2, <1>4, <1>5

LEMMA NextEvidence ==
  ASSUME IInv, Evidence, [Next]_vars
  PROVE  Evidence'
<1>1. ASSUME UNCHANGED <<poll, staff, inactive>> PROVE Evidence'
  BY <1>1 DEF Evidence
<1>2. CASE \/ UNCHANGED vars
           \/ Connect
           \/ \E r \in Requests : Commit(r) \/ \E p \in Persons, op \in Ops : Load(r, p, op)
           \/ \E p \in Persons : \/ \E link \in {"id", "subject"} : SignIn(p, link)
                                 \/ \E active \in BOOLEAN : Post(p, active)
                                 \/ CreateLocal(p) \/ GraceElapses(p)
           \/ \E s \in Sweepers : Scan(s) \/ \E p \in Persons : Skip(s, p)
  BY <1>1, <1>2 DEF vars, Connect, Load, Commit, SignIn, Post, CreateLocal, GraceElapses,
                    Scan, Skip
<1>3. CASE Disconnect
  <2>1. \A w \in Pollers : /\ poll'[w].at = poll[w].at
                          /\ poll'[w].listed = poll[w].listed
                          /\ poll'[w].local \subseteq poll[w].local
    <3>1. \A w \in Pollers : poll[w] \in Poll /\ poll'[w] = [poll[w] EXCEPT !.valid = FALSE]
      BY <1>3 DEF Disconnect, IInv, TypeOK
    <3>2. QED
      BY <3>1 DEF Poll
  <2>2. QED
    BY <1>3, <2>1, EvidenceStays DEF Disconnect
<1>4. ASSUME NEW s \in Sweepers, NEW p \in Persons, HardDelete(s, p) PROVE Evidence'
  BY <1>4, DeleteFrees, EvidenceStays DEF HardDelete
<1>5. ASSUME NEW p \in Persons, NEW status \in Statuses, StaffChange(p, status)
      PROVE  Evidence'
  BY <1>5, StaffEvidence
<1>6. ASSUME NEW w \in Pollers, PollerStep(w) \/ PollFails(w) PROVE Evidence'
  <2>1. CASE StartPoll(w)
    BY <2>1, StartEvidence
  <2>2. CASE BeginReconcile(w)
    BY <2>2, BeginEvidence
  <2>3. CASE EndPoll(w) \/ PollFails(w)
    BY <2>3, PollEndsEvidence DEF EndPoll, PollFails
  <2>4. ASSUME NEW p \in Persons, ReadPage(w, p) PROVE Evidence'
    BY <2>4, ReadPageEvidence
  <2>5. ASSUME NEW p \in Persons, Reload(w, p) PROVE Evidence'
    <3>1. CASE poll[w].seen[p].gone
      BY <2>5, <3>1, PollEndsEvidence DEF Reload
    <3>2. CASE ~poll[w].seen[p].gone
      <4>1. \A x \in Pollers : /\ poll'[x].at = poll[x].at
                              /\ poll'[x].listed = poll[x].listed
                              /\ poll'[x].local \subseteq poll[x].local
        BY <2>5, <3>2, ReloadFrees
      <4>2. UNCHANGED <<staff, inactive>>
        BY <2>5, <3>2 DEF Reload
      <4>3. QED
        BY <4>1, <4>2, EvidenceStays
    <3>3. QED
      BY <3>1, <3>2
  <2>6. ASSUME NEW p \in Persons, Provision(w, p) PROVE Evidence'
    BY <2>6, HandledEvidence DEF Provision
  <2>7. ASSUME NEW p \in Persons, Reconcile(w, p) PROVE Evidence'
    BY <2>7, HandledEvidence, PollEndsEvidence DEF Reconcile
  <2>8. QED
    BY <1>6, <2>1, <2>2, <2>3, <2>4, <2>5, <2>6, <2>7 DEF PollerStep
<1>7. QED
  BY <1>2, <1>3, <1>4, <1>5, <1>6 DEF Next, Operator

-----------------------------------------------------------------------------
(* Who is left over from the listing *)

\* A row keeps its link, unless its directory is disconnected.
Linked == \A p \in Persons :
    user[p] # None /\ user'[p] # None => user'[p].link \in {user[p].link, "none"}

\* No poller takes anybody up, or a row that was gone.
LeaveAlone ==
    \A w \in Pollers, p \in Persons : p \in poll'[w].local =>
        /\ p \in poll[w].local /\ poll'[w].listed[p] = poll[w].listed[p]
        /\ Held(w, p)' => Held(w, p)

LEMMA LeftOverStays ==
  ASSUME IInv, LeftOver, Linked, LeaveAlone
  PROVE  LeftOver'
<1> SUFFICES ASSUME NEW w \in Pollers, NEW p \in Persons,
                    p \in poll'[w].local, Held(w, p)', user'[p] # None, user'[p].link = "id"
             PROVE  poll'[w].listed[p] = "absent"
  BY DEF LeftOver
<1>1. p \in poll[w].local /\ poll'[w].listed[p] = poll[w].listed[p] /\ Held(w, p)
  BY DEF LeaveAlone
<1>2. user[p] # None /\ user[p].link = "id"
  BY <1>1 DEF IInv, LoadedIsThere, Held, Linked
<1>3. QED
  BY <1>1, <1>2 DEF LeftOver

LEMMA UpdateLinked ==
  ASSUME IInv, NEW p \in Persons, NEW op \in Ops, NEW u \in User,
         user[p] # None, Update(p, op, u)
  PROVE  Linked
<1>1. \A q \in Persons : user[q] # None => user[q] \in User
  BY DEF IInv, TypeOK
<1>2. QED
  BY <1>1 DEF Update, IInv, TypeOK, User, Linked

LEMMA CreateLinked ==
  ASSUME IInv, NEW p \in Persons, NEW link, NEW disabled, Create(p, link, disabled)
  PROVE  Linked
  BY DEF Create, IInv, TypeOK, Linked

LEMMA HandledLeaves ==
  ASSUME IInv, NEW w \in Pollers, NEW p \in Persons, NEW expires \in BOOLEAN,
         Handled(w, p, expires)
  PROVE  LeaveAlone
<1>1. poll \in [Pollers -> Poll]
  BY DEF IInv, TypeOK
<1>2. \A x \in Pollers : /\ poll'[x].listed = poll[x].listed
                        /\ poll'[x].local \subseteq poll[x].local
  BY <1>1 DEF Handled, Poll
<1>3. PICK next \in Poll :
         /\ poll' = [poll EXCEPT ![w] = next]
         /\ \A x \in Persons : next.seen[x] # None =>
               poll[w].seen[x] # None /\ next.seen[x].gone = poll[w].seen[x].gone
  BY HandledMoves DEF IInv
<1>4. \A x \in Pollers, q \in Persons : Held(x, q)' => Held(x, q)
  BY <1>1, <1>3 DEF Held
<1>5. QED
  BY <1>2, <1>4 DEF LeaveAlone

LEMMA PollEndsLeaves ==
  ASSUME IInv, NEW w \in Pollers, PollEnds(w)
  PROVE  LeaveAlone
<1>1. poll'[w] = IdlePoll /\ \A x \in Pollers \ {w} : poll'[x] = poll[x]
  BY DEF PollEnds, IInv, TypeOK
<1>2. QED
  BY <1>1 DEF LeaveAlone, Held, IdlePoll

LEMMA PollerLeftOver ==
  ASSUME IInv, Evidence, LeftOver, NEW w \in Pollers, PollerStep(w) \/ PollFails(w)
  PROVE  LeftOver'
<1>1. poll \in [Pollers -> Poll] /\ poll[w] \in Poll
  BY DEF IInv, TypeOK
<1>2. ASSUME UNCHANGED user PROVE Linked
  BY <1>2 DEF Linked
<1>3. CASE StartPoll(w)
  <2>1. /\ poll'[w].local = poll[w].local /\ poll'[w].listed = poll[w].listed
        /\ poll'[w].seen = poll[w].seen
        /\ \A x \in Pollers \ {w} : poll'[x] = poll[x]
    BY <1>1, <1>3 DEF StartPoll, Poll
  <2>2. LeaveAlone
    BY <2>1 DEF LeaveAlone, Held
  <2>3. QED
    BY <1>2, <1>3, <2>2, LeftOverStays DEF StartPoll, rows
<1>4. ASSUME NEW p \in Persons, ReadPage(w, p) PROVE LeftOver'
  <2>1. /\ poll'[w].local = poll[w].local /\ \A x \in Pollers \ {w} : poll'[x] = poll[x]
    BY <1>1, <1>4 DEF ReadPage, Poll
  <2>2. \A q \in Persons : q \notin poll[w].local
    BY <1>4 DEF ReadPage, Evidence
  <2>3. LeaveAlone
    BY <2>1, <2>2 DEF LeaveAlone, Held
  <2>4. QED
    BY <1>2, <1>4, <2>3, LeftOverStays DEF ReadPage, rows
<1>5. CASE BeginReconcile(w)
  <2>1. /\ user' = user
        /\ poll'[w].listed = poll[w].listed
        /\ \A p \in poll'[w].local : poll[w].listed[p] = "absent" \/ user[p].link = "subject"
        /\ \A x \in Pollers \ {w} : poll'[x] = poll[x]
    BY <1>1, <1>5 DEF BeginReconcile, Reconciling, Poll, rows
  <2>2. QED
    BY <2>1 DEF LeftOver, Held
<1>6. CASE EndPoll(w) \/ PollFails(w)
  BY <1>2, <1>6, PollEndsLeaves, LeftOverStays DEF EndPoll, PollFails, rows
<1>7. ASSUME NEW p \in Persons, Reload(w, p) PROVE LeftOver'
  <2>1. CASE poll[w].seen[p].gone
    BY <1>2, <1>7, <2>1, PollEndsLeaves, LeftOverStays DEF Reload, rows
  <2>2. CASE ~poll[w].seen[p].gone
    <3>1. LeaveAlone
      BY <1>7, <2>2, ReloadFrees DEF LeaveAlone
    <3>2. QED
      BY <1>2, <1>7, <3>1, LeftOverStays DEF Reload, rows
  <2>3. QED
    BY <2>1, <2>2
<1>8. ASSUME NEW p \in Persons, Provision(w, p) PROVE LeftOver'
  <2>1. LeaveAlone
    BY <1>8, HandledLeaves DEF Provision
  <2>2. Linked
    BY <1>2, <1>8, CreateLinked DEF Provision, rows
  <2>3. QED
    BY <2>1, <2>2, LeftOverStays
<1>9. ASSUME NEW p \in Persons, Reconcile(w, p) PROVE LeftOver'
  <2> DEFINE op == Verdict(w, p)
             seen == poll[w].seen[p]
  <2>1. seen \in Loaded /\ seen # None
    BY <1>1, <1>9 DEF Reconcile, Known, Poll
  <2>2. LeaveAlone
    BY <1>9, HandledLeaves, PollEndsLeaves DEF Reconcile
  <2>3. Linked
    <3>1. CASE op # "none" /\ ~seen.gone /\ Update(p, op, seen.row)
      <4>1. user[p] # None /\ op \in Ops /\ seen.row \in User
        BY <2>1, <3>1, VerdictIsOp DEF IInv, LoadedIsThere, Loaded
      <4>2. QED
        BY <3>1, <4>1, UpdateLinked
    <3>2. CASE UNCHANGED rows
      BY <1>2, <3>2 DEF rows
    <3>3. QED
      BY <1>9, <3>1, <3>2 DEF Reconcile
  <2>4. QED
    BY <2>2, <2>3, LeftOverStays
<1>10. QED
  BY <1>3, <1>4, <1>5, <1>6, <1>7, <1>8, <1>9 DEF PollerStep

LEMMA NextLeftOver ==
  ASSUME IInv, Evidence, LeftOver, [Next]_vars
  PROVE  LeftOver'
<1>1. ASSUME UNCHANGED poll PROVE LeaveAlone
  BY <1>1 DEF LeaveAlone, Held
<1>2. CASE \/ UNCHANGED vars
           \/ Connect
           \/ \E r \in Requests, p \in Persons, op \in Ops : Load(r, p, op)
           \/ \E p \in Persons, status \in Statuses : StaffChange(p, status)
           \/ \E s \in Sweepers : Scan(s) \/ \E p \in Persons : Skip(s, p)
  <2>1. UNCHANGED <<user, poll>>
    BY <1>2 DEF vars, rows, Connect, Load, StaffChange, Scan, Skip
  <2>2. QED
    BY <2>1 DEF LeftOver, Held
<1>3. ASSUME NEW r \in Requests, Commit(r) PROVE LeftOver'
  <2>1. request[r] \in Request /\ request[r] # None
    BY <1>3 DEF Commit, IInv, TypeOK
  <2>2. CASE Writes(request[r].op, request[r].seen) /\ ~request[r].gone
    <3>1. user[request[r].person] # None
      BY <2>1, <2>2 DEF IInv, LoadedIsThere
    <3>2. Linked
      BY <1>3, <2>1, <2>2, <3>1, UpdateLinked DEF Commit, Request
    <3>3. QED
      BY <1>1, <1>3, <3>2, LeftOverStays DEF Commit
  <2>3. CASE ~(Writes(request[r].op, request[r].seen) /\ ~request[r].gone)
    BY <1>3, <2>3 DEF Commit, rows, LeftOver, Held
  <2>4. QED
    BY <2>2, <2>3
<1>4. ASSUME NEW p \in Persons,
             \/ \E link \in {"id", "subject"} : SignIn(p, link)
             \/ CreateLocal(p) \/ \E active \in BOOLEAN : Post(p, active)
      PROVE  LeftOver'
  <2>1. Linked /\ UNCHANGED poll
    BY <1>4, CreateLinked DEF SignIn, CreateLocal, Post
  <2>2. QED
    BY <1>1, <2>1, LeftOverStays
<1>5. ASSUME NEW p \in Persons, GraceElapses(p) PROVE LeftOver'
  <2>1. Linked
    BY <1>5 DEF GraceElapses, IInv, TypeOK, User, Linked
  <2>2. QED
    BY <1>1, <1>5, <2>1, LeftOverStays DEF GraceElapses
<1>6. CASE Disconnect
  <2>1. \A p \in Persons : user'[p] # None => user'[p].link = "none"
    BY <1>6 DEF Disconnect, IInv, TypeOK, User
  <2>2. QED
    BY <2>1 DEF LeftOver
<1>7. ASSUME NEW s \in Sweepers, NEW p \in Persons, HardDelete(s, p) PROVE LeftOver'
  <2>1. Linked
    BY <1>7 DEF HardDelete, Delete, IInv, TypeOK, Linked
  <2>2. LeaveAlone
    BY <1>7, DeleteFrees DEF LeaveAlone
  <2>3. QED
    BY <2>1, <2>2, LeftOverStays
<1>8. ASSUME NEW w \in Pollers, PollerStep(w) \/ PollFails(w) PROVE LeftOver'
  BY <1>8, PollerLeftOver
<1>9. QED
  BY <1>2, <1>3, <1>4, <1>5, <1>6, <1>7, <1>8 DEF Next, Operator

\* The conclusion of PollNeedsEvidence for one step.
LEMMA DeactivationHasEvidence ==
  ASSUME EInv, Next, NEW w \in Pollers, NEW p \in Persons,
         Turn(w, p), poll'[w] # poll[w],
         user[p] # None, user[p].link = "id", ~user[p].disabled,
         user'[p] # None, user'[p].disabled
  PROVE  p \in inactive[w]
<1> USE DEF EInv
<1>1. ASSUME NEW x \in Pollers, PollerStep(x) \/ PollFails(x)
      PROVE  Reconcile(w, p)
  <2>1. x = w
    <3>1. poll \in [Pollers -> Poll]
      BY DEF IInv, TypeOK
    <3>2. ASSUME NEW y \in Pollers, y # x PROVE poll'[y] = poll[y]
      BY <1>1, <3>1, <3>2 DEF PollerStep, PollFails, StartPoll, BeginReconcile, Reconciling,
         EndPoll, PollEnds, ReadPage, Reload, Provision, Reconcile, Handled
    <3>3. QED
      BY <3>2
  <2>2. ~UNCHANGED user
    OBVIOUS
  <2>3. PICK q \in Persons : Provision(w, q) \/ Reconcile(w, q)
    BY <1>1, <2>1, <2>2 DEF PollerStep, PollFails, StartPoll, BeginReconcile, EndPoll,
       ReadPage, Reload, rows
  <2>4. ~Provision(w, q)
    BY <2>2 DEF Provision, Create, rows, IInv, TypeOK
  <2>5. Reconcile(w, q) /\ Update(q, Verdict(w, q), poll[w].seen[q].row)
    BY <2>2, <2>3, <2>4 DEF Reconcile, rows
  <2>6. q = p
    BY <2>5 DEF Update, IInv, TypeOK
  <2>7. QED
    BY <2>5, <2>6
<1>2. ~Disconnect
  BY DEF Disconnect, IInv, TypeOK, User
<1>3. ASSUME NEW s \in Sweepers, NEW q \in Persons PROVE ~HardDelete(s, q)
  BY DEF HardDelete, Delete, IInv, TypeOK
<1>4. poll' # poll
  OBVIOUS
<1>5. Reconcile(w, p)
  BY <1>1, <1>2, <1>3, <1>4 DEF Next, Operator, Commit, Load, SignIn, GraceElapses, Post,
     StaffChange, Connect, CreateLocal, Scan, Skip
<1>6. Update(p, Verdict(w, p), poll[w].seen[p].row) /\ Verdict(w, p) # "none"
  BY <1>5 DEF Reconcile, rows
<1>7. Verdict(w, p) = "patch_off"
  <2>1. user[p] \in User /\ poll[w].seen[p] \in Loaded
    BY <1>5 DEF Reconcile, Known, IInv, TypeOK, Poll
  <2>2. SUFFICES ASSUME Verdict(w, p) = "patch_on" PROVE FALSE
    BY <1>6 DEF Verdict
  <2>3. user'[p].disabled = IF poll[w].seen[p].row.disabled THEN FALSE ELSE user[p].disabled
    BY <1>6, <2>1, <2>2 DEF Update, After, User, Loaded, IInv, TypeOK
  <2>4. QED
    BY <2>3
<1>8. p \in poll[w].remote \cup poll[w].local /\ poll[w].at = "reconciling"
  BY DEF Turn
<1>9. poll[w].listed[p] # "active" \/ p \notin poll[w].remote
  BY <1>7 DEF Verdict
<1>10. Held(w, p)
  BY <1>5, <1>7 DEF Reconcile, Known, Held, rows
<1>11. poll[w].listed[p] \notin {None, "active"}
  BY <1>8, <1>9, <1>10 DEF Evidence, LeftOver, IInv, TypeOK
<1>12. QED
  BY <1>8, <1>11 DEF Evidence

\* An outage is never taken for a mass termination, whatever replicas poll, whatever
\* happens between the pages and whatever sign-ins name people by: a row that is linked
\* by the directory's id is deactivated on evidence only.
THEOREM OutagesAreNoTerminations == Spec => PollNeedsEvidence
<1>1. Init => EInv
  BY InitIInv DEF Init, IdlePoll, EInv, Evidence, LeftOver
<1>2. EInv /\ [Next]_vars => EInv'
  BY NextIInv, NextEvidence, NextLeftOver DEF EInv
<1>3. EInv /\ [Next]_vars =>
        [\A w \in Pollers, p \in Persons :
            /\ Turn(w, p) /\ poll'[w] # poll[w]
            /\ user[p] # None /\ user[p].link = "id" /\ ~user[p].disabled
            /\ user'[p] # None /\ user'[p].disabled
            => p \in inactive[w]]_vars
  BY DeactivationHasEvidence
<1>4. QED
  BY <1>1, <1>2, <1>3, PTL DEF Spec, PollNeedsEvidence
=============================================================================
