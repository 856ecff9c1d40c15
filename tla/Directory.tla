----------------------------- MODULE Directory -----------------------------
(***************************************************************************)
(* The users of a tenant that an identity provider's directory provisions: *)
(* src/vyuu_gateway/scim/users.py and scim/server.py (a directory that     *)
(* pushes), idp/workspace_polling.py (one that is polled), idp/sweeper.py  *)
(* and idp/service.py, with an operator's create, disable and disconnect.  *)
(*                                                                         *)
(* Whoever changes a user has loaded the row some time before; at commit   *)
(* the ORM writes the columns whose value differs from what was loaded,    *)
(* over what others have committed since (READ COMMITTED), and fails when  *)
(* it has something to write to a row that is gone.  Every replica runs a  *)
(* poller and a sweeper.                                                   *)
(***************************************************************************)
EXTENDS Naturals

CONSTANTS
    Persons,            \* each with an email and an id in the directory
    Requests,           \* SCIM or operator requests that may be under way together
    Pollers, Sweepers,  \* of the replicas
    MaxChanges,         \* bound on requests, changes in the directory and outages
    None

ASSUME DirectoryAssumption == MaxChanges \in Nat

VARIABLES
    transport,      \* does the directory push, or is it polled?
    connected,      \* the row of idp_directories is there
    staff,          \* what the directory knows of each person
    user,           \* the rows of users
    request,        \* a request between its load and its commit
    poll,           \* where each poller is
    sweep,          \* what each sweeper is about to delete
    changes,        \* how many of MaxChanges are used up
    inactive,       \* history: who was not active at some moment of the poll
    mixed,          \* history: rows with columns of two writers
    restored,       \* history: rows made active after a sweeper picked them
    barred          \* history: rows that an operator has disabled

rows == <<user, mixed, restored>>
vars == <<transport, connected, staff, request, poll, sweep, changes, inactive, barred,
          rows>>

Statuses == {"active", "suspended", "absent"}

\* How the row is linked to the directory: external_id is the directory's id, or
\* the subject of a sign-in, or idp_directory_id is null.  softDeleted is the age of
\* soft_deleted_at.
User == [link : {"id", "subject", "none"}, disabled : BOOLEAN,
         softDeleted : {"no", "grace", "due"}]

ASSUME NoneAssumption == None \notin User

Ops == {"patch_on", "patch_off", "put_on", "put_off", "delete", "disable"}

\* gone: the row was deleted after it was loaded.
Request == [op : Ops, person : Persons, seen : User, gone : BOOLEAN]

\* An object of the poller's session: a row as it was last read, expired by the
\* session's commits and rollbacks.
Loaded == [row : User, expired : BOOLEAN, gone : BOOLEAN]

\* valid: the directory that was polled is still connected.
Poll == [at : {"idle", "listing", "reconciling"}, valid : BOOLEAN,
         listed : [Persons -> Statuses \cup {None}],
         seen : [Persons -> Loaded \cup {None}],
         remote : SUBSET Persons, local : SUBSET Persons]

IdlePoll ==
    [at |-> "idle", valid |-> FALSE, listed |-> [p \in Persons |-> None],
     seen |-> [p \in Persons |-> None], remote |-> {}, local |-> {}]

TypeOK ==
    /\ transport \in {"push", "poll"}
    /\ connected \in BOOLEAN
    /\ staff \in [Persons -> Statuses]
    /\ user \in [Persons -> User \cup {None}]
    /\ request \in [Requests -> Request \cup {None}]
    /\ poll \in [Pollers -> Poll]
    /\ sweep \in [Sweepers -> [Persons -> {"no", "due", "gone"}]]
    /\ changes \in 0 .. MaxChanges
    /\ inactive \in [Pollers -> SUBSET Persons]
    /\ mixed \subseteq Persons /\ restored \subseteq Persons /\ barred \subseteq Persons

\* connect_idp_directory has just committed.
Init ==
    /\ transport \in {"push", "poll"}
    /\ connected = TRUE
    /\ staff \in [Persons -> {"active", "absent"}]
    /\ user = [p \in Persons |-> None]
    /\ request = [r \in Requests |-> None]
    /\ poll = [w \in Pollers |-> IdlePoll]
    /\ sweep = [s \in Sweepers |-> [p \in Persons |-> "no"]]
    /\ changes = 0
    /\ inactive = [w \in Pollers |-> {}]
    /\ mixed = {} /\ restored = {} /\ barred = {}

Counted == changes < MaxChanges /\ changes' = changes + 1

Candidate(p) == \E s \in Sweepers : sweep[s][p] = "due"

-----------------------------------------------------------------------------
(* Rows *)

\* (tenant, email) is unique: an insert fails when the person has a row.
Create(p, link, disabled) ==
    /\ user[p] = None
    /\ user' = [user EXCEPT ![p] =
                    [link |-> link, disabled |-> disabled, softDeleted |-> "no"]]
    /\ UNCHANGED <<mixed, restored>>

\* Mutant: a reactivation clears disabled_at only.
BugAfter(op, u) ==
    CASE op \in {"patch_on", "put_on"} -> [u EXCEPT !.disabled = FALSE]
      [] op \in {"patch_off", "delete"} ->
             [u EXCEPT !.disabled = TRUE, !.softDeleted = "grace"]
      [] op \in {"put_off", "disable"} -> [u EXCEPT !.disabled = TRUE]

\* What the handler of op makes of the row it loaded: set_active, replace_from_scim,
\* soft_delete, disable_user.
After(op, u) ==
    CASE op = "patch_on"  -> [u EXCEPT !.disabled = FALSE, !.softDeleted = "no"]
      [] op = "patch_off" -> IF u.disabled /\ u.softDeleted # "no" THEN u
                             ELSE [u EXCEPT !.disabled = TRUE, !.softDeleted = "grace"]
      [] op = "put_on"    -> [u EXCEPT !.disabled = FALSE]
      [] op = "put_off"   -> [u EXCEPT !.disabled = TRUE]
      [] op = "delete"    -> [u EXCEPT !.disabled = TRUE, !.softDeleted = "grace"]
      [] op = "disable"   -> [u EXCEPT !.disabled = TRUE]

\* soft_deleted_at is stamped anew: a change, whatever it was before.
Stamps(op, u) == op = "delete" \/ (op = "patch_off" /\ After(op, u) # u)

Writes(op, u) == After(op, u) # u \/ Stamps(op, u)

Overtaken(p, u) ==
    user[p].disabled # u.disabled \/ user[p].softDeleted # u.softDeleted

\* The UPDATE of a row that was loaded as u.
Update(p, op, u) ==
    LET v == After(op, u)
    IN  /\ user' = [user EXCEPT
              ![p].disabled = IF v.disabled # u.disabled THEN v.disabled ELSE @,
              ![p].softDeleted = IF Stamps(op, u) \/ v.softDeleted # u.softDeleted
                                 THEN v.softDeleted ELSE @]
        /\ mixed' = IF Overtaken(p, u) \/ (op = "put_on" /\ u.softDeleted # "no")
                    THEN mixed \cup {p} ELSE mixed
        /\ restored' = IF Candidate(p) /\ ~v.disabled THEN restored \cup {p} ELSE restored

-----------------------------------------------------------------------------
(* Requests *)

\* find_by_id (which asks for the tenant only) or get_user.
Load(r, p, op) ==
    /\ request[r] = None /\ user[p] # None
    /\ op # "disable" => transport = "push" /\ connected
    /\ Counted
    /\ request' = [request EXCEPT ![r] =
                       [op |-> op, person |-> p, seen |-> user[p], gone |-> FALSE]]
    /\ UNCHANGED <<transport, connected, staff, poll, sweep, inactive, barred, rows>>

Commit(r) ==
    LET q == request[r]
    IN  /\ q # None
        /\ request' = [request EXCEPT ![r] = None]
        /\ IF Writes(q.op, q.seen) /\ ~q.gone
             THEN Update(q.person, q.op, q.seen)
             ELSE UNCHANGED rows    \* nothing to write, or StaleDataError
        /\ barred' = IF q.op = "disable" /\ ~q.gone THEN barred \cup {q.person} ELSE barred
        /\ UNCHANGED <<transport, connected, staff, poll, sweep, changes, inactive>>

\* POST /Users; 409 when the person has a row.
Post(p, active) ==
    /\ transport = "push" /\ connected
    /\ Counted
    /\ Create(p, "id", ~active)
    /\ UNCHANGED <<transport, connected, staff, request, poll, sweep, inactive, barred>>

\* The first sign-in through the directory: find_or_jit_create_directory_user, with
\* the sub of OpenID Connect, which is the directory's id, or the NameID of SAML, which
\* is not.  A person whose row it does not find by that gets the email's conflict.
SignIn(p, link) ==
    /\ connected /\ staff[p] = "active"
    /\ Create(p, link, FALSE)
    /\ UNCHANGED <<transport, connected, staff, request, poll, sweep, changes, inactive, barred>>

\* create_local_user by an operator, for an email the directory knows as well.
CreateLocal(p) ==
    /\ Counted
    /\ Create(p, "none", FALSE)
    /\ UNCHANGED <<transport, connected, staff, request, poll, sweep, inactive, barred>>

\* disconnect_idp_directory: idp_directory_id ON DELETE SET NULL.
Disconnect ==
    /\ connected
    /\ Counted
    /\ connected' = FALSE
    /\ user' = [p \in Persons |->
                    IF user[p] = None THEN None ELSE [user[p] EXCEPT !.link = "none"]]
    /\ poll' = [w \in Pollers |-> [poll[w] EXCEPT !.valid = FALSE]]
    /\ UNCHANGED <<transport, staff, request, sweep, inactive, barred, mixed, restored>>

\* connect_idp_directory once more, under a new id.
Connect ==
    /\ ~connected
    /\ connected' = TRUE
    /\ UNCHANGED <<transport, staff, request, poll, sweep, changes, inactive, barred, rows>>

\* Somebody joins, leaves, is suspended or taken back.
StaffChange(p, status) ==
    /\ staff[p] # status
    /\ Counted
    /\ staff' = [staff EXCEPT ![p] = status]
    /\ inactive' = IF status = "active" THEN inactive
                   ELSE [w \in Pollers |->
                            IF poll[w].at = "idle" THEN {} ELSE inactive[w] \cup {p}]
    /\ UNCHANGED <<transport, connected, request, poll, sweep, barred, rows>>

-----------------------------------------------------------------------------
(* The poller *)

StartPoll(w) ==
    /\ transport = "poll" /\ connected
    /\ poll[w].at = "idle"
    /\ poll' = [poll EXCEPT ![w].at = "listing", ![w].valid = TRUE]
    /\ inactive' = [inactive EXCEPT ![w] = {p \in Persons : staff[p] # "active"}]
    /\ UNCHANGED <<transport, connected, staff, request, sweep, changes, barred, rows>>

\* The page of users.list with p; somebody who is absent is on none.
ReadPage(w, p) ==
    /\ poll[w].at = "listing" /\ poll[w].listed[p] = None
    /\ poll' = [poll EXCEPT ![w].listed[p] = staff[p]]
    /\ UNCHANGED <<transport, connected, staff, request, sweep, changes, inactive, barred, rows>>

PollEnds(w) ==
    /\ poll' = [poll EXCEPT ![w] = IdlePoll]
    /\ inactive' = [inactive EXCEPT ![w] = {}]

\* Mutant: only the listing is gone through.
BugReconciling(w, listed) ==
    poll' = [poll EXCEPT ![w].at = "reconciling", ![w].listed = listed,
        ![w].seen = [p \in Persons |->
            IF user[p] = None THEN None
            ELSE IF user[p].link = "none" THEN None
            ELSE [row |-> user[p], expired |-> FALSE, gone |-> FALSE]],
        ![w].remote = {p \in Persons : listed[p] # "absent"}]

\* The poller w has the answer listed: the directory's rows are loaded, those whose
\* external_id is listed under it and those that are not.
Reconciling(w, listed) ==
    LET linked == {p \in Persons : user[p] # None /\ user[p].link # "none"}
        seen == [p \in Persons |->
                    IF p \notin linked THEN None
                    ELSE [row |-> user[p], expired |-> FALSE, gone |-> FALSE]]
        present == {p \in Persons : listed[p] # "absent"}
    IN  poll' = [poll EXCEPT ![w].at = "reconciling", ![w].listed = listed, ![w].seen = seen,
                    ![w].remote = present,
                    ![w].local = {p \in linked : p \notin present \/ user[p].link = "subject"}]

BeginReconcile(w) ==
    /\ poll[w].at = "listing" /\ \A p \in Persons : poll[w].listed[p] # None
    /\ poll[w].valid
    /\ Reconciling(w, poll[w].listed)
    /\ UNCHANGED <<transport, connected, staff, request, sweep, changes, inactive, barred, rows>>

\* Mutant: the page that failed is taken for the last one.
BugPollFails(w) ==
    /\ poll[w].at = "listing" /\ poll[w].valid
    /\ Counted
    /\ Reconciling(w, [p \in Persons |->
           IF poll[w].listed[p] = None THEN "absent" ELSE poll[w].listed[p]])
    /\ UNCHANGED <<transport, connected, staff, request, sweep, inactive, barred, rows>>

\* No token, a page that fails or one too many: nothing is reconciled.
PollFails(w) ==
    /\ poll[w].at = "listing"
    /\ Counted
    /\ PollEnds(w)
    /\ UNCHANGED <<transport, connected, staff, request, sweep, barred, rows>>

\* All is done, or the directory is gone when the second session looks for it or
\* reads it again, expired by a commit: ObjectDeletedError.
EndPoll(w) ==
    /\ \/ poll[w].at = "listing" /\ \A p \in Persons : poll[w].listed[p] # None
       \/ poll[w].at = "reconciling"
    /\ \/ poll[w].at = "reconciling" /\ poll[w].remote \cup poll[w].local = {}
       \/ ~poll[w].valid
    /\ PollEnds(w)
    /\ UNCHANGED <<transport, connected, staff, request, sweep, changes, barred, rows>>

\* What is left of the poll w when it has dealt with p, its session expired or not.
Handled(w, p, expires) ==
    LET q == poll[w]
    IN  poll' = [poll EXCEPT
            ![w].remote = @ \ {p},
            ![w].local = IF p \in q.remote THEN @ ELSE @ \ {p},
            ![w].seen = [x \in Persons |->
                            IF q.seen[x] = None THEN None
                            ELSE [q.seen[x] EXCEPT !.expired = @ \/ expires]]]

\* The listing is gone through first, then the rows that are not in it.
Turn(w, p) ==
    /\ poll[w].at = "reconciling"
    /\ p \in (IF poll[w].remote # {} THEN poll[w].remote ELSE poll[w].local)

\* Is it the row that is looked at, or the entry of a person without one?
Known(w, p) ==
    poll[w].seen[p] # None /\ (p \notin poll[w].remote \/ poll[w].seen[p].row.link = "id")

\* The first access to an expired object reads the row again; ObjectDeletedError
\* ends the poll.
Reload(w, p) ==
    /\ Turn(w, p) /\ Known(w, p) /\ poll[w].seen[p].expired
    /\ IF poll[w].seen[p].gone
         THEN PollEnds(w)
         ELSE /\ poll' = [poll EXCEPT ![w].seen[p].row = user[p], ![w].seen[p].expired = FALSE]
              /\ UNCHANGED inactive
    /\ UNCHANGED <<transport, connected, staff, request, sweep, changes, barred, rows>>

\* A person nobody has seen here is provisioned; a conflict means that another row
\* has the email (or that the directory is gone), and both a commit and a rollback
\* expire the session.
Provision(w, p) ==
    /\ Turn(w, p) /\ ~Known(w, p)
    /\ IF poll[w].listed[p] = "active"
         THEN /\ \/ poll[w].valid /\ Create(p, "id", FALSE)
                 \/ user[p] # None /\ UNCHANGED rows
                 \/ ~poll[w].valid /\ UNCHANGED rows
              /\ Handled(w, p, TRUE)
         ELSE /\ Handled(w, p, FALSE)
              /\ UNCHANGED rows
    /\ UNCHANGED <<transport, connected, staff, request, sweep, changes, inactive, barred>>

\* The one call of set_active that the poller makes for a row, if any.
Verdict(w, p) ==
    LET wanted == p \in poll[w].remote /\ poll[w].listed[p] = "active"
        disabled == poll[w].seen[p].row.disabled
    IN  IF wanted /\ disabled THEN "patch_on"
        ELSE IF ~wanted /\ ~disabled THEN "patch_off" ELSE "none"

Reconcile(w, p) ==
    LET op == Verdict(w, p)
    IN  /\ Turn(w, p) /\ Known(w, p) /\ ~poll[w].seen[p].expired
        /\ \/ /\ op = "none"
              /\ Handled(w, p, FALSE)
              /\ UNCHANGED <<inactive, rows>>
           \/ /\ op # "none" /\ ~poll[w].seen[p].gone
              /\ Update(p, op, poll[w].seen[p].row)
              /\ Handled(w, p, TRUE)
              /\ UNCHANGED inactive
           \/ /\ op # "none" /\ poll[w].seen[p].gone    \* StaleDataError
              /\ PollEnds(w)
              /\ UNCHANGED rows
        /\ UNCHANGED <<transport, connected, staff, request, sweep, changes, barred>>

-----------------------------------------------------------------------------
(* The sweeper *)

\* Seven days outlast every request, poll and sweep.
Quiet ==
    /\ \A r \in Requests : request[r] = None
    /\ \A w \in Pollers : poll[w].at = "idle"
    /\ \A s \in Sweepers, p \in Persons : sweep[s][p] = "no"

GraceElapses(p) ==
    /\ user[p] # None /\ user[p].softDeleted = "grace"
    /\ Quiet
    /\ user' = [user EXCEPT ![p].softDeleted = "due"]
    /\ UNCHANGED <<transport, connected, staff, request, poll, sweep, changes, inactive,
                   barred, mixed, restored>>

\* find_users_due_for_hard_delete
Due == {p \in Persons : user[p] # None /\ user[p].softDeleted = "due"}

Scan(s) ==
    /\ \A p \in Persons : sweep[s][p] = "no"
    /\ Due # {}
    /\ sweep' = [sweep EXCEPT ![s] = [p \in Persons |-> IF p \in Due THEN "due" ELSE "no"]]
    /\ UNCHANGED <<transport, connected, staff, request, poll, changes, inactive, barred, rows>>

\* Whoever has loaded the row or picked it finds it gone.
Delete(s, p) ==
    /\ user' = [user EXCEPT ![p] = None]
    /\ mixed' = mixed \ {p} /\ restored' = restored \ {p} /\ barred' = barred \ {p}
    /\ request' = [r \in Requests |->
                      IF request[r] = None \/ request[r].person # p THEN request[r]
                      ELSE [request[r] EXCEPT !.gone = TRUE]]
    /\ poll' = [w \in Pollers |->
                   IF poll[w].seen[p] = None THEN poll[w]
                   ELSE [poll[w] EXCEPT !.seen[p].gone = TRUE]]
    /\ sweep' = [t \in Sweepers |-> [sweep[t] EXCEPT ![p] =
                   IF t = s \/ @ = "no" THEN "no" ELSE "gone"]]

\* hard_delete_user: DELETE by id, whatever the row says by now.
HardDelete(s, p) ==
    /\ sweep[s][p] = "due"
    /\ Delete(s, p)
    /\ UNCHANGED <<transport, connected, staff, changes, inactive>>

\* The row is gone, or the delete fails and the next one is tried.
Skip(s, p) ==
    /\ sweep[s][p] # "no"
    /\ sweep[s][p] = "gone" \/ Counted
    /\ sweep[s][p] = "gone" => UNCHANGED changes
    /\ sweep' = [sweep EXCEPT ![s][p] = "no"]
    /\ UNCHANGED <<transport, connected, staff, request, poll, inactive, barred, rows>>

-----------------------------------------------------------------------------
PollerStep(w) ==
    \/ StartPoll(w) \/ BeginReconcile(w) \/ EndPoll(w)
    \/ \E p \in Persons : ReadPage(w, p) \/ Reload(w, p) \/ Provision(w, p) \/ Reconcile(w, p)

Operator ==
    \/ Disconnect \/ Connect
    \/ \E p \in Persons : CreateLocal(p)

Next ==
    \/ \E r \in Requests : Commit(r) \/ \E p \in Persons, op \in Ops : Load(r, p, op)
    \/ \E p \in Persons, link \in {"id", "subject"} : SignIn(p, link)
    \/ \E p \in Persons : GraceElapses(p)
    \/ \E p \in Persons, active \in BOOLEAN : Post(p, active)
    \/ \E p \in Persons, status \in Statuses : StaffChange(p, status)
    \/ Operator
    \/ \E w \in Pollers : PollerStep(w) \/ PollFails(w)
    \/ \E s \in Sweepers : Scan(s) \/ \E p \in Persons : HardDelete(s, p) \/ Skip(s, p)

Spec == Init /\ [][Next]_vars

\* A poller is a task that starts again after each interval, a request is answered
\* and a sweep goes through its list.  Outages of the directory count as changes.
Fairness ==
    /\ \A w \in Pollers : WF_vars(PollerStep(w))
    /\ \A r \in Requests : WF_vars(Commit(r))

FairSpec == Spec /\ Fairness

-----------------------------------------------------------------------------
(* Properties *)

\* "An outage must not look like a mass termination": of the rows that are linked by
\* the directory's id, the poller deactivates only those of persons who were not active
\* in the directory at some moment of that poll.
PollNeedsEvidence ==
    [][\A w \in Pollers, p \in Persons :
          /\ Turn(w, p) /\ poll'[w] # poll[w]
          /\ user[p] # None /\ user[p].link = "id" /\ ~user[p].disabled
          /\ user'[p] # None /\ user'[p].disabled
          => p \in inactive[w]]_vars

\* "Clears disabled_at + soft_deleted_at so the sweeper skips the row": the sweeper
\* deletes nobody who is active, but for a row with the columns of two writers (or
\* of a PUT, which leaves soft_deleted_at) and one restored between scan and delete.
ActiveKept ==
    [][\A p \in Persons : user[p] # None /\ user'[p] = None =>
          user[p].disabled \/ p \in mixed \cup restored]_vars

\* Polling makes the rows follow the directory: once it stays as it is, whoever has
\* left is disabled or gone, and whoever is active has a row that works, in spite of
\* late polls and sweeps.  What a poll makes of a row that an operator has disabled is
\* left open, and rows not linked by the directory's id are none of the poller's: who
\* signs in by another subject may be deactivated, swept and created for ever.
BySubject(p) == user[p] # None /\ user[p].link = "subject"

Followed(p) ==
    \/ user[p] # None /\ user[p].link # "id"
    \/ IF staff[p] = "active" THEN user[p] # None /\ (p \in barred \/ ~user[p].disabled)
       ELSE user[p] = None \/ user[p].disabled

DirectoryFollowed ==
    transport = "poll" =>
        \A p \in Persons : <>[](connected => Followed(p)) \/ []<>BySubject(p)

\* The docstring without the exceptions: nobody is deleted who is active.  A PUT, and
\* a reactivation after the sweeper's scan, break it.
RestoredIsKept ==
    [][\A p \in Persons : user[p] # None /\ user'[p] = None => user[p].disabled]_vars

\* An outage, and a SAML sign-in, must not look like a termination, whatever links the
\* row: one whose external_id is the subject of a sign-in breaks it.
EveryPollNeedsEvidence ==
    [][\A w \in Pollers, p \in Persons :
          /\ Turn(w, p) /\ poll'[w] # poll[w]
          /\ user[p] # None /\ ~user[p].disabled /\ user'[p] # None /\ user'[p].disabled
          => p \in inactive[w]]_vars

\* "Re-enable by clearing the field": a poll leaves a row disabled that an operator
\* has disabled.  The next one breaks it.
BarredStaysOut ==
    [][\A w \in Pollers, p \in barred :
          /\ poll'[w] # poll[w]
          /\ user[p] # None /\ user[p].disabled /\ user'[p] # None
          => user'[p].disabled]_vars

\* Whoever has left the directory is disabled in the end, whatever row they have.  A
\* row that a reconnected directory no longer knows as its own breaks it.
LeaversAreOut ==
    transport = "poll" =>
        <>[](connected => \A p \in Persons :
                staff[p] = "active" \/ user[p] = None \/ user[p].disabled)
=============================================================================
