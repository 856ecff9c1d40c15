--------------------------- MODULE ServerCatalog ---------------------------
(***************************************************************************)
(* One registered upstream server: its row, with what is known of its      *)
(* health, and the rows of its capabilities.                               *)
(* src/vyuu_gateway/capabilities/sync.py (sync and seed, started by        *)
(* capabilities/scheduler.py and api/servers.py), upstream/health.py and   *)
(* registry/service.py.                                                    *)
(*                                                                         *)
(* A job is one run of a sync, a seed or a probe, in any replica or thread.*)
(* It loads the server row once; when it commits, the ORM writes those     *)
(* columns whose value differs from what was loaded, over whatever others  *)
(* have committed since (READ COMMITTED).                                  *)
(***************************************************************************)
EXTENDS Naturals, FiniteSets

CONSTANTS
    Tools,
    Syncs, Seeds, Probes,       \* the jobs, each run once
    None

Jobs == Syncs \cup Seeds \cup Probes

ASSUME CatalogAssumption ==
    /\ Syncs \cap Seeds = {} /\ Syncs \cap Probes = {} /\ Seeds \cap Probes = {}
    /\ None \notin Jobs

VARIABLES
    registered,     \* is the row of mcp_servers there?
    row,            \* its columns
    active,         \* the rows of mcp_capabilities that are not deprecated
    offers,         \* the tools that the upstream server lists now
    job,            \* where each job is
    last,           \* history: the job that committed capabilities last
    met,            \* history: jobs that were in their transaction together
    found,          \* history: the error (or none) found by the job that recorded last,
                    \* unclear before the first and after one that was overtaken
    overtaken       \* history: jobs under way when another's finding changed the row

verdict == <<found, overtaken>>
vars == <<registered, row, active, offers, job, last, met, verdict>>

Errors == {"none", "timeout", "refused"}
Columns == [health : {"unknown", "healthy", "down"}, error : Errors, pulled : BOOLEAN]
Fresh == [health |-> "unknown", error |-> "none", pulled |-> FALSE]

Capability == [tool : Tools, by : Jobs]

\* listed is the answer of the upstream server (or the operator's list), seen the
\* rows that are about to be deprecated.
Job == [at : {"new", "asking", "listed", "writing", "committed", "failed"},
        loaded : Columns, listed : SUBSET Tools, seen : SUBSET Capability]
NewJob == [at |-> "new", loaded |-> Fresh, listed |-> {}, seen |-> {}]

TypeOK ==
    /\ registered \in BOOLEAN
    /\ row \in Columns
    /\ active \subseteq Capability
    /\ offers \subseteq Tools
    /\ job \in [Jobs -> Job]
    /\ last \in Jobs \cup {None}
    /\ met \subseteq Jobs
    /\ found \in Errors \cup {"unclear"}
    /\ overtaken \subseteq Jobs

\* register_mcp_server has just committed.
Init ==
    /\ registered = TRUE
    /\ row = Fresh
    /\ active = {}
    /\ offers \in SUBSET Tools
    /\ job = [j \in Jobs |-> NewJob]
    /\ last = None
    /\ met = {}
    /\ found = "unclear"
    /\ overtaken = {}

At(j, p) == job[j].at = p
Writing == {j \in Jobs : At(j, "writing")}

\* A job that is over: nothing of it is needed but how it ended.
Over(p) == [NewJob EXCEPT !.at = p]
Ends(j, p) == job' = [job EXCEPT ![j] = Over(p)]

\* The column c after a job that loaded l sets it to v.
Written(c, l, v) == IF l[c] = v THEN row[c] ELSE v

Health(error) == IF error = "none" THEN "healthy" ELSE "down"

UnderWay(j) == job[j].at \in {"asking", "listed", "writing"}

\* History: j has recorded its finding; a changed row overtakes the jobs under way.
Records(j, error) ==
    /\ found' = IF j \in overtaken THEN "unclear" ELSE error
    /\ overtaken' = {k \in Jobs \ (Seeds \cup {j}) :
           /\ UnderWay(k)
           /\ k \in overtaken \/ row'.health # row.health \/ row'.error # row.error}

-----------------------------------------------------------------------------
(* Sync and seed *)

\* The server row is loaded; a sync then asks the upstream server.
StartSync(j) ==
    /\ At(j, "new")
    /\ IF registered
         THEN job' = [job EXCEPT ![j].at = "asking", ![j].loaded = row]
         ELSE Ends(j, "failed")
    /\ UNCHANGED <<registered, row, active, offers, last, met, verdict>>

Listed(j) ==
    /\ At(j, "asking")
    /\ job' = [job EXCEPT ![j].at = "listed", ![j].listed = offers]
    /\ UNCHANGED <<registered, row, active, offers, last, met, verdict>>

\* The upstream server fails or the call runs into its timeout, and the session
\* is rolled back.
SyncFails(j) ==
    /\ At(j, "asking")
    /\ Ends(j, "failed")
    /\ UNCHANGED <<registered, row, active, offers, last, met, verdict>>

StartSeed(j, list) ==
    /\ At(j, "new")
    /\ IF registered
         THEN job' = [job EXCEPT ![j].at = "listed", ![j].loaded = row, ![j].listed = list]
         ELSE Ends(j, "failed")
    /\ UNCHANGED <<registered, row, active, offers, last, met, verdict>>

\* History: a job that begins to write meets those that write now.
Meets(j) == met' = IF Writing = {} THEN met ELSE met \cup Writing \cup {j}

BugReadActive(j) ==
    /\ At(j, "listed")
    /\ job' = [job EXCEPT ![j].at = "writing", ![j].seen =
                   {c \in active : c.tool \notin job[j].listed}]
    /\ Meets(j)
    /\ UNCHANGED <<registered, row, active, offers, last, verdict>>

\* The capabilities that are active are read after the answer.
ReadActive(j) ==
    /\ At(j, "listed")
    /\ job' = [job EXCEPT ![j].at = "writing", ![j].seen = active]
    /\ Meets(j)
    /\ UNCHANGED <<registered, row, active, offers, last, verdict>>

\* What was read is deprecated and the list inserted, in one transaction.
Replaced(j) == (active \ job[j].seen) \cup [tool : job[j].listed, by : {j}]

\* Nothing is written, by foreign keys and row counts, when the server is gone.
Rollback(j) ==
    /\ ~registered
    /\ Ends(j, "failed")
    /\ UNCHANGED <<registered, row, active, offers, last, met, verdict>>

BugCommitSync(j) ==
    LET l == job[j].loaded
    IN  /\ j \in Syncs /\ At(j, "writing")
        /\ active' = Replaced(j)
        /\ row' = [health |-> Written("health", l, "healthy"), error |-> row.error, pulled |-> TRUE]
        /\ Records(j, "none")
        /\ last' = j
        /\ Ends(j, "committed")
        /\ UNCHANGED <<registered, offers, met>>

BugCommitUnchecked(j) ==
    LET l == job[j].loaded
    IN  /\ j \in Syncs /\ At(j, "writing")
        /\ active' = Replaced(j)
        /\ row' = [health |-> Written("health", l, "healthy"),
                   error  |-> Written("error", l, "none"), pulled |-> TRUE]
        /\ Records(j, "none")
        /\ last' = j
        /\ Ends(j, "committed")
        /\ UNCHANGED <<registered, offers, met>>

\* "A completed sync IS a successful connection."
CommitSync(j) ==
    LET l == job[j].loaded
    IN  /\ j \in Syncs /\ At(j, "writing")
        /\ registered
        /\ active' = Replaced(j)
        /\ row' = [health |-> Written("health", l, "healthy"),
                   error  |-> Written("error", l, "none"), pulled |-> TRUE]
        /\ Records(j, "none")
        /\ last' = j
        /\ Ends(j, "committed")
        /\ UNCHANGED <<registered, offers, met>>

\* A seed is no evidence of the server: neither health nor the pull is recorded.
CommitSeed(j) ==
    /\ j \in Seeds /\ At(j, "writing")
    /\ registered
    /\ active' = Replaced(j)
    /\ last' = j
    /\ Ends(j, "committed")
    /\ UNCHANGED <<registered, row, offers, met, verdict>>

-----------------------------------------------------------------------------
(* UpstreamHealthChecker.check_server *)

StartProbe(j) ==
    /\ j \in Probes /\ At(j, "new")
    /\ IF registered
         THEN job' = [job EXCEPT ![j].at = "asking", ![j].loaded = row]
         ELSE Ends(j, "failed")
    /\ UNCHANGED <<registered, row, active, offers, last, met, verdict>>

\* The session with the upstream server opens, or not; what was found is committed.
CommitProbe(j, error) ==
    LET l == job[j].loaded
    IN  /\ j \in Probes /\ At(j, "asking")
        /\ registered
        /\ row' = [row EXCEPT !.health = Written("health", l, Health(error)),
                              !.error = Written("error", l, error)]
        /\ Records(j, error)
        /\ Ends(j, "committed")
        /\ UNCHANGED <<registered, active, offers, last, met>>

-----------------------------------------------------------------------------
\* delete_mcp_server: the rows of the capabilities are reaped by the foreign key.
Delete ==
    /\ registered
    /\ registered' = FALSE
    /\ active' = {}
    /\ UNCHANGED <<row, offers, job, last, met, verdict>>

\* The upstream server changes what it offers.
Publish ==
    /\ offers' \in SUBSET Tools \ {offers}
    /\ UNCHANGED <<registered, row, active, job, last, met, verdict>>

Start(j) ==
    \/ j \in Syncs /\ StartSync(j)
    \/ j \in Seeds /\ \E list \in SUBSET Tools : StartSeed(j, list)
    \/ StartProbe(j)

Ask(j) == j \in Syncs /\ (Listed(j) \/ SyncFails(j))

Write(j) ==
    \/ ReadActive(j)
    \/ CommitSync(j) \/ CommitSeed(j)
    \/ \E error \in Errors : CommitProbe(j, error)
    \/ (At(j, "writing") \/ (j \in Probes /\ At(j, "asking"))) /\ Rollback(j)

Next ==
    \/ \E j \in Jobs : Start(j) \/ Ask(j) \/ Write(j)
    \/ Delete
    \/ Publish

Spec == Init /\ [][Next]_vars

-----------------------------------------------------------------------------
(* Properties *)

\* "Gateway treats the seed as the active capability snapshot", and so the list of
\* a sync: the active rows are one list, the last one committed.  However many
\* replicas sync the server while others await its answer, only jobs whose
\* transactions overlap leave more than that, and the next one sets it right.
OneSnapshot ==
    last # None /\ last \notin met => \A c \in active : c.by = last

\* A deleted server leaves no capability behind, whatever was under way.
DeletedIsGone == ~registered => active = {}

\* What the row says of health and error is the finding of one job, the last that
\* recorded any, and no error of an earlier one is left over in it: syncs and probes
\* that find the same may overlap, and only a job under way while another changes the
\* row mixes its finding with that one's.  The next job to come by sets it right.
LastVerdictStands ==
    found \in Errors => row.health = Health(found) /\ row.error = found

\* "Evidence we already have should not be thrown away in favour of a stale
\* failure": a server reads healthy once a sync of it is committed.
SyncMeansHealthy ==
    [][\A j \in Syncs : At(j, "writing") /\ job'[j].at = "committed"
          => row'.health = "healthy"]_vars

\* A server that reads healthy has no error.
HealthyWithoutError == row.health = "healthy" => row.error = "none"
=============================================================================
