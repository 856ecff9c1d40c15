--------------------------- MODULE Catalog_proofs ---------------------------
(***************************************************************************)
(* Theorems about ServerCatalog, for any tools and any number of jobs, and  *)
(* about VirtualServer, for any tools, rename maps, allowlists and edits.   *)
(***************************************************************************)
EXTENDS ServerCatalog, VirtualServer, FiniteSetTheorems, SequenceTheorems,
        WellFoundedInduction, TLAPS

-----------------------------------------------------------------------------
(* The server's catalog *)

\* What makes OneSnapshot inductive: jobs that write together have met, and one
\* that writes alone has read every row that is still active.
WritersMeet == \A i, j \in Writing : i # j => i \in met /\ j \in met

LoneWriterSawAll == \A j \in Writing \ met : active \subseteq job[j].seen

\* What makes LastVerdictStands inductive: a job that nobody has overtaken still
\* finds in the row what it loaded.
LoadedStands ==
    \A j \in (Syncs \cup Probes) \ overtaken : UnderWay(j) =>
        row.health = job[j].loaded.health /\ row.error = job[j].loaded.error

VerdictInv == LoadedStands /\ LastVerdictStands

IInv ==
    /\ TypeOK
    /\ WritersMeet /\ LoneWriterSawAll /\ OneSnapshot /\ DeletedIsGone
    /\ VerdictInv

LEMMA InitIInv == Init => IInv
<1> SUFFICES ASSUME Init PROVE IInv
  OBVIOUS
<1>1. TypeOK
  BY DEF Init, TypeOK, NewJob, Job, Fresh, Columns, Errors
<1>2. WritersMeet /\ LoneWriterSawAll /\ OneSnapshot /\ DeletedIsGone
  BY CatalogAssumption
  DEF CatalogAssumption, Init, WritersMeet, LoneWriterSawAll, OneSnapshot, DeletedIsGone,
      Writing, At, NewJob
<1>3. LastVerdictStands
  BY DEF Init, LastVerdictStands, Errors
<1>4. LoadedStands
  BY DEF Init, LoadedStands, UnderWay, NewJob, Jobs
<1>5. QED
  BY <1>1, <1>2, <1>3, <1>4 DEF IInv, VerdictInv

LEMMA OverTyped ==
  ASSUME NEW p \in {"committed", "failed"}
  PROVE  Over(p) \in Job /\ Over(p).at = p
  BY DEF Over, NewJob, Job, Fresh, Columns, Errors

\* A job that is not about to write, and changes no capability, disturbs nothing.
LEMMA QuietStep ==
  ASSUME IInv, NEW j \in Jobs, NEW next \in Job,
         job' = [job EXCEPT ![j] = next], next.at # "writing",
         UNCHANGED <<registered, active, last, met>>
  PROVE  WritersMeet' /\ LoneWriterSawAll' /\ OneSnapshot' /\ DeletedIsGone'
<1>1. \A i \in Jobs : i \in Writing' => i \in Writing /\ job'[i] = job[i]
  BY DEF IInv, TypeOK, Writing, At
<1>2. WritersMeet'
  BY <1>1 DEF IInv, WritersMeet, Writing
<1>3. LoneWriterSawAll'
  BY <1>1 DEF IInv, LoneWriterSawAll, Writing
<1>4. OneSnapshot' /\ DeletedIsGone'
  BY DEF IInv, OneSnapshot, DeletedIsGone
<1>5. QED
  BY <1>2, <1>3, <1>4

\* Whoever records nothing, and is where it was or has just loaded the row, leaves
\* the verdict as it is.
LEMMA VerdictKept ==
  ASSUME IInv, UNCHANGED <<row, verdict>>,
         NEW j \in Jobs, \A k \in Jobs \ {j} : job'[k] = job[k],
         UnderWay(j)' => \/ UnderWay(j) /\ job'[j].loaded = job[j].loaded
                       \/ job'[j].loaded = row
  PROVE  VerdictInv'
<1>1. UNCHANGED <<row, found, overtaken>>
  BY DEF verdict
<1>2. LastVerdictStands'
  BY <1>1 DEF IInv, VerdictInv, LastVerdictStands
<1>3. ASSUME NEW k \in (Syncs \cup Probes) \ overtaken', UnderWay(k)'
      PROVE  row'.health = job'[k].loaded.health /\ row'.error = job'[k].loaded.error
  <2>1. k \in Jobs /\ k \notin overtaken
    BY <1>1, <1>3 DEF Jobs
  <2>2. CASE k = j
    BY <1>1, <1>3, <2>1, <2>2 DEF IInv, VerdictInv, LoadedStands
  <2>3. CASE k # j
    BY <1>1, <1>3, <2>1, <2>3 DEF IInv, VerdictInv, LoadedStands, UnderWay
  <2>4. QED
    BY <2>2, <2>3
<1>4. QED
  BY <1>2, <1>3 DEF VerdictInv, LoadedStands

\* A job that records its finding: if nobody has overtaken it, the columns it does
\* not write are those that it found right.
LEMMA RecordsStep ==
  ASSUME IInv, NEW j \in Syncs \cup Probes, UnderWay(j), NEW error \in Errors,
         NEW pulled \in BOOLEAN,
         row' = [health |-> Written("health", job[j].loaded, Health(error)),
                 error |-> Written("error", job[j].loaded, error), pulled |-> pulled],
         Records(j, error), Ends(j, "committed")
  PROVE  /\ row' \in Columns /\ found' \in Errors \cup {"unclear"} /\ overtaken' \subseteq Jobs
         /\ VerdictInv'
<1>1. j \in Jobs /\ job[j] \in Job /\ job[j].loaded \in Columns
  BY DEF IInv, TypeOK, Job, Jobs
<1>2. row' \in Columns
  BY <1>1 DEF IInv, TypeOK, Written, Health, Columns, Errors
<1>3. found' \in Errors \cup {"unclear"} /\ overtaken' \subseteq Jobs
  BY DEF Records
<1>4. LastVerdictStands'
  <2>1. CASE j \in overtaken
    BY <2>1 DEF Records, LastVerdictStands, Errors
  <2>2. CASE j \notin overtaken
    BY <2>2 DEF IInv, VerdictInv, LoadedStands, LastVerdictStands, Records, Written
  <2>3. QED
    BY <2>1, <2>2
<1>5. ASSUME NEW k \in (Syncs \cup Probes) \ overtaken', UnderWay(k)'
      PROVE  row'.health = job'[k].loaded.health /\ row'.error = job'[k].loaded.error
  <2>1. k # j
    BY <1>1, <1>5, OverTyped DEF IInv, TypeOK, Ends, UnderWay
  <2>2. k \in Jobs /\ k \notin Seeds /\ job'[k] = job[k]
    BY <1>1, <2>1, CatalogAssumption DEF CatalogAssumption, IInv, TypeOK, Ends, Jobs
  <2>3. UnderWay(k)
    BY <1>5, <2>2 DEF UnderWay
  <2>4. k \notin overtaken /\ row'.health = row.health /\ row'.error = row.error
    BY <1>5, <2>1, <2>2, <2>3 DEF Records, UnderWay
  <2>5. QED
    BY <2>2, <2>3, <2>4 DEF IInv, VerdictInv, LoadedStands
<1>6. QED
  BY <1>2, <1>3, <1>4, <1>5 DEF VerdictInv, LoadedStands

\* A commit that replaces the active rows: whoever else writes has met j.
LEMMA CommitStep ==
  ASSUME IInv, NEW j \in Jobs, At(j, "writing"), registered,
         active' = Replaced(j), last' = j, Ends(j, "committed"),
         UNCHANGED <<registered, met>>
  PROVE  /\ active' \subseteq Capability
         /\ WritersMeet' /\ LoneWriterSawAll' /\ OneSnapshot' /\ DeletedIsGone'
<1>1. \A i \in Jobs : i \in Writing' => i # j /\ i \in Writing /\ job'[i] = job[i]
  BY OverTyped DEF IInv, TypeOK, Writing, At, Ends
<1>2. j \in Writing
  BY DEF Writing
<1>3. active' \subseteq Capability
  BY DEF IInv, TypeOK, Replaced, Capability, Job
<1>4. WritersMeet'
  BY <1>1 DEF IInv, WritersMeet, Writing
<1>5. LoneWriterSawAll'
  BY <1>1, <1>2 DEF IInv, WritersMeet, LoneWriterSawAll, Writing
<1>6. OneSnapshot'
  <2>1. ASSUME j \notin met, NEW c \in active' PROVE c.by = j
    BY <1>2, <2>1 DEF IInv, LoneWriterSawAll, Replaced
  <2>2. QED
    BY <2>1 DEF OneSnapshot
<1>7. DeletedIsGone'
  BY DEF DeletedIsGone
<1>8. QED
  BY <1>3, <1>4, <1>5, <1>6, <1>7

\* A job that begins to write has read what is active, and meets who writes already.
LEMMA ReadStep ==
  ASSUME IInv, NEW j \in Jobs, ReadActive(j)
  PROVE  IInv'
<1>1. job[j] \in Job /\ job'[j].at = "writing" /\ job'[j].seen = active
  BY DEF IInv, TypeOK, ReadActive, Job
<1>2. \A i \in Jobs \ {j} : job'[i] = job[i]
  BY DEF IInv, TypeOK, ReadActive
<1>3. met' = IF Writing = {} THEN met ELSE met \cup Writing \cup {j}
  BY DEF ReadActive, Meets
<1>4. TypeOK'
  BY <1>3 DEF IInv, TypeOK, ReadActive, Job, Writing, verdict
<1>5. Writing' \subseteq Writing \cup {j}
  BY <1>2 DEF Writing, At
<1>6. WritersMeet'
  BY <1>3, <1>5 DEF IInv, WritersMeet
<1>7. LoneWriterSawAll'
  BY <1>1, <1>2, <1>3, <1>5 DEF IInv, LoneWriterSawAll, ReadActive
<1>8. OneSnapshot' /\ DeletedIsGone'
  BY <1>3 DEF IInv, OneSnapshot, DeletedIsGone, ReadActive
<1>9. VerdictInv'
  <2>1. job'[j].loaded = job[j].loaded /\ UnderWay(j)
    BY <1>1 DEF IInv, TypeOK, ReadActive, Job, At, UnderWay
  <2>2. UNCHANGED <<row, verdict>>
    BY DEF ReadActive
  <2>3. QED
    BY <1>2, <2>1, <2>2, VerdictKept
<1>10. QED
  BY <1>4, <1>6, <1>7, <1>8, <1>9 DEF IInv

LEMMA StepIInv == IInv /\ [Next]_vars => IInv'
<1> SUFFICES ASSUME IInv, [Next]_vars PROVE IInv'
  OBVIOUS
<1>1. ASSUME NEW j \in Jobs, StartSync(j) \/ StartProbe(j) PROVE IInv'
  <2> DEFINE next == IF registered THEN [job[j] EXCEPT !.at = "asking", !.loaded = row]
                     ELSE Over("failed")
  <2>1. next \in Job /\ next.at # "writing"
    BY OverTyped DEF IInv, TypeOK, Job
  <2>2. job' = [job EXCEPT ![j] = next]
    BY <1>1 DEF IInv, TypeOK, StartSync, StartProbe, Ends, Job
  <2>3. UNCHANGED <<registered, row, active, offers, last, met, verdict>>
    BY <1>1 DEF StartSync, StartProbe
  <2>4. TypeOK'
    BY <2>1, <2>2, <2>3 DEF IInv, TypeOK, verdict
  <2>5. job'[j] = next /\ \A k \in Jobs \ {j} : job'[k] = job[k]
    BY <2>2 DEF IInv, TypeOK
  <2>6. VerdictInv'
    <3>1. UnderWay(j)' => job'[j].loaded = row
      BY <2>5, OverTyped DEF IInv, TypeOK, Job, UnderWay
    <3>2. QED
      BY <2>3, <2>5, <3>1, VerdictKept
  <2>7. QED
    BY <2>1, <2>2, <2>3, <2>4, <2>6, QuietStep DEF IInv
<1>2. ASSUME NEW j \in Jobs, NEW list \in SUBSET Tools, StartSeed(j, list) PROVE IInv'
  <2> DEFINE next == IF registered
                     THEN [job[j] EXCEPT !.at = "listed", !.loaded = row, !.listed = list]
                     ELSE Over("failed")
  <2>1. next \in Job /\ next.at # "writing"
    BY OverTyped DEF IInv, TypeOK, Job
  <2>2. job' = [job EXCEPT ![j] = next]
    BY <1>2 DEF IInv, TypeOK, StartSeed, Ends, Job
  <2>3. UNCHANGED <<registered, row, active, offers, last, met, verdict>>
    BY <1>2 DEF StartSeed
  <2>4. TypeOK'
    BY <2>1, <2>2, <2>3 DEF IInv, TypeOK, verdict
  <2>5. job'[j] = next /\ \A k \in Jobs \ {j} : job'[k] = job[k]
    BY <2>2 DEF IInv, TypeOK
  <2>6. VerdictInv'
    <3>1. UnderWay(j)' => job'[j].loaded = row
      BY <2>5, OverTyped DEF IInv, TypeOK, Job, UnderWay
    <3>2. QED
      BY <2>3, <2>5, <3>1, VerdictKept
  <2>7. QED
    BY <2>1, <2>2, <2>3, <2>4, <2>6, QuietStep DEF IInv
<1>3. ASSUME NEW j \in Jobs, Listed(j) PROVE IInv'
  <2> DEFINE next == [job[j] EXCEPT !.at = "listed", !.listed = offers]
  <2>1. next \in Job /\ next.at # "writing"
    BY DEF IInv, TypeOK, Job
  <2>2. job' = [job EXCEPT ![j] = next]
    BY <1>3 DEF IInv, TypeOK, Listed, Job
  <2>3. UNCHANGED <<registered, row, active, offers, last, met, verdict>>
    BY <1>3 DEF Listed
  <2>4. TypeOK'
    BY <2>1, <2>2, <2>3 DEF IInv, TypeOK, verdict
  <2>5. job'[j] = next /\ \A k \in Jobs \ {j} : job'[k] = job[k]
    BY <2>2 DEF IInv, TypeOK
  <2>6. VerdictInv'
    <3>1. UnderWay(j) /\ job'[j].loaded = job[j].loaded
      BY <2>5, <1>3 DEF IInv, TypeOK, Job, UnderWay, Listed, At
    <3>2. QED
      BY <2>3, <2>5, <3>1, VerdictKept
  <2>7. QED
    BY <2>1, <2>2, <2>3, <2>4, <2>6, QuietStep DEF IInv
<1>4. ASSUME NEW j \in Jobs, SyncFails(j) \/ Rollback(j) PROVE IInv'
  <2>1. job' = [job EXCEPT ![j] = Over("failed")]
    BY <1>4 DEF SyncFails, Rollback, Ends
  <2>2. UNCHANGED <<registered, row, active, offers, last, met, verdict>>
    BY <1>4 DEF SyncFails, Rollback
  <2>3. TypeOK'
    BY <2>1, <2>2, OverTyped DEF IInv, TypeOK, verdict
  <2>4. VerdictInv'
    BY <2>1, <2>2, OverTyped, VerdictKept DEF IInv, TypeOK, UnderWay
  <2>5. QED
    BY <2>1, <2>2, <2>3, <2>4, OverTyped, QuietStep DEF IInv
<1>5. ASSUME NEW j \in Jobs, ReadActive(j) PROVE IInv'
  BY <1>5, ReadStep
<1>6. ASSUME NEW j \in Jobs, CommitSync(j) PROVE IInv'
  <2>1. /\ active' \subseteq Capability
        /\ WritersMeet' /\ LoneWriterSawAll' /\ OneSnapshot' /\ DeletedIsGone'
    BY <1>6, CommitStep DEF CommitSync
  <2>2. row' \in Columns /\ found' \in Errors \cup {"unclear"} /\ overtaken' \subseteq Jobs
        /\ VerdictInv'
    <3>1. j \in Syncs \cup Probes /\ UnderWay(j) /\ "none" \in Errors
      BY <1>6 DEF CommitSync, At, UnderWay, Errors
    <3>2. row' = [health |-> Written("health", job[j].loaded, Health("none")),
                  error |-> Written("error", job[j].loaded, "none"), pulled |-> TRUE]
      BY <1>6 DEF CommitSync, Health
    <3>3. Records(j, "none") /\ Ends(j, "committed")
      BY <1>6 DEF CommitSync
    <3>4. QED
      BY <3>1, <3>2, <3>3, RecordsStep
  <2>3. job' \in [Jobs -> Job]
    BY <1>6, OverTyped DEF IInv, TypeOK, CommitSync, Ends
  <2>4. TypeOK'
    BY <1>6, <2>1, <2>2, <2>3 DEF IInv, TypeOK, CommitSync
  <2>5. QED
    BY <2>1, <2>2, <2>4 DEF IInv
<1>7. ASSUME NEW j \in Jobs, CommitSeed(j) PROVE IInv'
  <2>1. /\ active' \subseteq Capability
        /\ WritersMeet' /\ LoneWriterSawAll' /\ OneSnapshot' /\ DeletedIsGone'
    BY <1>7, CommitStep DEF CommitSeed
  <2>2. job' \in [Jobs -> Job]
    BY <1>7, OverTyped DEF IInv, TypeOK, CommitSeed, Ends
  <2>3. TypeOK'
    BY <1>7, <2>1, <2>2 DEF IInv, TypeOK, CommitSeed, verdict
  <2>4. VerdictInv'
    BY <1>7, OverTyped, VerdictKept DEF IInv, TypeOK, CommitSeed, Ends, UnderWay
  <2>5. QED
    BY <2>1, <2>3, <2>4 DEF IInv
<1>8. ASSUME NEW j \in Jobs, NEW error \in Errors, CommitProbe(j, error) PROVE IInv'
  <2>1. job' = [job EXCEPT ![j] = Over("committed")]
        /\ UNCHANGED <<registered, active, offers, last, met>>
    BY <1>8 DEF CommitProbe, Ends
  <2>2. row' \in Columns /\ found' \in Errors \cup {"unclear"} /\ overtaken' \subseteq Jobs
        /\ VerdictInv'
    <3>1. j \in Syncs \cup Probes /\ UnderWay(j)
      BY <1>8 DEF CommitProbe, At, UnderWay
    <3>2. row.pulled \in BOOLEAN
          /\ row' = [health |-> Written("health", job[j].loaded, Health(error)),
                     error |-> Written("error", job[j].loaded, error), pulled |-> row.pulled]
      BY <1>8 DEF CommitProbe, IInv, TypeOK, Columns
    <3>3. Records(j, error) /\ Ends(j, "committed")
      BY <1>8 DEF CommitProbe
    <3>4. QED
      BY <3>1, <3>2, <3>3, RecordsStep
  <2>3. TypeOK'
    BY <2>1, <2>2, OverTyped DEF IInv, TypeOK
  <2>4. QED
    BY <2>1, <2>2, <2>3, OverTyped, QuietStep DEF IInv
<1>9. CASE Delete \/ Publish \/ UNCHANGED vars
  <2>1. VerdictInv'
    BY <1>9 DEF Delete, Publish, vars, verdict, IInv, VerdictInv, LoadedStands,
                LastVerdictStands, UnderWay
  <2>2. CASE Delete
    BY <2>1, <2>2 DEF Delete, verdict, IInv, TypeOK, WritersMeet, LoneWriterSawAll, OneSnapshot,
                      DeletedIsGone, Writing, At
  <2>3. CASE Publish \/ UNCHANGED vars
    BY <2>1, <2>3 DEF Publish, vars, verdict, IInv, TypeOK, WritersMeet, LoneWriterSawAll,
                      OneSnapshot, DeletedIsGone, Writing, At
  <2>4. QED
    BY <1>9, <2>2, <2>3
<1>10. QED
  BY <1>1, <1>2, <1>3, <1>4, <1>5, <1>6, <1>7, <1>8, <1>9
  DEF Next, Start, Ask, Write

LEMMA InvariantHolds == Spec => []IInv
  BY InitIInv, StepIInv, PTL DEF Spec

\* The variables keep their types.
THEOREM TypeCorrect == Spec => []TypeOK
  BY InvariantHolds, PTL DEF IInv

\* However many syncs and seeds of a server run in however many replicas, what is
\* active is the list of the one committed last, unless transactions overlapped.
THEOREM CatalogIsOneSnapshot == Spec => []OneSnapshot
  BY InvariantHolds, PTL DEF IInv

\* No job brings the capabilities of a deleted server back.
THEOREM DeletedServersAreGone == Spec => []DeletedIsGone
  BY InvariantHolds, PTL DEF IInv

\* However many syncs and probes of a server overlap, what its row says of health and
\* error is one job's finding, the last one's, unless another's finding changed the
\* row while that job was under way.
THEOREM LastVerdictsStand == Spec => []LastVerdictStands
  BY InvariantHolds, PTL DEF IInv, VerdictInv

-----------------------------------------------------------------------------
(* Induction.  The library's theorems on it take a predicate as a parameter;   *)
(* a counterexample with the least number does as well.                        *)

LEMMA Least ==
  ASSUME NEW S \in SUBSET Nat, S # {}
  PROVE  \E n \in S : \A m \in S : n <= m
<1>1. PICK R : R = OpToRel(<, Nat)
  OBVIOUS
<1>2. IsWellFoundedOn(R, Nat)
  BY <1>1, NatLessThanWellFounded
<1>3. \A m, n \in Nat : m < n => <<m, n>> \in R
  BY <1>1 DEF OpToRel
<1>4. PICK n \in S : \A m \in S : ~ (<<m, n>> \in R)
  BY <1>2, WFMin
<1>5. \A m \in S : ~ (m < n)
  BY <1>3, <1>4
<1>6. QED
  BY <1>5

-----------------------------------------------------------------------------
(* The names of a virtual server's tools *)

\* What a name is made of.
Parts == STRING \cup Nat
Name == Seq(Parts)

\* The counter keeps the names that it makes apart.
LEMMA NumberedApart ==
  ASSUME NEW name \in Name, NEW server \in Parts, NEW m \in Nat \ {0}, NEW n \in Nat \ {0},
         Numbered(name, server, m) = Numbered(name, server, n)
  PROVE  m = n
<1>1. PICK s : s = Append(name, server)
  OBVIOUS
<1>2. s \in Name /\ Len(s) \in Nat
  BY <1>1 DEF Name
<1>3. \A i \in Nat : /\ Len(Append(s, i)) = Len(s) + 1
                     /\ Append(s, i)[Len(s) + 1] = i
  BY <1>2 DEF Name, Parts
<1>4. \A i \in Nat \ {0} : Numbered(name, server, i) = IF i = 1 THEN s ELSE Append(s, i)
  BY <1>1 DEF Numbered
<1>5. CASE m = 1 /\ n # 1
  BY <1>2, <1>3, <1>4, <1>5
<1>6. CASE m # 1 /\ n = 1
  BY <1>2, <1>3, <1>4, <1>6
<1>7. CASE m # 1 /\ n # 1
  BY <1>3, <1>4, <1>7
<1>8. QED
  BY <1>5, <1>6, <1>7

\* The name that is made is free, whatever names are taken, and it is the one asked
\* for when that one is.
LEMMA MadeUnique ==
  ASSUME NEW name \in Name, NEW server \in Parts, NEW used, IsFiniteSet(used)
  PROVE  /\ MakeUnique(name, server, used) \notin used
         /\ name \notin used => MakeUnique(name, server, used) = name
         /\ \/ MakeUnique(name, server, used) = name
            \/ \E n \in Nat \ {0} : MakeUnique(name, server, used) = Numbered(name, server, n)
<1>1. CASE name \notin used
  BY <1>1 DEF MakeUnique
<1>2. CASE name \in used
  <2> DEFINE c == Cardinality(used)
             Free == {n \in 1 .. c + 1 : Numbered(name, server, n) \notin used}
             P(n) == /\ Numbered(name, server, n) \notin used
                     /\ \A m \in 1 .. n - 1 : Numbered(name, server, m) \in used
  <2>1. c \in Nat
    BY FS_CardinalityType
  <2>2. Free # {}
    <3>1. SUFFICES ASSUME Free = {} PROVE FALSE
      OBVIOUS
    <3>2. PICK f : f = [n \in 1 .. c + 1 |-> Numbered(name, server, n)]
      OBVIOUS
    <3>3. f \in [1 .. c + 1 -> used]
      BY <3>1, <3>2
    <3>4. IsFiniteSet(1 .. c + 1) /\ Cardinality(1 .. c + 1) = c + 1
      BY <2>1, FS_Interval
    <3>5. \E m, n \in 1 .. c + 1 : m # n /\ f[m] = f[n]
      <4>1. c < c + 1
        BY <2>1
      <4> HIDE DEF c
      <4>2. Cardinality(used) < Cardinality(1 .. c + 1)
        BY <3>4, <4>1 DEF c
      <4> QED BY <3>3, <3>4, <4>2, FS_PigeonHole
    <3>6. 1 .. c + 1 \subseteq Nat \ {0}
      BY <2>1
    <3> QED BY <3>2, <3>5, <3>6, NumberedApart
  <2>3. PICK n \in Free : \A m \in Free : n <= m
    <3>1. Free \in SUBSET Nat
      BY <2>1
    <3> HIDE DEF Free
    <3> QED BY <2>2, <3>1, Least
  <2>4. P(n)
    <3> SUFFICES ASSUME NEW m \in 1 .. n - 1 PROVE Numbered(name, server, m) \in used
      OBVIOUS
    <3>1. m \in 1 .. c + 1 /\ ~(n <= m)
      BY <2>1, <2>3
    <3> QED BY <2>3, <3>1
  <2>5. PICK k : k = CHOOSE i \in 1 .. c + 1 : P(i)
    OBVIOUS
  <2>6. k \in 1 .. c + 1 /\ P(k)
    BY <2>3, <2>4, <2>5
  <2>7. MakeUnique(name, server, used) = Numbered(name, server, k)
    BY <1>2, <2>5 DEF MakeUnique
  <2>8. k \in Nat \ {0}
    BY <2>1, <2>6
  <2>9. QED
    BY <1>2, <2>6, <2>7, <2>8
<1>3. QED
  BY <1>1, <1>2

\* The rows that a query may find, and the place of each in its answer.
Place(r) == 2 * r[1] + r[2]
Found == (DOMAIN Order) \X (1 .. 2)

LEMMA PlacesApart ==
  /\ \A r \in Found : Place(r) \in Nat
  /\ \A q, r \in Found : Place(q) = Place(r) => q = r
<1>1. \A r \in Found : r[1] \in Nat /\ r[2] \in {1, 2} /\ r = <<r[1], r[2]>>
  BY VserverAssumption DEF VserverAssumption, Found
<1>2. ASSUME NEW q \in Found, NEW r \in Found, Place(q) = Place(r)
      PROVE  q = r
  <2>1. 2 * q[1] + q[2] = 2 * r[1] + r[2]
    BY <1>2 DEF Place
  <2>2. PICK a, b, c, d : a = q[1] /\ b = q[2] /\ c = r[1] /\ d = r[2]
    OBVIOUS
  <2>3. a \in Nat /\ b \in {1, 2} /\ c \in Nat /\ d \in {1, 2}
    BY <1>1, <2>2
  <2>4. a = c /\ b = d
    BY <2>1, <2>2, <2>3
  <2>5. QED
    BY <1>1, <2>2, <2>4
<1>3. QED
  BY <1>1, <1>2 DEF Place

LEMMA FiniteRows ==
  ASSUME NEW rows \in SUBSET Found
  PROVE  IsFiniteSet(rows)
<1>1. IsFiniteSet(DOMAIN Order) /\ IsFiniteSet(1 .. 2)
  <2>1. DOMAIN Order = 1 .. Len(Order) /\ Len(Order) \in Nat
    BY VserverAssumption DEF VserverAssumption
  <2>2. \A n \in Nat : IsFiniteSet(1 .. n)
    BY FS_Interval
  <2>3. QED
    BY <2>1, <2>2
<1>2. IsFiniteSet(Found)
  BY <1>1, FS_Product DEF Found
<1>3. QED
  BY <1>2, FS_Subset
\* How the rows with the numbers below n are named.
Below(n, rows) == {r \in rows : Place(r) < n}
Naming(f, n, rows, map) ==
    f = [r \in Below(n, rows) |-> MakeUnique(Candidate(r, rows, map), Key(r)[1],
                                             {f[q] : q \in Before(r, rows)})]

\* There is such a naming for every number, so that the recursion of Exposed defines
\* a name for every row.
LEMMA NamingExists ==
  ASSUME NEW rows \in SUBSET Found, NEW map, NEW n \in Nat
  PROVE  \E f : Naming(f, n, rows, map)
<1> DEFINE S == {i \in Nat : ~ \E f : Naming(f, i, rows, map)}
<1>1. SUFFICES ASSUME S # {} PROVE FALSE
  OBVIOUS
<1>2. S \in SUBSET Nat
  OBVIOUS
<1>3. PICK m \in S : \A i \in S : m <= i
  <2> HIDE DEF S
  <2> QED BY <1>1, <1>2, Least
<1>4. m # 0
  <2>1. \A r \in rows : Place(r) \in Nat
    BY PlacesApart
  <2>2. Below(0, rows) = {}
    BY <2>1 DEF Below
  <2>3. PICK f : f = [r \in Below(0, rows) |-> 0]
    OBVIOUS
  <2>4. Naming(f, 0, rows, map)
    BY <2>2, <2>3 DEF Naming
  <2>5. QED
    BY <2>4
<1>5. PICK f : Naming(f, m - 1, rows, map)
  <2>1. m - 1 \in Nat /\ ~(m <= m - 1)
    BY <1>2, <1>4
  <2>2. m - 1 \notin S
    BY <1>3, <2>1
  <2> QED BY <2>1, <2>2
<1>6. PICK g : g = [r \in Below(m, rows) |->
                      IF r \in Below(m - 1, rows) THEN f[r]
                      ELSE MakeUnique(Candidate(r, rows, map), Key(r)[1],
                                      {f[q] : q \in Before(r, rows)})]
  OBVIOUS
<1>7. ASSUME NEW r \in Below(m, rows)
      PROVE  /\ Before(r, rows) \subseteq Below(m - 1, rows)
             /\ {g[q] : q \in Before(r, rows)} = {f[q] : q \in Before(r, rows)}
  <2>1. \A q \in rows : Place(q) \in Nat
    BY PlacesApart
  <2>2. m \in Nat /\ r \in rows /\ Place(r) < m
    BY <1>2 DEF Below
  <2>3. \A q \in Before(r, rows) : q \in rows /\ Place(q) < Place(r)
    BY DEF Before, Place
  <2>4. \A q \in Before(r, rows) : q \in Below(m - 1, rows) /\ q \in Below(m, rows)
    BY <2>1, <2>2, <2>3 DEF Below
  <2>5. \A q \in Before(r, rows) : g[q] = f[q]
    BY <1>6, <2>4
  <2>6. QED
    BY <2>4, <2>5
<1>8. ASSUME NEW r \in Below(m - 1, rows)
      PROVE  f[r] = MakeUnique(Candidate(r, rows, map), Key(r)[1],
                               {f[q] : q \in Before(r, rows)})
  BY <1>5 DEF Naming
<1>9. ASSUME NEW r \in Below(m, rows)
      PROVE  g[r] = MakeUnique(Candidate(r, rows, map), Key(r)[1],
                               {g[q] : q \in Before(r, rows)})
  BY <1>6, <1>7, <1>8
<1>10. Naming(g, m, rows, map)
  BY <1>6, <1>9 DEF Naming
<1>11. QED
  BY <1>10

\* The names are what the recursion says.
LEMMA ExposedAs ==
  ASSUME NEW rows \in SUBSET Found, NEW map
  PROVE  \A r \in rows : Exposed(rows, map)[r] =
            MakeUnique(Candidate(r, rows, map), Key(r)[1],
                       {Exposed(rows, map)[q] : q \in Before(r, rows)})
<1> DEFINE All(f) == f = [r \in rows |-> MakeUnique(Candidate(r, rows, map), Key(r)[1],
                                                    {f[q] : q \in Before(r, rows)})]
<1>1. PICK n \in Nat : Below(n, rows) = rows
  <2>1. Len(Order) \in Nat /\ DOMAIN Order = 1 .. Len(Order)
    BY VserverAssumption DEF VserverAssumption
  <2>2. PICK n : n = 2 * Len(Order) + 3
    OBVIOUS
  <2>3. \A r \in Found : r[1] \in 1 .. Len(Order) /\ r[2] \in {1, 2}
    BY <2>1 DEF Found
  <2>4. \A r \in Found : Place(r) < n
    BY <2>1, <2>2, <2>3 DEF Place
  <2>5. n \in Nat /\ Below(n, rows) = rows
    BY <2>1, <2>2, <2>4 DEF Below
  <2>6. QED
    BY <2>5
<1>2. \E f : All(f)
  <2>1. PICK f : Naming(f, n, rows, map)
    BY NamingExists
  <2>2. All(f)
    BY <1>1, <2>1 DEF Naming
  <2>3. QED
    BY <2>2
<1>3. Exposed(rows, map) = CHOOSE f : All(f)
  BY DEF Exposed
<1>4. PICK e : e = Exposed(rows, map) /\ All(e)
  BY <1>2, <1>3
<1>5. \A r \in rows : e[r] = MakeUnique(Candidate(r, rows, map), Key(r)[1],
                                        {e[q] : q \in Before(r, rows)})
  BY <1>4
<1>6. QED
  BY <1>4, <1>5

\* The names that are taken when a row is named are finitely many.
LEMMA TakenFinite ==
  ASSUME NEW rows \in SUBSET Found, NEW names, NEW r
  PROVE  IsFiniteSet({names[q] : q \in Before(r, rows)})
<1>1. IsFiniteSet(Before(r, rows))
  <2>1. Before(r, rows) \in SUBSET rows
    BY DEF Before
  <2>2. QED
    BY <2>1, FiniteRows, FS_Subset
<1>2. PICK f : f = [q \in Before(r, rows) |-> names[q]]
  OBVIOUS
<1>3. f \in Surjection(Before(r, rows), {names[q] : q \in Before(r, rows)})
  BY <1>2 DEF Surjection
<1>4. QED
  BY <1>1, <1>3, FS_Surjection

\* What the tools want, and get for a prefix, are names.
LEMMA NamesTyped ==
  ASSUME NEW k \in Keys, NEW map \in RenameMaps
  PROVE  /\ k[1] \in Parts /\ k \in STRING \X STRING
         /\ Desired(k, map) \in Name
         /\ Prefixed(k, map) \in Name
<1> USE VserverAssumption DEF VserverAssumption
<1>1. k \in STRING \X STRING
  BY DEF Keys, ToSet
<1>2. Desired(k, map) \in Seq(STRING)
  <2>1. \A x \in DOMAIN map : map[x] \in Seq(STRING)
    OBVIOUS
  <2>2. <<k[2]>> \in Seq(STRING)
    BY <1>1
  <2>3. QED
    BY <2>1, <2>2 DEF Desired
<1>3. Prefix[k[1]] \in Seq(STRING)
  BY DEF Servers
<1>4. Prefixed(k, map) \in Seq(STRING)
  BY <1>2, <1>3, ConcatProperties DEF Prefixed
<1>5. Seq(STRING) \subseteq Name
  BY SeqMonotonic DEF Name, Parts
<1>6. QED
  BY <1>1, <1>2, <1>4, <1>5 DEF Parts

LEMMA CandidateTyped ==
  ASSUME NEW rows \in SUBSET Found, NEW map \in RenameMaps, NEW r \in rows
  PROVE  /\ Key(r) \in Keys /\ Key(r)[1] \in Parts
         /\ Candidate(r, rows, map) \in Name
<1>1. Key(r) \in Keys
  BY DEF Key, Keys, ToSet, Found
<1>2. QED
  BY <1>1, NamesTyped DEF Candidate

\* The name of a row is free, is the candidate when that is free, and else is the
\* candidate with a number.
LEMMA RowNamed ==
  ASSUME NEW rows \in SUBSET Found, NEW map \in RenameMaps, NEW r \in rows
  PROVE  LET name == Exposed(rows, map)[r]
             used == {Exposed(rows, map)[q] : q \in Before(r, rows)}
             candidate == Candidate(r, rows, map)
         IN  /\ name \notin used
             /\ candidate \notin used => name = candidate
             /\ \/ name = candidate
                \/ \E n \in Nat \ {0} : name = Numbered(candidate, Key(r)[1], n)
<1>1. PICK name, used, candidate, server :
           /\ name = Exposed(rows, map)[r]
           /\ used = {Exposed(rows, map)[q] : q \in Before(r, rows)}
           /\ candidate = Candidate(r, rows, map)
           /\ server = Key(r)[1]
  OBVIOUS
<1>2. name = MakeUnique(candidate, server, used)
  BY <1>1, ExposedAs
<1>3. IsFiniteSet(used)
  <2>1. PICK names : names = Exposed(rows, map)
    OBVIOUS
  <2>2. QED
    BY <1>1, <2>1, TakenFinite
<1>4. candidate \in Name /\ server \in Parts
  BY <1>1, CandidateTyped
<1>5. /\ MakeUnique(candidate, server, used) \notin used
      /\ candidate \notin used => MakeUnique(candidate, server, used) = candidate
      /\ \/ MakeUnique(candidate, server, used) = candidate
         \/ \E n \in Nat \ {0} :
               MakeUnique(candidate, server, used) = Numbered(candidate, server, n)
  BY <1>3, <1>4, MadeUnique
<1>6. /\ name \notin used
      /\ candidate \notin used => name = candidate
      /\ name = candidate \/ \E n \in Nat \ {0} : name = Numbered(candidate, server, n)
  BY <1>2, <1>5
<1>7. QED
  BY <1>1, <1>6

\* No name is given twice.
LEMMA ExposedApart ==
  ASSUME NEW rows \in SUBSET Found, NEW map \in RenameMaps, NEW q \in rows, NEW r \in rows,
         Exposed(rows, map)[q] = Exposed(rows, map)[r]
  PROVE  q = r
<1>1. ASSUME NEW s \in rows
      PROVE  Exposed(rows, map)[s] \notin {Exposed(rows, map)[p] : p \in Before(s, rows)}
  BY RowNamed
<1>2. ~ (Place(q) < Place(r))
  BY <1>1 DEF Before, Place
<1>3. ~ (Place(r) < Place(q))
  BY <1>1 DEF Before, Place
<1>4. QED
  BY <1>2, <1>3, PlacesApart

-----------------------------------------------------------------------------
(* Whose a name is *)

\* What counts of a prefix is its elements.
LEMMA Begins ==
  ASSUME NEW s \in Name, NEW t \in Name
  PROVE  IsPrefix(s, t) <=> Len(s) <= Len(t) /\ \A i \in 1 .. Len(s) : s[i] = t[i]
<1>1. Len(s) \in Nat /\ Len(t) \in Nat
  BY DEF Name
<1>2. SUFFICES ASSUME Len(s) <= Len(t)
               PROVE  SubSeq(s, 1, Len(s)) = SubSeq(t, 1, Len(s)) <=>
                        \A i \in 1 .. Len(s) : s[i] = t[i]
  BY DEF IsPrefix
<1>3. /\ SubSeq(s, 1, Len(s)) \in Seq(Parts) /\ Len(SubSeq(s, 1, Len(s))) = Len(s)
      /\ \A i \in 1 .. Len(s) : SubSeq(s, 1, Len(s))[i] = s[i]
  BY <1>1, <1>2 DEF Name
<1>4. /\ SubSeq(t, 1, Len(s)) \in Seq(Parts) /\ Len(SubSeq(t, 1, Len(s))) = Len(s)
      /\ \A i \in 1 .. Len(s) : SubSeq(t, 1, Len(s))[i] = t[i]
  BY <1>1, <1>2 DEF Name
<1>5. QED
  BY <1>3, <1>4, SeqEqual

\* A numbered name begins with the name and the server's id.
LEMMA NumberedBegins ==
  ASSUME NEW name \in Name, NEW server \in Parts, NEW n \in Nat \ {0}
  PROVE  /\ Numbered(name, server, n) \in Name
         /\ IsPrefix(Append(name, server), Numbered(name, server, n))
<1>1. PICK s : s = Append(name, server)
  OBVIOUS
<1>2. s \in Name /\ Len(s) \in Nat
  BY <1>1 DEF Name
<1>3. PICK t : t = Append(s, n)
  OBVIOUS
<1>4. /\ t \in Name /\ Len(t) = Len(s) + 1
      /\ \A i \in 1 .. Len(s) : t[i] = s[i]
  BY <1>2, <1>3, AppendProperties DEF Name, Parts
<1>5. IsPrefix(s, s) /\ IsPrefix(s, t)
  BY <1>2, <1>4, Begins
<1>6. Numbered(name, server, n) \in {s, t}
  BY <1>1, <1>3 DEF Numbered
<1>7. QED
  BY <1>1, <1>2, <1>4, <1>5, <1>6

\* Two tools that are kept apart have no claim to one name.
LEMMA ClaimsApart ==
  ASSUME NEW map \in RenameMaps, Apart(map), NEW k \in Keys, NEW l \in Keys, k # l,
         NEW name \in Name, Claims(k, name, map), Claims(l, name, map)
  PROVE  FALSE
<1> DEFINE a == Append(Prefixed(k, map), k[1])
           b == Append(Prefixed(l, map), l[1])
<1>1. a \in Name /\ b \in Name /\ Prefixed(k, map) \in Name /\ Prefixed(l, map) \in Name
  BY NamesTyped DEF Name
<1>2. /\ ~ Claims(k, Prefixed(l, map), map) /\ ~ Claims(k, b, map)
      /\ ~ Claims(l, Prefixed(k, map), map) /\ ~ Claims(l, a, map)
  BY DEF Apart
<1>3. name # Prefixed(l, map) /\ name # Prefixed(k, map)
  BY <1>2
<1>4. IsPrefix(a, name) /\ IsPrefix(b, name)
  BY <1>3 DEF Claims
<1>5. ~ IsPrefix(a, b) /\ ~ IsPrefix(b, a)
  BY <1>2 DEF Claims
<1> HIDE DEF a, b
<1>6. /\ Len(a) \in Nat /\ Len(b) \in Nat /\ Len(name) \in Nat
      /\ Len(a) <= Len(name) /\ \A i \in 1 .. Len(a) : a[i] = name[i]
      /\ Len(b) <= Len(name) /\ \A i \in 1 .. Len(b) : b[i] = name[i]
  BY <1>1, <1>4, Begins DEF Name
<1>7. CASE Len(a) <= Len(b)
  BY <1>1, <1>5, <1>6, <1>7, Begins
<1>8. CASE Len(b) <= Len(a)
  BY <1>1, <1>5, <1>6, <1>8, Begins
<1>9. QED
  BY <1>6, <1>7, <1>8

LEMMA ExposedTyped ==
  ASSUME NEW rows \in SUBSET Found, NEW map \in RenameMaps, NEW r \in rows
  PROVE  Exposed(rows, map)[r] \in Name
<1>1. PICK name, server, candidate :
           /\ name = Exposed(rows, map)[r]
           /\ server = Key(r)[1]
           /\ candidate = Candidate(r, rows, map)
  OBVIOUS
<1>2. candidate \in Name /\ server \in Parts
  BY <1>1, CandidateTyped
<1>3. name = candidate \/ \E n \in Nat \ {0} : name = Numbered(candidate, server, n)
  BY <1>1, RowNamed
<1>4. QED
  BY <1>1, <1>2, <1>3, NumberedBegins

\* A row whose name others want gets one that its tool has a claim to.
LEMMA SharedIsClaimed ==
  ASSUME NEW rows \in SUBSET Found, NEW map \in RenameMaps, NEW r \in rows,
         Shared(r, rows, map)
  PROVE  Claims(Key(r), Exposed(rows, map)[r], map)
<1>1. PICK name, server, prefixed :
           /\ name = Exposed(rows, map)[r]
           /\ server = Key(r)[1]
           /\ prefixed = Prefixed(Key(r), map)
  OBVIOUS
<1>2. prefixed \in Name /\ server \in Parts
  BY <1>1, CandidateTyped, NamesTyped
<1>3. name = prefixed \/ \E n \in Nat \ {0} : name = Numbered(prefixed, server, n)
  BY <1>1, RowNamed DEF Candidate
<1>4. name = prefixed \/ IsPrefix(Append(prefixed, server), name)
  BY <1>2, <1>3, NumberedBegins
<1>5. QED
  BY <1>1, <1>4 DEF Claims

\* Any other row gets the name that it wants: when the tools are kept apart, no
\* earlier row has it.
LEMMA UnsharedIsDesired ==
  ASSUME NEW rows \in SUBSET Found, NEW map \in RenameMaps, Apart(map), NEW r \in rows,
         ~ Shared(r, rows, map)
  PROVE  Exposed(rows, map)[r] = Desired(Key(r), map)
<1>1. PICK names : names = Exposed(rows, map)
  OBVIOUS
<1> DEFINE Wrong(s) == ~ Shared(s, rows, map) /\ names[s] # Desired(Key(s), map)
           S == {Place(s) : s \in {p \in rows : Wrong(p)}}
<1>2. SUFFICES ASSUME Wrong(r) PROVE FALSE
  BY <1>1
<1>3. \A s \in rows : Place(s) \in Nat
  BY PlacesApart
<1>4. PICK n \in S : \A m \in S : n <= m
  <2>1. S \in SUBSET Nat /\ S # {}
    BY <1>2, <1>3
  <2> HIDE DEF S
  <2> QED BY <2>1, Least
<1>5. PICK s \in rows : Wrong(s) /\ Place(s) = n
  BY <1>4
<1>6. ASSUME NEW q \in Before(s, rows)
      PROVE  names[q] # Desired(Key(s), map)
  <2>1. q \in rows /\ Place(q) < Place(s) /\ q # s
    <3>1. q \in rows /\ Place(q) < Place(s)
      BY DEF Before, Place
    <3>2. QED
      BY <1>3, <3>1
  <2>2. Desired(Key(q), map) # Desired(Key(s), map)
    BY <1>5, <2>1 DEF Shared
  <2>3. CASE ~ Shared(q, rows, map)
    <3>1. ~ (n <= Place(q))
      BY <1>3, <1>5, <2>1
    <3>2. ~ Wrong(q)
      BY <1>4, <2>1, <3>1
    <3>3. QED
      BY <2>2, <2>3, <3>2
  <2>4. CASE Shared(q, rows, map)
    <3>1. Claims(Key(q), names[q], map)
      BY <1>1, <2>1, <2>4, SharedIsClaimed
    <3>2. Key(q) \in Keys /\ Key(s) \in Keys /\ Key(q) # Key(s)
      BY <2>1, <2>2, CandidateTyped
    <3>3. QED
      BY <3>1, <3>2 DEF Apart
  <2>5. QED
    BY <2>3, <2>4
<1>7. Desired(Key(s), map) \notin {names[q] : q \in Before(s, rows)}
  BY <1>6
<1>8. names[s] = Desired(Key(s), map)
  BY <1>1, <1>5, <1>7, RowNamed DEF Candidate
<1>9. QED
  BY <1>5, <1>8

\* The names of an instance's rows are as many as the rows.
LEMMA AsManyNames ==
  ASSUME NEW rows \in SUBSET Found, NEW map \in RenameMaps
  PROVE  Cardinality({Exposed(rows, map)[r] : r \in rows}) = Cardinality(rows)
<1>1. PICK f : f = [r \in rows |-> Exposed(rows, map)[r]]
  OBVIOUS
<1>2. PICK names : names = {Exposed(rows, map)[r] : r \in rows}
  OBVIOUS
<1>3. \A q, r \in rows : f[q] = f[r] => q = r
  BY <1>1, ExposedApart
<1>4. ExistsBijection(rows, names)
  <2>1. f \in [rows -> names] /\ \A x \in names : \E r \in rows : f[r] = x
    BY <1>1, <1>2
  <2>2. f \in Bijection(rows, names)
    BY <1>3, <2>1 DEF Bijection, Injection, IsInjective, Surjection
  <2>3. QED
    BY <2>2 DEF ExistsBijection
<1>5. Cardinality(names) = Cardinality(rows)
  BY <1>4, FiniteRows, FS_Bijection
<1>6. QED
  BY <1>2, <1>5

-----------------------------------------------------------------------------
(* The virtual server *)

\* What makes AllowlistIsOneRequest inductive, as for the catalog: edits that are
\* under way together are marked, and one that is alone has deleted all the rows.
OpenMeet == \A e, f \in Open : e # f => e \in overlapped

LoneEditSawAll ==
    \A e \in Open \ overlapped : edit[e].tools # Absent => allow \subseteq edit[e].gone

\* What makes GateKeepsItsTool inductive: a gate is a name that was due to its tool.
Due(k, name, map) == name = Desired(k, map) \/ Claims(k, name, map)

GatesDue ==
    Apart(renames) /\ ~edited =>
        \A g \in gates : g.name \in Name /\ Due(g.key, g.name, renames)

VserverInv == VserverTypeOK /\ OpenMeet /\ LoneEditSawAll /\ AllowlistIsOneRequest /\ GatesDue

LEMMA RowsFound == Rows \in SUBSET Found
BY DEF Rows, Joined, Found

\* What is exposed is a row's name and its tool.
LEMMA ResolvedRow ==
  ASSUME NEW x \in Resolved
  PROVE  \E r \in Rows : x.name = Exposed(Rows, renames)[r] /\ x.key = Key(r)
BY DEF Resolved

LEMMA ResolvedDue ==
  ASSUME renames \in RenameMaps, Apart(renames), NEW x \in Resolved
  PROVE  x.key \in Keys /\ x.name \in Name /\ Due(x.key, x.name, renames)
<1>1. PICK r \in Rows : x.name = Exposed(Rows, renames)[r] /\ x.key = Key(r)
  BY ResolvedRow
<1>2. x.key \in Keys
  BY <1>1, RowsFound, CandidateTyped
<1>3. x.name \in Name
  BY <1>1, RowsFound, ExposedTyped
<1>4. Due(x.key, x.name, renames)
  <2>1. CASE Shared(r, Rows, renames)
    BY <1>1, <2>1, RowsFound, SharedIsClaimed DEF Due
  <2>2. CASE ~ Shared(r, Rows, renames)
    BY <1>1, <2>2, RowsFound, UnsharedIsDesired DEF Due
  <2>3. QED
    BY <2>1, <2>2
<1>5. QED
  BY <1>2, <1>3, <1>4

LEMMA InitVserverInv == VserverInit => VserverInv
<1> SUFFICES ASSUME VserverInit PROVE VserverInv
  OBVIOUS
<1> USE VserverAssumption DEF VserverAssumption, VserverInit
<1>1. VserverTypeOK
  <2>1. NewEdit \in Edit
    BY DEF NewEdit, Edit
  <2>2. edit \in [Edits -> Edit] /\ offered \in [Keys -> 0 .. 2]
    BY <2>1
  <2>3. /\ exists \in BOOLEAN /\ allow \subseteq Row /\ renames \in RenameMaps
        /\ lastEdit \in Edits \cup {Absent} /\ overlapped \subseteq Edits /\ edited \in BOOLEAN
    OBVIOUS
  <2>4. \A g \in gates : g.key \in Keys
    OBVIOUS
  <2> HIDE DEF VserverInit
  <2>5. QED
    BY <2>2, <2>3, <2>4 DEF VserverTypeOK
<1>2. Open = {}
  BY DEF Open, NewEdit
<1>3. OpenMeet /\ LoneEditSawAll
  BY <1>2 DEF OpenMeet, LoneEditSawAll
<1>4. AllowlistIsOneRequest /\ GatesDue
  BY <1>1 DEF AllowlistIsOneRequest, GatesDue
<1>5. QED
  BY <1>1, <1>3, <1>4 DEF VserverInv

LEMMA StartEditInv ==
  ASSUME VserverInv, NEW e \in Edits, NEW tools \in Allowlists \cup {Absent},
         NEW map \in RenameMaps \cup {Absent}, StartEdit(e, tools, map)
  PROVE  VserverInv'
<1> USE DEF StartEdit, config
<1>1. PICK new : new = [at |-> "open", gone |-> IF tools = Absent THEN {} ELSE allow,
                        tools |-> tools, loaded |-> renames, renames |-> map]
  OBVIOUS
<1>2. edit \in [Edits -> Edit] /\ edit' = [edit EXCEPT ![e] = new]
  BY <1>1 DEF VserverInv, VserverTypeOK
<1>3. /\ edit'[e].at = "open" /\ edit'[e].tools = tools
      /\ tools # Absent => edit'[e].gone = allow
      /\ \A f \in Edits : f # e => edit'[f] = edit[f]
  BY <1>1, <1>2
<1>4. VserverTypeOK'
  <2>1. new \in Edit
    BY <1>1 DEF VserverInv, VserverTypeOK, Edit
  <2>2. edit' \in [Edits -> Edit]
    BY <1>2, <2>1
  <2>3. overlapped' \subseteq Edits
    BY DEF VserverInv, VserverTypeOK, Open
  <2>4. QED
    BY <2>2, <2>3 DEF VserverInv, VserverTypeOK
<1>5. Open' = Open \cup {e}
  BY <1>3 DEF Open
<1>6. Open = {} => Open' = {e}
  BY <1>5
<1>7. Open # {} => Open' \subseteq overlapped'
  BY <1>5
<1>8. OpenMeet' /\ LoneEditSawAll'
  <2>1. OpenMeet'
    BY <1>6, <1>7 DEF OpenMeet
  <2>2. \A f \in Open' \ overlapped' : f = e /\ allow' = allow
    BY <1>6, <1>7
  <2>3. LoneEditSawAll'
    BY <1>3, <2>2 DEF LoneEditSawAll
  <2>4. QED
    BY <2>1, <2>3
<1>9. AllowlistIsOneRequest' /\ GatesDue'
  BY <1>4 DEF VserverInv, AllowlistIsOneRequest, GatesDue, Open
<1>10. QED
  BY <1>4, <1>8, <1>9 DEF VserverInv

LEMMA CommitEditInv ==
  ASSUME VserverInv, NEW e \in Edits, CommitEdit(e)
  PROVE  VserverInv'
<1> USE DEF CommitEdit, config
<1>1. PICK done : done = [NewEdit EXCEPT !.at = "done"]
  OBVIOUS
<1>2. edit \in [Edits -> Edit] /\ edit' = [edit EXCEPT ![e] = done]
  BY <1>1 DEF VserverInv, VserverTypeOK, EditEnds
<1>3. edit'[e].at = "done" /\ \A f \in Edits : f # e => edit'[f] = edit[f]
  BY <1>1, <1>2 DEF NewEdit
<1>4. Inserted(e) \subseteq Keys /\ [key : Inserted(e), by : {e}] \subseteq Row
  BY <1>2, VserverAssumption DEF VserverAssumption, Inserted, Edit, Row
<1>5. VserverTypeOK'
  <2>1. done \in Edit
    BY <1>1, VserverAssumption DEF VserverAssumption, NewEdit, Edit
  <2>2. edit' \in [Edits -> Edit]
    BY <1>2, <2>1
  <2>3. NewRenames(e) \in RenameMaps
    BY <1>2 DEF VserverInv, VserverTypeOK, NewRenames, Edit
  <2>4. /\ allow' \subseteq Row /\ renames' \in RenameMaps /\ lastEdit' \in Edits \cup {Absent}
        /\ edited' \in BOOLEAN /\ exists' = exists /\ gates' = gates
    BY <1>4, <2>3 DEF VserverInv, VserverTypeOK
  <2>5. QED
    BY <2>2, <2>4 DEF VserverInv, VserverTypeOK
<1>6. Open' = Open \ {e} /\ e \in Open
  BY <1>3 DEF Open
<1>7. OpenMeet'
  BY <1>6 DEF VserverInv, OpenMeet
<1>8. \A f \in Open' : f \in overlapped'
  BY <1>6 DEF VserverInv, OpenMeet
<1>9. LoneEditSawAll'
  BY <1>8 DEF LoneEditSawAll
<1>10. AllowlistIsOneRequest'
  <2>1. CASE Conflicts(e)
    BY <1>5, <2>1 DEF VserverInv, AllowlistIsOneRequest
  <2>2. CASE ~ Conflicts(e) /\ edit[e].tools = Absent
    <3>1. allow' \subseteq allow
      BY <2>2 DEF Inserted
    <3>2. QED
      BY <1>5, <2>2, <3>1 DEF VserverInv, AllowlistIsOneRequest
  <2>3. CASE ~ Conflicts(e) /\ edit[e].tools # Absent
    <3>1. lastEdit' = e /\ overlapped' = overlapped
      BY <2>3
    <3>2. e \notin overlapped => allow \subseteq edit[e].gone
      BY <1>6, <2>3 DEF VserverInv, LoneEditSawAll
    <3>3. e \notin overlapped => \A r \in allow' : r.by = e
      BY <2>3, <3>2
    <3>4. QED
      BY <1>5, <3>1, <3>3 DEF AllowlistIsOneRequest
  <2>4. QED
    BY <2>1, <2>2, <2>3
<1>11. GatesDue'
  BY DEF VserverInv, GatesDue
<1>12. QED
  BY <1>5, <1>7, <1>9, <1>10, <1>11 DEF VserverInv

LEMMA ConfigureGatesInv ==
  ASSUME VserverInv, NEW T \in SUBSET Keys, ConfigureGates(T)
  PROVE  VserverInv'
<1> USE DEF ConfigureGates
<1>1. VserverTypeOK'
  <2>1. \A g \in gates' : g.key \in Keys
    OBVIOUS
  <2>2. QED
    BY <2>1 DEF VserverInv, VserverTypeOK
<1>2. OpenMeet' /\ LoneEditSawAll' /\ AllowlistIsOneRequest'
  BY <1>1 DEF VserverInv, OpenMeet, LoneEditSawAll, AllowlistIsOneRequest, Open
<1>3. GatesDue'
  <2>1. SUFFICES ASSUME Apart(renames), NEW g \in gates'
                 PROVE  g.name \in Name /\ Due(g.key, g.name, renames)
    BY DEF GatesDue
  <2>2. g \in Resolved /\ renames \in RenameMaps
    BY DEF VserverInv, VserverTypeOK
  <2>3. QED
    BY <2>1, <2>2, ResolvedDue
<1>4. QED
  BY <1>1, <1>2, <1>3 DEF VserverInv

LEMMA SyncInv ==
  ASSUME VserverInv, NEW s \in Servers, NEW tools \in SUBSET Keys, NEW n \in 1 .. 2,
         Sync(s, tools, n)
  PROVE  VserverInv'
<1> USE DEF Sync, config
<1>1. VserverTypeOK'
  <2>1. offered' \in [Keys -> 0 .. 2]
    BY DEF VserverInv, VserverTypeOK
  <2>2. QED
    BY <2>1 DEF VserverInv, VserverTypeOK
<1>2. QED
  BY <1>1 DEF VserverInv, OpenMeet, LoneEditSawAll, AllowlistIsOneRequest, GatesDue, Open

LEMMA StepVserverInv == VserverInv /\ [VserverNext]_vserverVars => VserverInv'
<1> SUFFICES ASSUME VserverInv, [VserverNext]_vserverVars PROVE VserverInv'
  OBVIOUS
<1>1. ASSUME NEW e \in Edits, NEW tools \in Allowlists \cup {Absent},
             NEW map \in RenameMaps \cup {Absent}, StartEdit(e, tools, map)
      PROVE  VserverInv'
  BY <1>1, StartEditInv
<1>2. ASSUME NEW e \in Edits, CommitEdit(e) PROVE VserverInv'
  BY <1>2, CommitEditInv
<1>3. ASSUME NEW T \in SUBSET Keys, ConfigureGates(T) PROVE VserverInv'
  BY <1>3, ConfigureGatesInv
<1>4. CASE DeleteVserver
  BY <1>4 DEF VserverInv, VserverTypeOK, OpenMeet, LoneEditSawAll, AllowlistIsOneRequest,
              GatesDue, DeleteVserver, Open
<1>5. ASSUME NEW s \in Servers, NEW tools \in SUBSET Keys, NEW n \in 1 .. 2, Sync(s, tools, n)
      PROVE  VserverInv'
  BY <1>5, SyncInv
<1>6. CASE UNCHANGED vserverVars
  BY <1>6 DEF VserverInv, VserverTypeOK, OpenMeet, LoneEditSawAll, AllowlistIsOneRequest,
              GatesDue, Open, vserverVars, config
<1>7. QED
  BY <1>1, <1>2, <1>3, <1>4, <1>5, <1>6 DEF VserverNext

LEMMA VserverInvariantHolds == VserverSpec => []VserverInv
<1>1. QED
  BY InitVserverInv, StepVserverInv, PTL DEF VserverSpec

\* AllowlistIsOneRequest: however many edits of update_virtual_server overlap and
\* whatever they ask for, the allowlist is what the last one to set it asked for,
\* unless that one was under way with another.
THEOREM AllowlistsAreOneRequest == VserverSpec => []AllowlistIsOneRequest
<1>1. VserverInv => AllowlistIsOneRequest
  BY DEF VserverInv
<1>2. QED
  BY <1>1, VserverInvariantHolds, PTL

\* NamesUnique: synthesize_tools exposes no two rows under one name, for any number of
\* servers, tools and copies and any rename maps, prefixes that collide included.
THEOREM NamesAreUnique == VserverSpec => []NamesUnique
<1>1. VserverInv => NamesUnique
  <2> SUFFICES ASSUME VserverInv PROVE NamesUnique
    OBVIOUS
  <2>1. {x.name : x \in Resolved} = {Exposed(Rows, renames)[r] : r \in Rows}
    <3>1. \A x \in Resolved : \E r \in Rows : x.name = Exposed(Rows, renames)[r]
      BY ResolvedRow
    <3>2. ASSUME NEW r \in Rows PROVE \E x \in Resolved : x.name = Exposed(Rows, renames)[r]
      <4>1. PICK x : x = [name |-> Exposed(Rows, renames)[r], key |-> Key(r)]
        OBVIOUS
      <4>2. x \in Resolved /\ x.name = Exposed(Rows, renames)[r]
        BY <4>1 DEF Resolved
      <4>3. QED
        BY <4>2
    <3>3. QED
      BY <3>1, <3>2
  <2>2. renames \in RenameMaps
    BY DEF VserverInv, VserverTypeOK
  <2>3. QED
    BY <2>1, <2>2, RowsFound, AsManyNames DEF NamesUnique
<1>2. QED
  BY <1>1, VserverInvariantHolds, PTL

\* GateKeepsItsTool: a gated name becomes another tool's, through whatever syncs, only
\* when the gated tool is not exposed.
THEOREM GatesKeepTheirTools == VserverSpec => []GateKeepsItsTool
<1>1. VserverInv => GateKeepsItsTool
  <2> SUFFICES ASSUME VserverInv, Apart(renames), ~edited, NEW g \in gates, NEW x \in Resolved,
                      x.name = g.name, x.key # g.key, NEW q \in Rows, Key(q) = g.key
               PROVE  FALSE
    BY DEF GateKeepsItsTool
  <2>1. renames \in RenameMaps /\ g.key \in Keys
    BY DEF VserverInv, VserverTypeOK
  <2>2. x.key \in Keys /\ x.name \in Name
    BY <2>1, ResolvedDue
  <2>3. Due(g.key, g.name, renames)
    BY DEF VserverInv, GatesDue
  <2>4. PICK r \in Rows : x.name = Exposed(Rows, renames)[r] /\ x.key = Key(r)
    BY ResolvedRow
  <2>5. CASE Shared(r, Rows, renames)
    <3>1. Claims(x.key, x.name, renames)
      BY <2>1, <2>4, <2>5, RowsFound, SharedIsClaimed
    <3>2. x.name # Desired(g.key, renames)
      BY <2>1, <2>2, <3>1 DEF Apart
    <3>3. QED
      BY <2>1, <2>2, <2>3, <3>1, <3>2, ClaimsApart DEF Due
  <2>6. CASE ~ Shared(r, Rows, renames)
    <3>1. x.name = Desired(x.key, renames)
      BY <2>1, <2>4, <2>6, RowsFound, UnsharedIsDesired
    <3>2. x.name = Desired(g.key, renames)
      BY <2>1, <2>2, <2>3, <3>1 DEF Apart, Due
    <3>3. Desired(Key(q), renames) = Desired(Key(r), renames) /\ q # r
      BY <2>4, <3>1, <3>2
    <3>4. QED
      BY <2>6, <3>3 DEF Shared
  <2>7. QED
    BY <2>5, <2>6
<1>2. QED
  BY <1>1, VserverInvariantHolds, PTL

=============================================================================
