--------------------------- MODULE VirtualServer ---------------------------
(***************************************************************************)
(* One virtual server: its tool allowlist, which operators replace         *)
(* (src/vyuu_gateway/virtual_servers/service.py), and the names under      *)
(* which it exposes the allowed tools that its upstream servers offer      *)
(* (virtual_servers/resolver.py).  What is elevation-gated is configured   *)
(* by exposed name (registry/jit_service.py).                              *)
(*                                                                         *)
(* A name is the sequence of its parts: the prefix of <<"search">> is put  *)
(* before it, as in <<"jira", "search">>, a suffix after it, and a number  *)
(* stands for its numeral.                                                 *)
(***************************************************************************)
EXTENDS Naturals, Sequences, SequencesExt

CONSTANTS
    Order,          \* <<server, tool>> pairs, in the order of the resolver's query
    Prefix,         \* the prefix made of each server's display name
    RenameMaps,     \* the rename maps that operators use, without the empty names
    Allowlists,     \* the allowlists that operators ask for: sets of those pairs
    Edits,          \* runs of update_virtual_server, each made once
    Absent          \* what a request leaves out

Keys == ToSet(Order)
Servers == {k[1] : k \in Keys}

ASSUME VserverAssumption ==
    /\ Order \in Seq(STRING \X STRING)
    /\ Prefix \in [Servers -> Seq(STRING)]
    /\ <<>> \in RenameMaps
    /\ \A map \in RenameMaps : \A k \in DOMAIN map : map[k] \in Seq(STRING) \ {<<>>}
    /\ Allowlists \subseteq SUBSET Keys
    /\ Absent \notin Edits /\ Absent \notin Allowlists /\ Absent \notin RenameMaps

VARIABLES
    exists,         \* is the row of virtual_servers there?
    allow,          \* the rows of virtual_server_tools
    renames,        \* its rename_map
    gates,          \* the names in its jit_tools, each with the tool it was then
    offered,        \* how many active capability rows each tool has
    edit,           \* where each edit is
    lastEdit,       \* history: the edit that was the last to set the allowlist
    overlapped,     \* history: edits that were under way together
    edited          \* history: an edit was committed since the gates were configured

config == <<exists, allow, renames, gates>>
vserverVars == <<config, offered, edit, lastEdit, overlapped, edited>>

Row == [key : Keys, by : Edits]
Edit == [at : {"new", "open", "done"}, gone : SUBSET Row, tools : Allowlists \cup {Absent},
         loaded : RenameMaps, renames : RenameMaps \cup {Absent}]
NewEdit == [at |-> "new", gone |-> {}, tools |-> Absent, loaded |-> <<>>, renames |-> Absent]

-----------------------------------------------------------------------------
(* The resolver *)

\* The rows that a query over the tools A finds when n[k] capabilities of a tool k
\* are active: a tool comes once for each, and its copies are next to each other.
Joined(A, n) == {r \in (DOMAIN Order) \X (1 .. 2) : Order[r[1]] \in A /\ r[2] <= n[Order[r[1]]]}

Key(r) == Order[r[1]]
Before(r, rows) == {q \in rows : 2 * q[1] + q[2] < 2 * r[1] + r[2]}

Desired(k, map) == IF k \in DOMAIN map THEN map[k]
                   ELSE IF <<k[2]>> \in DOMAIN map THEN map[<<k[2]>>]
                   ELSE <<k[2]>>
Prefixed(k, map) == Prefix[k[1]] \o Desired(k, map)

\* The server's id is put after a name that is taken, then a counter as well.
Numbered(name, server, n) == IF n = 1 THEN Append(name, server)
                             ELSE Append(Append(name, server), n)

BugMakeUnique(name, server, used) == name

\* The first that is free.  One of as many as are taken and one more is.
MakeUnique(name, server, used) ==
    IF name \notin used THEN name
    ELSE Numbered(name, server, CHOOSE n \in 1 .. Cardinality(used) + 1 :
             /\ Numbered(name, server, n) \notin used
             /\ \A m \in 1 .. n - 1 : Numbered(name, server, m) \in used)

\* A name that several rows want is prefixed for all of them.
Shared(r, rows, map) == \E q \in rows : q # r /\ Desired(Key(q), map) = Desired(Key(r), map)
Candidate(r, rows, map) == IF Shared(r, rows, map) THEN Prefixed(Key(r), map)
                           ELSE Desired(Key(r), map)

BugExposed(rows, map) ==
    LET names[r \in rows] == MakeUnique(Desired(Key(r), map), Key(r)[1],
                                        {names[q] : q \in Before(r, rows)})
    IN  names

\* synthesize_tools: the name of each row, made unique among those before it.
Exposed(rows, map) ==
    LET names[r \in rows] == MakeUnique(Candidate(r, rows, map), Key(r)[1],
                                        {names[q] : q \in Before(r, rows)})
    IN  names

\* resolve_tools: pairs of an exposed name and the tool it stands for.
Rows == Joined({a.key : a \in allow}, offered)
Resolved == LET names == Exposed(Rows, renames)
            IN  {[name |-> names[r], key |-> Key(r)] : r \in Rows}

-----------------------------------------------------------------------------
VserverTypeOK ==
    /\ exists \in BOOLEAN
    /\ allow \subseteq Row
    /\ renames \in RenameMaps
    /\ offered \in [Keys -> 0 .. 2]
    /\ edit \in [Edits -> Edit]
    /\ lastEdit \in Edits \cup {Absent}
    /\ overlapped \subseteq Edits
    /\ edited \in BOOLEAN
    /\ \A g \in gates : g.key \in Keys

VserverInit ==
    /\ exists = TRUE
    /\ allow = {}
    /\ renames = <<>>
    /\ gates = {}
    /\ offered = [k \in Keys |-> 0]
    /\ edit = [e \in Edits |-> NewEdit]
    /\ lastEdit = Absent
    /\ overlapped = {}
    /\ edited = FALSE

Open == {e \in Edits : edit[e].at = "open"}
EditEnds(e) == edit' = [edit EXCEPT ![e] = [NewEdit EXCEPT !.at = "done"]]

-----------------------------------------------------------------------------
(* update_virtual_server *)

\* A request leaves out what it does not change.  The row is loaded and, for a new
\* allowlist, the old one deleted, in one transaction.  A second DELETE
\* of the same rows waits for the first transaction and then finds them gone; the
\* rows that the first one inserts are not in its snapshot.
StartEdit(e, tools, map) ==
    /\ exists
    /\ edit[e].at = "new"
    /\ edit' = [edit EXCEPT ![e] =
           [at |-> "open", gone |-> IF tools = Absent THEN {} ELSE allow, tools |-> tools,
            loaded |-> renames, renames |-> map]]
    /\ overlapped' = IF Open = {} THEN overlapped ELSE overlapped \cup Open \cup {e}
    /\ UNCHANGED <<config, offered, lastEdit, edited>>

\* The column differs from what was loaded, or keeps what others wrote.
NewRenames(e) == IF edit[e].renames \in {Absent, edit[e].loaded} THEN renames ELSE edit[e].renames

Inserted(e) == IF edit[e].tools = Absent THEN {} ELSE edit[e].tools

\* A row that another edit has inserted meanwhile, or a parent row that is gone.
Conflicts(e) ==
    \/ ~exists
    \/ \E r \in allow \ edit[e].gone : r.key \in Inserted(e)

BugCommitEdit(e) ==
    /\ edit[e].at = "open"
    /\ IF Conflicts(e)
         THEN UNCHANGED <<config, lastEdit, edited>>
         ELSE /\ allow' = allow \cup [key : Inserted(e), by : {e}]
              /\ renames' = NewRenames(e)
              /\ lastEdit' = IF edit[e].tools = Absent THEN lastEdit ELSE e
              /\ edited' = TRUE
              /\ UNCHANGED <<exists, gates>>
    /\ EditEnds(e)
    /\ UNCHANGED <<offered, overlapped>>

CommitEdit(e) ==
    /\ edit[e].at = "open"
    /\ IF Conflicts(e)
         THEN UNCHANGED <<config, lastEdit, edited>>     \* rolled back
         ELSE /\ allow' = (allow \ edit[e].gone) \cup [key : Inserted(e), by : {e}]
              /\ renames' = NewRenames(e)
              /\ lastEdit' = IF edit[e].tools = Absent THEN lastEdit ELSE e
              /\ edited' = TRUE
              /\ UNCHANGED <<exists, gates>>
    /\ EditEnds(e)
    /\ UNCHANGED <<offered, overlapped>>

\* configure_vserver_jit_tools replaces the map: the operator gates the tools T
\* by the names under which they are exposed.
ConfigureGates(T) ==
    /\ exists
    /\ T \subseteq {Key(r) : r \in Rows}
    /\ gates' = {x \in Resolved : x.key \in T}
    /\ edited' = FALSE
    /\ UNCHANGED <<exists, allow, renames, offered, edit, lastEdit, overlapped>>

\* delete_virtual_server
DeleteVserver ==
    /\ exists
    /\ exists' = FALSE
    /\ allow' = {}
    /\ UNCHANGED <<renames, gates, offered, edit, lastEdit, overlapped, edited>>

-----------------------------------------------------------------------------
(* Around it *)

\* A sync or seed of the server s replaces its active rows; overlapping ones leave
\* each of them twice (ServerCatalog).
Sync(s, tools, n) ==
    /\ offered' = [k \in Keys |-> IF k[1] # s THEN offered[k]
                                  ELSE IF k \in tools THEN n ELSE 0]
    /\ UNCHANGED <<config, edit, lastEdit, overlapped, edited>>

VserverNext ==
    \/ \E e \in Edits : \/ \E tools \in Allowlists \cup {Absent}, map \in RenameMaps \cup {Absent} :
                              StartEdit(e, tools, map)
                        \/ CommitEdit(e)
    \/ \E T \in SUBSET Keys : ConfigureGates(T)
    \/ DeleteVserver
    \/ \E s \in Servers, tools \in SUBSET Keys, n \in 1 .. 2 : Sync(s, tools, n)

VserverSpec == VserverInit /\ [][VserverNext]_vserverVars

-----------------------------------------------------------------------------
(* Properties *)

\* A tool is called by its exposed name, and the first of that name is taken: no
\* two rows, of whatever servers, copies and renames, are exposed under one name, so
\* there are as many names as rows.
NamesUnique == Cardinality({x.name : x \in Resolved}) = Cardinality(Rows)

\* "The allowlist replace is all-or-nothing": the allowlist is what one edit asked
\* for, the last one to set it, unless that edit was under way with another one.
AllowlistIsOneRequest ==
    /\ VserverTypeOK
    /\ lastEdit # Absent /\ lastEdit \notin overlapped => \A r \in allow : r.by = lastEdit

\* A name that only a copy of the tool k should get: the prefixed name, and what
\* begins with it and the server's id.
Claims(k, name, map) ==
    name = Prefixed(k, map) \/ IsPrefix(Append(Prefixed(k, map), k[1]), name)

\* The operators' renames keep apart what the resolver cannot: no tool wants, or gets
\* when it is prefixed, a name that another has a claim to.
Apart(map) ==
    \A k, l \in Keys : k # l =>
        \A name \in {Desired(l, map), Prefixed(l, map), Append(Prefixed(l, map), l[1])} :
            ~Claims(k, name, map)

\* A gate, which is a name, holds for the tool that had the name when the gate was
\* set, whatever is synced since: the name becomes another tool's only when the
\* gated one is not exposed at all.
GateKeepsItsTool ==
    Apart(renames) /\ ~edited => \A g \in gates, x \in Resolved :
        x.name = g.name /\ x.key # g.key => \A r \in Rows : Key(r) # g.key
=============================================================================
