-------------------------------- MODULE Market --------------------------------
(***************************************************************************)
(* The MCP market: one registry per server process, which lists the tools  *)
(* of the configured MCP servers, routes calls to them, and keeps a copy   *)
(* of its snapshot in a file (tools/aggre_mcp_market/service/registry.py,  *)
(* service/runtime.py, brain/core/tools/mcp_tool.py).                      *)
(*                                                                         *)
(* Refreshes run in threads: the background loop, the refresh at boot, and *)
(* the refreshes that requests ask for.  A thread asks one server after    *)
(* the other without the lock, publishes a snapshot under the lock, and    *)
(* writes the file without it: it opens the temporary file (which empties  *)
(* it), writes, and renames it.  Two threads use the same temporary file,  *)
(* and a rename carries an open file along.                                *)
(*                                                                         *)
(* A snapshot is a sequence of blocks, the tools of one server; where two  *)
(* blocks name a tool the later one gets its calls.  Descriptions, schemas *)
(* and risk levels of tools are left out, and so are the statuses the      *)
(* registry shows; a prefix keeps the tools of two servers apart only      *)
(* where one is configured, so both may list a tool.                       *)
(***************************************************************************)
EXTENDS Naturals, Sequences, FiniteSets, SequencesExt

CONSTANTS
    Servers,     \* sequence of the servers, in the order of the configuration
    Tools,       \* full names of tools
    Requests,    \* threads of requests that refresh
    MaxChanges,  \* bound: how often a server changes or fails
    MaxCrashes   \* bound: how often the process dies

Loop == "loop"  \* the thread _run_loop
Boot == "boot"  \* the thread of blocking_refresh
Threads == {Loop, Boot} \cup Requests

ServerSet == {Servers[i] : i \in DOMAIN Servers}

ASSUME MarketAssumption ==
    /\ IsInjective(Servers) /\ ServerSet # {} /\ IsFiniteSet(Requests)
    /\ {Loop, Boot} \cap Requests = {}
    /\ MaxChanges \in Nat /\ MaxCrashes \in Nat

VARIABLES
    overlap,     \* whether refreshes overlap; never changes
    listing,     \* server -> the tools it lists, or Down (environment)
    configured,  \* the servers of the configuration this process has read
    booted,      \* init_registry has returned
    snap,        \* MCPRegistry._snapshot.tools
    job,         \* thread -> the refresh it is in the middle of
    tmp,         \* the temporary file
    file,        \* the snapshot file
    changes,     \* changes of servers so far
    crashes      \* crashes so far

process == <<configured, booted>>
disk == <<tmp, file>>
env == <<overlap, listing, changes, crashes>>
vars == <<env, process, snap, job, disk>>

Down == {"down"}
Block == [srv : ServerSet, tools : (SUBSET Tools) \ {{}}]
Blocks == Seq(Block)

\* A file is absent, just opened, mixed up by two writers, or a whole payload.
Absent == [kind |-> "absent", blocks |-> <<>>]
Empty == [kind |-> "empty", blocks |-> <<>>]
Mixed == [kind |-> "mixed", blocks |-> <<>>]
Whole(b) == [kind |-> "whole", blocks |-> b]
File == [kind : {"absent", "empty", "mixed", "whole"}, blocks : Blocks]

\* A refresh: one server or all of them; keep_last_on_failure; the servers
\* still to ask; what the others answered, and whether the one did; what is
\* being saved, and the name its open file has by now.
Job == [pc : {"idle", "fetch", "publish", "save", "write", "replace"},
        one : BOOLEAN, keep : BOOLEAN, todo : SUBSET ServerSet,
        got : Blocks, ok : SUBSET ServerSet, payload : Blocks,
        fd : {"none", "tmp", "file", "unnamed"}]

NoJob == [pc |-> "idle", one |-> FALSE, keep |-> TRUE, todo |-> {}, got |-> <<>>,
          ok |-> {}, payload |-> <<>>, fd |-> "none"]

\* mutant: the refresh at boot keeps what there is, too
BootJobKeeping(c) == [NoJob EXCEPT !.pc = "fetch", !.todo = c]

\* blocking_refresh replaces the snapshot at every attempt, even by nothing.
BootJob(c) == [NoJob EXCEPT !.pc = "fetch", !.keep = FALSE, !.todo = c]

Init ==
    /\ overlap \in BOOLEAN
    /\ listing \in [ServerSet -> {Down, {}, Tools}]
    /\ configured = ServerSet
    /\ booted = FALSE
    /\ snap = <<>>
    /\ job = [t \in Threads |-> IF t = Boot THEN BootJob(configured) ELSE NoJob]
    /\ tmp = Absent /\ file = Absent
    /\ changes = 0 /\ crashes = 0

-----------------------------------------------------------------------------
(***************************************************************************)
(* Refreshing.                                                             *)
(***************************************************************************)
\* Bound: two refreshes at a time.
Begins(t) ==
    /\ job[t].pc = "idle"
    /\ Cardinality({u \in Threads : job[u].pc # "idle"}) < IF overlap THEN 2 ELSE 1

\* _run_loop, and the endpoints that refresh every server.
Refresh(t) ==
    /\ t # Boot
    /\ Begins(t)
    /\ job' = [job EXCEPT ![t] = [NoJob EXCEPT !.pc = "fetch", !.todo = configured]]
    /\ UNCHANGED <<env, process, snap, disk>>

\* refresh_server
RefreshServer(t, s) ==
    /\ t \in Requests /\ s \in configured
    /\ Begins(t)
    /\ job' = [job EXCEPT
          ![t] = [NoJob EXCEPT !.pc = "fetch", !.one = TRUE, !.todo = {s}]]
    /\ UNCHANGED <<env, process, snap, disk>>

\* Servers are asked in the order of the configuration.
Foremost(s, todo) ==
    /\ s \in todo
    /\ \A i, j \in DOMAIN Servers : Servers[i] = s /\ Servers[j] \in todo => i <= j

\* mutant: the failure of a server ends the refresh
FetchUncaught(t) ==
    /\ job[t].pc = "fetch"
    /\ \E s \in job[t].todo :
          /\ Foremost(s, job[t].todo)
          /\ job' = [job EXCEPT ![t] =
                IF listing[s] = Down THEN NoJob
                ELSE [@ EXCEPT !.todo = @ \ {s}, !.ok = IF job[t].one THEN {s} ELSE @,
                               !.got = IF listing[s] = {} THEN @
                                       ELSE Append(@, [srv |-> s, tools |-> listing[s]])]]
    /\ UNCHANGED <<env, process, snap, disk>>

\* One server answers or fails.
Fetch(t) ==
    /\ job[t].pc = "fetch"
    /\ \E s \in job[t].todo :
          LET up == listing[s] # Down IN
          /\ Foremost(s, job[t].todo)
          /\ job' = [job EXCEPT
                ![t].todo = @ \ {s},
                ![t].got = IF up /\ listing[s] # {}
                           THEN Append(@, [srv |-> s, tools |-> listing[s]]) ELSE @,
                ![t].ok = IF up /\ job[t].one THEN {s} ELSE @]
    /\ UNCHANGED <<env, process, snap, disk>>

\* The snapshot is kept if no tool was fetched, whether the servers failed or
\* list none.
KeepLast(t) == ~ job[t].one /\ job[t].keep /\ job[t].got = <<>> /\ snap # <<>>

\* The look at the previous snapshot, without the lock.
Decide(t) ==
    /\ job[t].pc = "fetch" /\ job[t].todo = {}
    /\ job' = [job EXCEPT ![t] = IF KeepLast(t) THEN NoJob ELSE [@ EXCEPT !.pc = "publish"]]
    /\ booted' = (booted \/ (t = Boot /\ KeepLast(t)))
    /\ UNCHANGED <<env, configured, snap, disk>>

\* What is left of a snapshot without the tools of some servers, of which it
\* has one block at most.
Without(blocks, servers) ==
    LET of == {i \in DOMAIN blocks : blocks[i].srv \in servers} IN
    IF of = {} THEN blocks ELSE RemoveAt(blocks, CHOOSE i \in of : TRUE)

\* Everything that was fetched; or the tools of the servers that were not
\* asked, or failed, and then the new ones.
NewSnapshot(t) ==
    IF job[t].one THEN Without(snap, job[t].ok) \o job[t].got ELSE job[t].got

Publish(t) ==
    /\ job[t].pc = "publish"
    /\ snap' = NewSnapshot(t)
    /\ job' = [job EXCEPT ![t].pc = "save"]
    /\ UNCHANGED <<env, process, disk>>

-----------------------------------------------------------------------------
(***************************************************************************)
(* _save_snapshot_cache: the payload is read under the lock, the file      *)
(* written without it.                                                     *)
(***************************************************************************)
\* mutant: the snapshot file is opened itself
OpenInPlace(t) ==
    /\ job[t].pc = "save"
    /\ job' = [job EXCEPT ![t].pc = "write", ![t].payload = snap, ![t].fd = "file"]
    /\ file' = Empty
    /\ UNCHANGED <<env, process, snap, tmp>>

Open(t) ==
    /\ job[t].pc = "save"
    /\ job' = [job EXCEPT ![t].pc = "write", ![t].payload = snap, ![t].fd = "tmp"]
    /\ tmp' = Empty
    /\ UNCHANGED <<env, process, snap, file>>

\* Over what another thread wrote a payload of another length leaves a mixture.
Written(old, b) == IF old = Empty THEN {Whole(b)} ELSE {Whole(b), Mixed}

Write(t) ==
    LET fd == job[t].fd IN
    /\ job[t].pc = "write"
    /\ tmp' \in IF fd = "tmp" THEN Written(tmp, job[t].payload) ELSE {tmp}
    /\ file' \in IF fd = "file" THEN Written(file, job[t].payload) ELSE {file}
    /\ job' = [job EXCEPT ![t].pc = "replace", ![t].fd = "none", ![t].payload = <<>>]
    /\ UNCHANGED <<env, process, snap>>

\* After a rename a file that is open under the old name is the new one.
Renamed == [tmp |-> "file", file |-> "unnamed", unnamed |-> "unnamed", none |-> "none"]

\* What a thread does after its refresh: the one at boot returns when there are
\* tools or its time is over, and tries again otherwise.
After(t) ==
    IF t # Boot THEN {NoJob}
    ELSE IF snap # <<>> THEN {NoJob} ELSE {NoJob, BootJob(configured)}

\* The rename fails if another thread has taken the temporary file away.
Replace(t) ==
    /\ job[t].pc = "replace"
    /\ \E next \in After(t) :
          /\ job' = [u \in Threads |->
                IF u = t THEN next
                ELSE IF tmp = Absent THEN job[u]
                ELSE [job[u] EXCEPT !.fd = Renamed[@]]]
          /\ booted' = (booted \/ (t = Boot /\ next = NoJob))
    /\ IF tmp = Absent THEN UNCHANGED disk
       ELSE file' = tmp /\ tmp' = Absent
    /\ UNCHANGED <<env, configured, snap>>

-----------------------------------------------------------------------------
(***************************************************************************)
(* The environment.                                                        *)
(***************************************************************************)
\* A server fails, comes back, or lists other tools.
Change(s) ==
    /\ changes < MaxChanges
    /\ \E l \in {Down} \cup SUBSET Tools :
          l # listing[s] /\ listing' = [listing EXCEPT ![s] = l]
    /\ changes' = changes + 1
    /\ UNCHANGED <<overlap, crashes, process, snap, job, disk>>

\* _load_snapshot_cache: a file that cannot be read, or names no tool, is ignored.
Loaded == IF file.kind = "whole" THEN file.blocks ELSE <<>>

\* The process dies and is started again, perhaps with another configuration;
\* its threads are gone, its files are not.
Restart ==
    /\ crashes < MaxCrashes
    /\ crashes' = crashes + 1
    /\ configured' \in (SUBSET ServerSet) \ {{}}
    /\ booted' = FALSE
    /\ snap' = Loaded
    /\ job' = [t \in Threads |-> IF t = Boot THEN BootJob(configured') ELSE NoJob]
    /\ UNCHANGED <<overlap, listing, changes, disk>>

-----------------------------------------------------------------------------
Step(t) == Fetch(t) \/ Decide(t) \/ Publish(t) \/ Open(t) \/ Write(t) \/ Replace(t)

Next ==
    \/ \E t \in Threads : Refresh(t) \/ Step(t)
    \/ \E t \in Requests, s \in ServerSet : RefreshServer(t, s)
    \/ \E s \in ServerSet : Change(s)
    \/ Restart

Spec == Init /\ [][Next]_vars

\* The threads go on, and the loop comes round again after its interval.  When
\* refreshes may not overlap, requests leave the loop its turn.
Fairness ==
    /\ \A t \in Threads : WF_vars(Step(t))
    /\ SF_vars(Refresh(Loop))

FairSpec == Spec /\ Fairness

-----------------------------------------------------------------------------
(***************************************************************************)
(* Properties.                                                             *)
(***************************************************************************)
\* The server that gets the calls to a tool (call_tool, call_tool_stream), as
\* the index of a snapshot has it.
Route(blocks, tool) ==
    LET of == {i \in DOMAIN blocks : tool \in blocks[i].tools} IN
    IF of = {} THEN "none" ELSE blocks[CHOOSE i \in of : \A j \in of : j <= i].srv

\* The shapes of the registry and of its files.
TypeOK ==
    /\ overlap \in BOOLEAN /\ booted \in BOOLEAN
    /\ listing \in [ServerSet -> {Down} \cup SUBSET Tools]
    /\ configured \in (SUBSET ServerSet) \ {{}}
    /\ snap \in Blocks
    /\ job \in [Threads -> Job]
    /\ \A t \in Threads : job[t].fd = "none" <=> job[t].pc # "write"
    /\ {tmp, file} \subseteq File /\ (tmp = Mixed => overlap)
    /\ changes \in 0 .. MaxChanges /\ crashes \in 0 .. MaxCrashes

\* Once the process has started, no tool of a server that is not configured is
\* left from the file, whatever refreshes ran beside the one at boot: calls to
\* such a tool would find no client.
OnlyConfigured == booted => \A i \in DOMAIN snap : snap[i].srv \in configured

\* While refreshes do not overlap, the file is whole at every moment, so the
\* next process finds tools in it even if this one dies while it saves.
FileIsWhole == ~ overlap => file.kind \in {"absent", "whole"}

\* Once the servers stay as they are and one of them lists a tool, every tool
\* is routed to a server that lists it, and tools that none lists are gone:
\* refreshes that overlap may publish old answers, but not for ever.
Current ==
    \A tool \in Tools :
        LET listers == {s \in configured : listing[s] # Down /\ tool \in listing[s]} IN
        IF listers = {} THEN Route(snap, tool) = "none" ELSE Route(snap, tool) \in listers

Converges ==
    <>[](\E s \in configured : listing[s] \notin {Down, {}}) => <>[]Current
=============================================================================
