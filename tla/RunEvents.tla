------------------------------ MODULE RunEvents ------------------------------
(***************************************************************************)
(* The events of one session: how they are stored, numbered and streamed.  *)
(*                                                                         *)
(* TaskStore.add_event commits an event to the task's ledger and then      *)
(* mirrors it into the session's table of run events, where it gets the    *)
(* sequence number a client uses as its cursor.  The two writes are two    *)
(* transactions, the number is read before it is written, and a failed     *)
(* mirror is only logged.  A read of the session's events                  *)
(* (session_view_service.py) numbers the events without a mirror after     *)
(* those that have one, on every read again.  Clients poll through a       *)
(* WebSocket or an event stream (app.py), or load everything.              *)
(*                                                                         *)
(* All of this is synchronous code: a process works on one write or one    *)
(* poll at a time, and processes interleave at the database accesses.      *)
(***************************************************************************)
EXTENDS Naturals, FiniteSets, Sequences

CONSTANTS
    Procs,      \* server processes
    Clients,    \* clients that show the session
    None,       \* no process
    MaxEvents,  \* bound: events of the session
    PageSize,   \* the limit a streaming client asks for
    Hazards     \* the awkward schedules the environment may produce

HazardKinds == {
    "race",         \* two processes write events of the session at once
    "early",        \* an event is added before the session exists
    "unmirrored"}   \* the mirror fails, or the process dies before it

ASSUME EventsAssumption ==
    /\ None \notin Procs
    /\ MaxEvents \in Nat /\ PageSize \in Nat \ {0}
    /\ Hazards \subseteq HazardKinds

VARIABLES
    events,   \* how many task events are committed; they are 1..events
    rows,     \* the run event table by row id: [event, seq]
    session,  \* AgentSessionRecord.status, "none" without a row
    writer,   \* process -> where it is in adding an event
    reader,   \* client -> its connection, and where the server is in a poll
    cursor,   \* client -> the highest sequence number it was sent
    seen,     \* client -> the events it has
    smooth,   \* no awkward schedule has happened yet (history)
    atEnd     \* events committed when the session last became idle (history)

storeVars == <<events, rows, session>>
clientVars == <<reader, cursor, seen>>
historyVars == <<smooth, atEnd>>
vars == <<storeVars, writer, clientVars, historyVars>>

SessionStatus == {"none", "idle", "running"}
WriterPc == {"idle", "told", "stored", "numbered", "owing"}
Streams == {"ws", "sse"}
Modes == Streams \cup {"off", "load", "done"}

NoWrite == [pc |-> "idle", event |-> 0, seq |-> 0, told |-> 0]
NoConnection(m) == [mode |-> m, at |-> None, pc |-> "wait", status |-> "none", rows |-> 0]

Init ==
    /\ events = 0 /\ rows = <<>>
    /\ session = "none"
    /\ writer = [p \in Procs |-> NoWrite]
    /\ reader = [c \in Clients |-> NoConnection("off")]
    /\ cursor = [c \in Clients |-> 0]
    /\ seen = [c \in Clients |-> {}]
    /\ smooth = TRUE /\ atEnd = 0

-----------------------------------------------------------------------------
(***************************************************************************)
(* Numbering.                                                              *)
(***************************************************************************)
MaxOf(S) == IF S = {} THEN 0 ELSE CHOOSE m \in S : \A n \in S : n <= m

TopSeq(rs) == MaxOf({rs[i].seq : i \in DOMAIN rs})

Mirrored(rs) == {rs[i].event : i \in DOMAIN rs}

Legacy(rs, n) == (1..n) \ Mirrored(rs)

\* mutant: once a session has run events, the others are left out
ReadMirroredOnly(rs, n) == IF rs = <<>> THEN 1..n ELSE Mirrored(rs)

\* The events a read of run events rs and of n task events returns.
Read(rs, n) == Mirrored(rs) \cup Legacy(rs, n)

\* collect_session_events: the number of event e in that read.
SeqIn(rs, n, e) ==
    IF e \in Mirrored(rs)
    THEN (CHOOSE r \in {rs[i] : i \in DOMAIN rs} : r.event = e).seq
    ELSE TopSeq(rs) + Cardinality({f \in Legacy(rs, n) : f <= e})

RowOf(rs, e) == CHOOSE i \in DOMAIN rs : rs[i].event = e

\* The order of a read: by number, then by row.
Precedes(rs, n, e, f) ==
    \/ SeqIn(rs, n, e) < SeqIn(rs, n, f)
    \/ /\ SeqIn(rs, n, e) = SeqIn(rs, n, f)
       /\ {e, f} \subseteq Mirrored(rs)
       /\ RowOf(rs, e) < RowOf(rs, f)

\* mutant: the events are counted, but the next number is not the next
NextSeqCounted(rs, n) == TopSeq(rs) + Cardinality(Legacy(rs, n))

\* next_session_event_seq: what the printer tells its listener.
NextSeq(rs, n) == TopSeq(rs) + Cardinality(Legacy(rs, n)) + 1

-----------------------------------------------------------------------------
(***************************************************************************)
(* Writing.                                                                *)
(***************************************************************************)
\* A process serves one write or one poll at a time.
Free(p) ==
    /\ writer[p].pc = "idle"
    /\ \A c \in Clients : reader[c].at = p => reader[c].pc = "wait"

\* No other process is in the middle of a write.
Alone(p) == \A q \in Procs \ {p} : writer[q].pc = "idle"

MayWrite(p) ==
    /\ "race" \in Hazards \/ Alone(p)
    /\ session # "none" \/ ("early" \in Hazards /\ events = 0)
    /\ events < MaxEvents
    /\ smooth' = (smooth /\ Alone(p) /\ session # "none")

\* SSEPrinter.send asks for the number before the event is stored.
Tell(p) ==
    /\ Free(p)
    /\ MayWrite(p)
    /\ session # "none"
    /\ writer' = [writer EXCEPT ![p].pc = "told", ![p].told = NextSeq(rows, events)]
    /\ UNCHANGED <<storeVars, clientVars, atEnd>>

\* add_event: the task's ledger.
Store(p) ==
    /\ \/ Free(p) /\ MayWrite(p)
       \/ writer[p].pc \in {"told", "owing"} /\ events < MaxEvents /\ UNCHANGED smooth
    /\ events' = events + 1
    /\ writer' = [writer EXCEPT ![p].pc = "stored", ![p].event = events + 1]
    /\ UNCHANGED <<rows, session, clientVars, atEnd>>

\* add_run_event: the number is read ...
Number(p) ==
    /\ writer[p].pc = "stored"
    /\ session # "none"
    /\ writer' = [writer EXCEPT ![p].pc = "numbered", ![p].seq = TopSeq(rows) + 1]
    /\ UNCHANGED <<storeVars, clientVars, historyVars>>

\* ... and written.  Nothing in the table keeps it unique.
Mirror(p) ==
    /\ writer[p].pc = "numbered"
    /\ rows' = Append(rows, [event |-> writer[p].event, seq |-> writer[p].seq])
    /\ writer' = [writer EXCEPT ![p] = NoWrite]
    /\ UNCHANGED <<events, session, clientVars, historyVars>>

\* add_run_event refuses an event of a session without a row, and
\* _mirror_run_event only logs it.
Refuse(p) ==
    /\ writer[p].pc = "stored"
    /\ session = "none"
    /\ writer' = [writer EXCEPT ![p] = NoWrite]
    /\ UNCHANGED <<storeVars, clientVars, historyVars>>

\* The database fails, or the process dies.
MirrorFails(p) ==
    /\ "unmirrored" \in Hazards
    /\ writer[p].pc \in {"stored", "numbered"}
    /\ writer' = [writer EXCEPT ![p] = NoWrite]
    /\ smooth' = FALSE
    /\ UNCHANGED <<storeVars, clientVars, atEnd>>

(***************************************************************************)
(* The session around the events.                                          *)
(***************************************************************************)
\* A client creates a session before it sends anything to it.
Create(p) ==
    /\ Free(p)
    /\ session = "none" /\ events = 0
    /\ session' = "idle"
    /\ UNCHANGED <<events, rows, writer, clientVars, historyVars>>

\* Code that changes the session may go on to add an event at once.
MayOwe(p) ==
    \/ UNCHANGED writer
    \/ events < MaxEvents /\ writer' = [writer EXCEPT ![p].pc = "owing"]

\* A message marks the session; a run that starts marks it too, creates it if
\* it has to, and goes on with its first event.
StartRun(p) ==
    /\ Free(p)
    /\ "race" \in Hazards \/ Alone(p)
    /\ session # "running"
    /\ session' = "running"
    /\ MayOwe(p)
    /\ session = "none" => writer'[p].pc = "owing"
    /\ smooth' = (smooth /\ Alone(p))
    /\ UNCHANGED <<events, rows, clientVars, atEnd>>

\* The session is marked idle before the last events of a run that completes;
\* a cancellation may mark it with nothing to follow.
EndRun(p) ==
    /\ Free(p)
    /\ "race" \in Hazards \/ Alone(p)
    /\ session = "running"
    /\ session' = "idle"
    /\ atEnd' = events
    /\ MayOwe(p)
    /\ smooth' = (smooth /\ Alone(p))
    /\ UNCHANGED <<events, rows, clientVars>>

-----------------------------------------------------------------------------
(***************************************************************************)
(* Reading.                                                                *)
(***************************************************************************)
\* GET .../events, /ws/sessions/... and .../stream need a session.
Connect(c, p, m) ==
    /\ reader[c].mode \in {"off", "done"}
    /\ session # "none"
    /\ reader' = [reader EXCEPT ![c] = [NoConnection(m) EXCEPT !.at = p]]
    /\ UNCHANGED <<storeVars, writer, cursor, seen, historyVars>>

\* mutant: only a busy session is polled
PollSessionBusy(c) ==
    /\ reader[c].mode \in Streams \cup {"load"} /\ reader[c].pc = "wait"
    /\ session = "running"
    /\ Free(reader[c].at)
    /\ reader' = [reader EXCEPT ![c].pc = "session", ![c].status = session]
    /\ UNCHANGED <<storeVars, writer, cursor, seen, historyVars>>

\* A poll reads the session, then the run events, then the task events.
PollSession(c) ==
    /\ reader[c].mode \in Streams \cup {"load"} /\ reader[c].pc = "wait"
    /\ Free(reader[c].at)
    /\ reader' = [reader EXCEPT ![c].pc = "session", ![c].status = session]
    /\ UNCHANGED <<storeVars, writer, cursor, seen, historyVars>>

PollRows(c) ==
    /\ reader[c].pc = "session"
    /\ reader' = [reader EXCEPT ![c].pc = "rows", ![c].rows = Len(rows)]
    /\ UNCHANGED <<storeVars, writer, cursor, seen, historyVars>>

RowsRead(c) == SubSeq(rows, 1, reader[c].rows)
SeqRead(c, e) == SeqIn(RowsRead(c), events, e)

\* The events after the cursor.
Pending(c) == {e \in Read(RowsRead(c), events) : SeqRead(c, e) > cursor[c]}

\* mutant: a page has the newest events
FirstNewest(c, k) ==
    {e \in Pending(c) :
        Cardinality({f \in Pending(c) : Precedes(RowsRead(c), events, e, f)}) < k}

\* The first k of them.
First(c, k) ==
    {e \in Pending(c) :
        Cardinality({f \in Pending(c) : Precedes(RowsRead(c), events, f, e)}) < k}

\* mutant: the cursor moves to latestSeq instead of nextSeq
SendLatest(c, sent) ==
    /\ seen' = [seen EXCEPT ![c] = @ \cup sent]
    /\ cursor' = [cursor EXCEPT ![c] =
                     MaxOf({SeqRead(c, e) : e \in Pending(c)} \cup {@})]

Send(c, sent) ==
    /\ seen' = [seen EXCEPT ![c] = @ \cup sent]
    /\ cursor' = [cursor EXCEPT ![c] = MaxOf({SeqRead(c, e) : e \in sent} \cup {@})]

\* mutant: the end is announced before the events are sent
StreamEndFirst(c) ==
    /\ reader[c].mode \in Streams /\ reader[c].pc = "rows"
    /\ IF reader[c].mode = "sse" /\ reader[c].status # "running"
       THEN reader' = [reader EXCEPT ![c] = NoConnection("done")] /\ UNCHANGED <<cursor, seen>>
       ELSE Send(c, First(c, PageSize))
            /\ reader' = [reader EXCEPT ![c] = [NoConnection(@.mode) EXCEPT !.at = reader[c].at]]
    /\ UNCHANGED <<storeVars, writer, historyVars>>

\* A page is sent; the event stream then ends if the session was not busy, the
\* WebSocket goes on.
Stream(c) ==
    /\ reader[c].mode \in Streams /\ reader[c].pc = "rows"
    /\ Send(c, First(c, PageSize))
    /\ reader' = [reader EXCEPT ![c] =
                     IF @.mode = "sse" /\ @.status # "running"
                     THEN NoConnection("done")
                     ELSE [NoConnection(@.mode) EXCEPT !.at = reader[c].at]]
    /\ UNCHANGED <<storeVars, writer, historyVars>>

\* The connection breaks, or the client leaves, before the page is complete.
Break(c) ==
    /\ reader[c].mode \in Streams /\ reader[c].pc = "rows"
    /\ \E k \in 0..(PageSize - 1) : Send(c, First(c, k))
    /\ reader' = [reader EXCEPT ![c] = NoConnection("off")]
    /\ UNCHANGED <<storeVars, writer, historyVars>>

\* loadSession replaces what the client has; maxSessionSeq is its new cursor.
Load(c) ==
    /\ reader[c].mode = "load" /\ reader[c].pc = "rows"
    /\ LET all == Read(RowsRead(c), events)
       IN  /\ seen' = [seen EXCEPT ![c] = all]
           /\ cursor' = [cursor EXCEPT ![c] = MaxOf({SeqRead(c, e) : e \in all})]
    /\ reader' = [reader EXCEPT ![c] = NoConnection("off")]
    /\ UNCHANGED <<storeVars, writer, historyVars>>

-----------------------------------------------------------------------------
Write(p) == Store(p) \/ Number(p) \/ Mirror(p) \/ Refuse(p)
Poll(c) == PollSession(c) \/ PollRows(c) \/ Stream(c) \/ Load(c)

Next ==
    \/ \E p \in Procs :
          \/ Tell(p) \/ Write(p) \/ MirrorFails(p)
          \/ Create(p) \/ StartRun(p) \/ EndRun(p)
    \/ \E c \in Clients :
          \/ \E p \in Procs, m \in Streams \cup {"load"} : Connect(c, p, m)
          \/ Poll(c) \/ Break(c)

Spec == Init /\ [][Next]_vars

(***************************************************************************)
(* Synchronous code goes on to its end, and the event loop of a process    *)
(* takes ready tasks in turn, so that every poll is served again and again *)
(* however often the process writes in between.                            *)
(***************************************************************************)
FairSpec ==
    /\ Spec
    /\ \A p \in Procs : WF_vars(writer[p].pc # "idle" /\ Write(p))
    /\ \A c \in Clients : SF_vars(PollSession(c)) /\ WF_vars(PollRows(c) \/ Stream(c) \/ Load(c))

-----------------------------------------------------------------------------
(***************************************************************************)
(* Properties.                                                             *)
(***************************************************************************)
\* The stores, the writers, the connections and the clients have their types,
\* and every row is numbered from 1.
TypeOK ==
    /\ events \in 0..MaxEvents /\ atEnd \in 0..events
    /\ rows \in Seq([event : 1..events, seq : Nat \ {0}])
    /\ session \in SessionStatus
    /\ writer \in [Procs -> [pc : WriterPc, event : 0..events, seq : Nat, told : Nat]]
    /\ \A p \in Procs :
          /\ writer[p].pc \in {"stored", "numbered"} => writer[p].event # 0
          /\ writer[p].pc = "numbered" => writer[p].seq # 0
    /\ reader \in [Clients -> [mode : Modes, at : Procs \cup {None},
                               pc : {"wait", "session", "rows"},
                               status : SessionStatus, rows : 0..Len(rows)]]
    /\ \A c \in Clients : reader[c].mode \in Streams \cup {"load"} <=> reader[c].at # None
    /\ cursor \in [Clients -> Nat]
    /\ seen \in [Clients -> SUBSET (1..events)]
    /\ smooth \in BOOLEAN

\* What a client has is what a replay holds up to its cursor, whatever page it
\* was cut off at and wherever it reconnects: nothing was skipped, and no later
\* read numbers an event differently.  This needs writes that do not overlap and
\* a mirror for every event.
LiveIsReplay ==
    smooth =>
        \A c \in Clients :
            seen[c] = {e \in 1..events : SeqIn(rows, events, e) <= cursor[c]}

\* The printer and the store number an event alike although they compute the
\* number separately (next_session_event_seq and add_run_event).
ToldSeqIsStored ==
    \A p \in Procs :
        (smooth /\ writer[p].pc = "numbered" /\ writer[p].told # 0) =>
            writer[p].told = writer[p].seq

\* An event stream that says done has sent what was there when the session
\* became idle, unless its last page was full.
Finished(c) == reader[c].mode = "done"
DoneSawRun ==
    [][\A c \in Clients :
          (~ Finished(c) /\ Finished(c)' /\ smooth /\ Cardinality(Pending(c)) <= PageSize)
              => 1..atEnd \subseteq seen'[c]]_vars

\* A client that loads the session gets every event, mirrored or not, written
\* in parallel or not.
LoadRecovers ==
    [][\A c \in Clients : Load(c) => seen'[c] = 1..events]_vars

\* The abstract specification: one log, of which a client is shown a growing
\* prefix, and loses nothing even when writes overlap or a mirror fails.
Log == INSTANCE EventLog WITH log <- events, view <- seen

\* Tables, numbers, pages, cursors and connections implement EventLog.
ImplementsLog == Log!Spec

\* A client on the WebSocket catches up with the store again and again: no event
\* is held back for ever.
CatchesUp ==
    \A c \in Clients :
        []<>(seen[c] = 1..events \/ reader[c].mode # "ws" \/ ~ smooth)
=============================================================================
