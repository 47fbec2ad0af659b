--------------------------- MODULE RunEventsProofs ---------------------------
(***************************************************************************)
(* Theorems about RunEvents, for any processes, clients, page sizes and    *)
(* numbers of events and any set of hazards.                               *)
(***************************************************************************)
EXTENDS RunEvents, FiniteSetTheorems, SequenceTheorems, WellFoundedInduction, TLAPS

-----------------------------------------------------------------------------
(***************************************************************************)
(* The largest element of a set of numbers.                                *)
(***************************************************************************)
\* A bounded set of numbers has a largest element: the least of its bounds.
LEMMA MaxExists ==
    ASSUME NEW S, S \subseteq Nat, S # {}, NEW b \in Nat, \A n \in S : n <= b
    PROVE  \E m \in S : \A n \in S : n <= m
<1> DEFINE U == {u \in Nat : \A n \in S : n <= u}
<1>1. U \subseteq Nat /\ U # {}
  OBVIOUS
<1>2. PICK u \in U : \A v \in U : ~ (<<v, u>> \in OpToRel(<, Nat))
  <2> HIDE DEF U
  <2> QED  BY <1>1, NatLessThanWellFounded, WFMin
<1>3. \A v \in U : u <= v
  <2>1. \A v, w \in Nat : w < v => <<w, v>> \in OpToRel(<, Nat)
    <3>1. SUFFICES ASSUME NEW v \in Nat, NEW w \in Nat, w < v
                   PROVE  <<w, v>> \in OpToRel(<, Nat)
      OBVIOUS
    <3>2. <<w, v>> \in Nat \X Nat
      OBVIOUS
    <3> QED  BY <3>1, <3>2 DEF OpToRel
  <2>2. \A v \in U : v \in Nat /\ ~ (v < u)
    <3> HIDE DEF U
    <3> QED  BY <1>1, <1>2, <2>1, Zenon
  <2> QED  BY <2>2
<1>4. u \in S
  <2>1. SUFFICES ASSUME u \notin S PROVE FALSE
    OBVIOUS
  <2>2. \A n \in S : n < u
    BY <2>1
  <2>3. u # 0
    <3>1. PICK n \in S : TRUE
      OBVIOUS
    <3>2. n \in Nat /\ n < u /\ u \in Nat
      BY <2>2
    <3> QED  BY <3>2
  <2>4. u - 1 \in U
    BY <2>2, <2>3
  <2> QED  BY <2>4, <1>3
<1> QED  BY <1>4

LEMMA MaxOfType ==
    ASSUME NEW S, S \subseteq Nat, NEW b \in Nat, \A n \in S : n <= b
    PROVE  /\ MaxOf(S) \in 0..b
           /\ S # {} => MaxOf(S) \in S
           /\ \A n \in S : n <= MaxOf(S)
<1>1. CASE S = {}
  BY <1>1 DEF MaxOf
<1>2. CASE S # {}
  <2>1. \E m \in S : \A n \in S : n <= m
    BY <1>2, MaxExists
  <2>2. MaxOf(S) \in S /\ \A n \in S : n <= MaxOf(S)
    BY <1>2, <2>1 DEF MaxOf
  <2>3. MaxOf(S) \in Nat /\ MaxOf(S) <= b
    BY <2>2
  <2> QED  BY <2>2, <2>3
<1> QED  BY <1>1, <1>2

\* The largest of m and the numbers above m up to n.
LEMMA MaxOfInterval ==
    ASSUME NEW m \in Nat, NEW n \in Nat, m <= n
    PROVE  MaxOf((m + 1 .. n) \cup {m}) = n
<1> DEFINE S == (m + 1 .. n) \cup {m}
<1>1. S \in SUBSET Nat /\ n \in S /\ \A k \in S : k <= n
  OBVIOUS
<1>2. MaxOf(S) \in S /\ \A k \in S : k <= MaxOf(S)
  BY <1>1, MaxOfType
<1> QED  BY <1>1, <1>2

-----------------------------------------------------------------------------
(***************************************************************************)
(* Reads.                                                                  *)
(***************************************************************************)
Row == [event : Nat, seq : Nat]

\* Whatever the numbers are, a read returns every event once there are n.
LEMMA ReadComplete ==
    ASSUME NEW rs, NEW n \in Nat, \A i \in DOMAIN rs : rs[i].event \in 1..n
    PROVE  Read(rs, n) = 1..n
BY DEF Read, Legacy, Mirrored

\* The first k events have rows that are numbered in their order.
InOrder(rs, k) ==
    /\ rs \in Seq(Row) /\ Len(rs) = k
    /\ \A i \in 1..k : rs[i].event = i /\ rs[i].seq = i

LEMMA OrderlyTop ==
    ASSUME NEW rs, NEW k \in Nat, InOrder(rs, k)
    PROVE  Mirrored(rs) = 1..k /\ TopSeq(rs) = k
<1>1. DOMAIN rs = 1..k
  BY DEF InOrder
<1>2. Mirrored(rs) = 1..k
  BY <1>1 DEF Mirrored, InOrder
<1>3. {rs[i].seq : i \in DOMAIN rs} = 1..k
  BY <1>1 DEF InOrder
<1>4. MaxOf(1..k) \in 0..k /\ (1..k # {} => MaxOf(1..k) \in 1..k)
      /\ \A i \in 1..k : i <= MaxOf(1..k)
  BY MaxOfType
<1>5. MaxOf(1..k) = k
  BY <1>4
<1> QED  BY <1>2, <1>3, <1>5 DEF TopSeq

\* Then a read numbers every event in order, with or without a row.
LEMMA OrderlySeq ==
    ASSUME NEW rs, NEW k \in Nat, NEW n \in Nat, k <= n, InOrder(rs, k), NEW e \in 1..n
    PROVE  SeqIn(rs, n, e) = e
<1>1. Mirrored(rs) = 1..k /\ TopSeq(rs) = k
  BY OrderlyTop
<1>2. CASE e \in 1..k
  <2> DEFINE R == {rs[i] : i \in DOMAIN rs}
             r == CHOOSE x \in R : x.event = e
  <2>1. \E x \in R : x.event = e
    BY <1>2 DEF InOrder
  <2>2. r \in R /\ r.event = e
    BY <2>1
  <2>3. PICK i \in DOMAIN rs : r = rs[i]
    BY <2>2
  <2>4. rs[i].event = e
    BY <2>2, <2>3
  <2>5. rs[i].seq = e
    BY <2>4 DEF InOrder
  <2>6. r.seq = e
    BY <2>3, <2>5
  <2> QED  BY <1>1, <1>2, <2>6 DEF SeqIn
<1>3. CASE e \notin 1..k
  <2>1. {f \in Legacy(rs, n) : f <= e} = k + 1 .. e
    BY <1>1, <1>3 DEF Legacy
  <2>2. Cardinality(k + 1 .. e) = e - k
    BY <1>3, FS_Interval
  <2>3. SeqIn(rs, n, e) = TopSeq(rs) + Cardinality({f \in Legacy(rs, n) : f <= e})
    BY <1>1, <1>3 DEF SeqIn
  <2>4. SeqIn(rs, n, e) = k + (e - k)
    BY <1>1, <2>1, <2>2, <2>3
  <2> QED  BY <2>4
<1> QED  BY <1>2, <1>3

LEMMA OrderlyNext ==
    ASSUME NEW rs, NEW n \in Nat, InOrder(rs, n)
    PROVE  NextSeq(rs, n) = n + 1
<1>1. Mirrored(rs) = 1..n /\ TopSeq(rs) = n
  BY OrderlyTop
<1>2. Legacy(rs, n) = {}
  BY <1>1 DEF Legacy
<1> QED  BY <1>1, <1>2, FS_EmptySet DEF NextSeq

LEMMA OrderlyPrecedes ==
    ASSUME NEW rs, NEW k \in Nat, NEW n \in Nat, k <= n, InOrder(rs, k),
           NEW e \in 1..n, NEW f \in 1..n
    PROVE  Precedes(rs, n, e, f) <=> e < f
<1>1. SeqIn(rs, n, e) = e /\ SeqIn(rs, n, f) = f
  BY OrderlySeq
<1>2. CASE e # f
  BY <1>1, <1>2 DEF Precedes
<1>3. CASE e = f
  <2>1. RowOf(rs, e) = RowOf(rs, f)
    BY <1>3
  <2>2. ASSUME {e, f} \subseteq Mirrored(rs) PROVE RowOf(rs, e) \in Nat
    <3>1. e \in 1..k
      BY <2>2, OrderlyTop
    <3>2. e \in DOMAIN rs /\ rs[e].event = e /\ DOMAIN rs = 1..k
      BY <3>1 DEF InOrder
    <3> QED  BY <3>2 DEF RowOf
  <2> QED  BY <1>1, <1>3, <2>1, <2>2 DEF Precedes
<1> QED  BY <1>2, <1>3

-----------------------------------------------------------------------------
(***************************************************************************)
(* The inductive invariant.  The numbers in the table have a bound, and as *)
(* long as nothing awkward has happened one writer at a time adds the next *)
(* event, rows are the events in their order, and each client has the      *)
(* events up to its cursor.                                                *)
(***************************************************************************)
Bounded == \E b \in Nat : \A i \in DOMAIN rows : rows[i].seq <= b

Storing(p) == writer[p].pc \in {"stored", "numbered"}

OneWriter ==
    /\ \A p, q \in Procs :
          writer[p].pc # "idle" /\ writer[q].pc # "idle" => p = q
    /\ \A p \in Procs : writer[p].pc # "idle" => session # "none"

TableInOrder ==
    /\ InOrder(rows, Len(rows))
    /\ (\A p \in Procs : ~ Storing(p)) => events = Len(rows)
    /\ \A p \in Procs : Storing(p) =>
          /\ events = Len(rows) + 1
          /\ writer[p].event = events
          /\ writer[p].pc = "numbered" => writer[p].seq = events

ToldInOrder ==
    \A p \in Procs :
        /\ writer[p].pc \in {"idle", "owing"} => writer[p].told = 0
        /\ writer[p].pc = "told" => writer[p].told = events + 1
        /\ Storing(p) /\ writer[p].told # 0 => writer[p].told = events

ClientsInOrder ==
    \A c \in Clients : cursor[c] <= events /\ seen[c] = 1..cursor[c]

SmoothInv == OneWriter /\ TableInOrder /\ ToldInOrder /\ ClientsInOrder

IInv == TypeOK /\ Bounded /\ (smooth => SmoothInv)

EventRow(n) == [event : 1..n, seq : Nat \ {0}]

-----------------------------------------------------------------------------
(***************************************************************************)
(* What a poll reads is typed, and orderly as long as the table is.        *)
(***************************************************************************)
LEMMA RowsReadPrefix ==
    ASSUME TypeOK, NEW c \in Clients
    PROVE  /\ reader[c].rows \in Nat /\ reader[c].rows <= Len(rows)
           /\ RowsRead(c) \in Seq(EventRow(events))
           /\ Len(RowsRead(c)) = reader[c].rows
           /\ \A i \in 1..reader[c].rows : RowsRead(c)[i] = rows[i]
<1>1. rows \in Seq(EventRow(events)) /\ Len(rows) \in Nat
  BY DEF TypeOK, EventRow
<1>2. reader[c].rows \in 0..Len(rows)
  BY DEF TypeOK
<1> HIDE DEF EventRow
<1>3. CASE reader[c].rows = 0
  <2>1. SubSeq(rows, 1, 0) = <<>>
    BY <1>1
  <2> QED  BY <1>1, <1>3, <2>1 DEF RowsRead
<1>4. CASE reader[c].rows # 0
  <2>1. reader[c].rows \in 1..Len(rows) /\ 1 \in 1..Len(rows)
    BY <1>1, <1>2, <1>4
  <2>2. /\ SubSeq(rows, 1, reader[c].rows) \in Seq(EventRow(events))
        /\ Len(SubSeq(rows, 1, reader[c].rows)) = reader[c].rows
    BY <1>1, <2>1, SubSeqProperties
  <2>3. \A i \in 1..reader[c].rows : SubSeq(rows, 1, reader[c].rows)[i] = rows[i]
    BY <1>1, <2>1
  <2> QED  BY <1>1, <1>2, <2>2, <2>3 DEF RowsRead
<1> QED  BY <1>3, <1>4

\* The numbers of a read have a bound.
LEMMA SeqBounded ==
    ASSUME NEW n \in Nat, NEW rs \in Seq(EventRow(n)), NEW b \in Nat,
           \A i \in DOMAIN rs : rs[i].seq <= b
    PROVE  /\ TopSeq(rs) \in 0..b
           /\ Read(rs, n) = 1..n
           /\ \A e \in 1..n : SeqIn(rs, n, e) \in 0..(b + n)
<1>1. \A i \in DOMAIN rs : rs[i] \in EventRow(n)
  OBVIOUS
<1>2. TopSeq(rs) \in 0..b
  <2> DEFINE S == {rs[i].seq : i \in DOMAIN rs}
  <2>1. S \subseteq Nat /\ \A m \in S : m <= b
    BY <1>1 DEF EventRow
  <2>2. MaxOf(S) \in 0..b
    <3> HIDE DEF S
    <3> QED  BY <2>1, MaxOfType
  <2> QED  BY <2>2 DEF TopSeq
<1>3. Read(rs, n) = 1..n
  BY <1>1, ReadComplete DEF EventRow
<1>4. ASSUME NEW e \in 1..n PROVE SeqIn(rs, n, e) \in 0..(b + n)
  <2>1. CASE e \in Mirrored(rs)
    <3> DEFINE R == {rs[i] : i \in DOMAIN rs}
               r == CHOOSE x \in R : x.event = e
    <3>1. \E x \in R : x.event = e
      BY <2>1 DEF Mirrored
    <3>2. r \in R
      BY <3>1
    <3>3. PICK i \in DOMAIN rs : r = rs[i]
      BY <3>2
    <3>4. rs[i].seq \in Nat /\ rs[i].seq <= b
      BY <1>1 DEF EventRow
    <3>5. r.seq \in Nat /\ r.seq <= b
      <4> HIDE DEF r
      <4> QED  BY <3>3, <3>4
    <3>6. r.seq \in 0..(b + n)
      <4> HIDE DEF r
      <4> QED  BY <3>5
    <3> QED  BY <2>1, <3>6 DEF SeqIn
  <2>2. CASE e \notin Mirrored(rs)
    <3> DEFINE L == {f \in Legacy(rs, n) : f <= e}
    <3>1. IsFiniteSet(1..n) /\ Cardinality(1..n) = n
      BY FS_Interval
    <3>2. L \subseteq 1..n
      BY DEF Legacy
    <3>3. Cardinality(L) \in Nat /\ Cardinality(L) <= n
      BY <3>1, <3>2, FS_Subset, FS_CardinalityType
    <3>4. SeqIn(rs, n, e) = TopSeq(rs) + Cardinality(L)
      BY <2>2 DEF SeqIn
    <3> HIDE DEF L
    <3> QED  BY <1>2, <3>3, <3>4
  <2> QED  BY <2>1, <2>2
<1> QED  BY <1>2, <1>3, <1>4

LEMMA ReadBounded ==
    ASSUME TypeOK, Bounded, NEW c \in Clients
    PROVE  /\ Read(RowsRead(c), events) = 1..events
           /\ \E b \in Nat : \A e \in 1..events : SeqRead(c, e) \in 0..b
<1>1. PICK b \in Nat : \A i \in DOMAIN rows : rows[i].seq <= b
  BY DEF Bounded
<1>2. events \in Nat /\ rows \in Seq(EventRow(events))
  BY DEF TypeOK, EventRow
<1>3. /\ RowsRead(c) \in Seq(EventRow(events))
      /\ \A i \in DOMAIN RowsRead(c) : RowsRead(c)[i].seq <= b
  <2>1. reader[c].rows <= Len(rows) /\ reader[c].rows \in Nat
        /\ RowsRead(c) \in Seq(EventRow(events)) /\ Len(RowsRead(c)) = reader[c].rows
        /\ \A i \in 1..reader[c].rows : RowsRead(c)[i] = rows[i]
    BY RowsReadPrefix
  <2>2. DOMAIN RowsRead(c) = 1..reader[c].rows /\ DOMAIN rows = 1..Len(rows)
    BY <1>2, <2>1
  <2>3. 1..reader[c].rows \subseteq 1..Len(rows)
    BY <1>2, <2>1
  <2> QED  BY <1>1, <2>1, <2>2, <2>3
<1>4. /\ Read(RowsRead(c), events) = 1..events
      /\ \A e \in 1..events : SeqRead(c, e) \in 0..(b + events)
  <2> HIDE DEF EventRow
  <2> QED  BY <1>1, <1>2, <1>3, SeqBounded DEF SeqRead
<1>5. b + events \in Nat
  BY <1>1, <1>2
<1> QED  BY <1>4, <1>5

\* Sending some of the events of a read keeps the types of what the client has.
LEMMA SendTyped ==
    ASSUME TypeOK, Bounded, NEW c \in Clients, NEW sent, sent \subseteq Pending(c),
           Send(c, sent)
    PROVE  cursor' \in [Clients -> Nat] /\ seen' \in [Clients -> SUBSET (1..events)]
<1>1. PICK b \in Nat : \A e \in 1..events : SeqRead(c, e) \in 0..b
  BY ReadBounded
<1>2. sent \subseteq 1..events
  BY ReadBounded DEF Pending
<1> DEFINE S == {SeqRead(c, e) : e \in sent} \cup {cursor[c]}
<1>3. cursor \in [Clients -> Nat] /\ seen \in [Clients -> SUBSET (1..events)]
  BY DEF TypeOK
<1>4. S \subseteq Nat
  BY <1>1, <1>2, <1>3
<1>5. b + cursor[c] \in Nat /\ \A m \in S : m <= b + cursor[c]
  BY <1>1, <1>2, <1>3
<1>6. MaxOf(S) \in 0..(b + cursor[c])
  <2> HIDE DEF S
  <2> QED  BY <1>4, <1>5, MaxOfType
<1>7. MaxOf(S) \in Nat
  BY <1>5, <1>6
<1>8. cursor' = [cursor EXCEPT ![c] = MaxOf(S)]
  BY DEF Send
<1>9. seen' = [seen EXCEPT ![c] = @ \cup sent]
  BY DEF Send
<1> HIDE DEF S
<1> QED  BY <1>2, <1>3, <1>7, <1>8, <1>9

-----------------------------------------------------------------------------
(***************************************************************************)
(* Orderly polls.                                                          *)
(***************************************************************************)
LEMMA TableLength ==
    ASSUME TypeOK, TableInOrder
    PROVE  Len(rows) \in Nat /\ Len(rows) <= events
<1>1. events \in Nat /\ Len(rows) \in Nat
  BY DEF TypeOK
<1>2. events = Len(rows) \/ events = Len(rows) + 1
  BY DEF TableInOrder
<1> QED  BY <1>1, <1>2

\* A poll numbers the events in their order, so what is pending is what follows
\* the cursor, and a page is the next of these.
LEMMA OrderlyRead ==
    ASSUME TypeOK, TableInOrder, NEW c \in Clients
    PROVE  /\ \A e \in 1..events : SeqRead(c, e) = e
           /\ \A e, f \in 1..events : Precedes(RowsRead(c), events, e, f) <=> e < f
           /\ Read(RowsRead(c), events) = 1..events
<1> DEFINE k == reader[c].rows
<1>1. /\ k \in Nat /\ k <= Len(rows) /\ Len(RowsRead(c)) = k
      /\ RowsRead(c) \in Seq(EventRow(events))
      /\ \A i \in 1..k : RowsRead(c)[i] = rows[i]
  BY RowsReadPrefix
<1>2. events \in Nat /\ Len(rows) \in Nat /\ Len(rows) <= events
  BY TableLength DEF TypeOK
<1>3. k <= events
  BY <1>1, <1>2
<1>4. InOrder(RowsRead(c), k)
  <2>1. \A i \in 1..Len(rows) : rows[i].event = i /\ rows[i].seq = i
    BY DEF TableInOrder, InOrder
  <2>2. 1..k \subseteq 1..Len(rows)
    BY <1>1, <1>2
  <2>3. \A i \in 1..k : RowsRead(c)[i].event = i /\ RowsRead(c)[i].seq = i
    BY <1>1, <2>1, <2>2
  <2>4. RowsRead(c) \in Seq(Row)
    <3>1. EventRow(events) \subseteq Row
      BY <1>2 DEF EventRow, Row
    <3> HIDE DEF EventRow, Row
    <3> QED  BY <1>1, <3>1
  <2> QED  BY <1>1, <2>3, <2>4 DEF InOrder
<1> HIDE DEF k
<1>5. \A e \in 1..events : SeqRead(c, e) = e
  BY <1>1, <1>2, <1>3, <1>4, OrderlySeq DEF SeqRead
<1>6. \A e, f \in 1..events : Precedes(RowsRead(c), events, e, f) <=> e < f
  BY <1>1, <1>2, <1>3, <1>4, OrderlyPrecedes
<1>7. Read(RowsRead(c), events) = 1..events
  <2>1. DOMAIN RowsRead(c) = 1..k
    BY <1>4 DEF InOrder
  <2>2. \A i \in DOMAIN RowsRead(c) : RowsRead(c)[i].event \in 1..events
    BY <1>1, <1>2, <1>3, <1>4, <2>1 DEF InOrder
  <2> QED  BY <1>2, <2>2, ReadComplete
<1> QED  BY <1>5, <1>6, <1>7

LEMMA OrderlyPending ==
    ASSUME TypeOK, TableInOrder, ClientsInOrder, NEW c \in Clients
    PROVE  Pending(c) = cursor[c] + 1 .. events
<1>1. events \in Nat /\ cursor[c] \in Nat
  BY DEF TypeOK
<1>2. Read(RowsRead(c), events) = 1..events /\ \A e \in 1..events : SeqRead(c, e) = e
  BY OrderlyRead
<1>3. Pending(c) = {e \in 1..events : e > cursor[c]}
  BY <1>2 DEF Pending
<1> QED  BY <1>1, <1>3

LEMMA OrderlyFirst ==
    ASSUME TypeOK, TableInOrder, ClientsInOrder, NEW c \in Clients, NEW k \in Nat
    PROVE  First(c, k) = cursor[c] + 1 .. IF cursor[c] + k <= events THEN cursor[c] + k ELSE events
<1> DEFINE m == cursor[c]
<1>1. events \in Nat /\ m \in Nat /\ m <= events
  BY DEF TypeOK, ClientsInOrder
<1>2. Pending(c) = m + 1 .. events
  BY OrderlyPending
<1>3. ASSUME NEW e \in m + 1 .. events
      PROVE  Cardinality({f \in Pending(c) : Precedes(RowsRead(c), events, f, e)}) = e - m - 1
  <2>1. e \in 1..events /\ m + 1 .. events \subseteq 1..events
    BY <1>1
  <2>2. {f \in Pending(c) : Precedes(RowsRead(c), events, f, e)} = {f \in m + 1 .. events : f < e}
    BY <1>2, <2>1, OrderlyRead
  <2>3. {f \in m + 1 .. events : f < e} = m + 1 .. e - 1
    BY <1>1, <2>1
  <2>4. Cardinality(m + 1 .. e - 1) = e - m - 1
    <3>1. m + 1 \in Int /\ e - 1 \in Int
      BY <1>1, <2>1
    <3>2. Cardinality(m + 1 .. e - 1) = IF m + 1 > e - 1 THEN 0 ELSE (e - 1) - (m + 1) + 1
      BY <3>1, FS_Interval
    <3> QED  BY <1>1, <2>1, <3>2
  <2> QED  BY <2>2, <2>3, <2>4
<1>4. First(c, k) = {e \in m + 1 .. events : e - m - 1 < k}
  BY <1>2, <1>3 DEF First
<1>5. {e \in m + 1 .. events : e - m - 1 < k}
      = m + 1 .. IF m + k <= events THEN m + k ELSE events
  BY <1>1
<1> QED  BY <1>4, <1>5

\* A page that is cut off anywhere leaves the client in order.
LEMMA SendOrderly ==
    ASSUME TypeOK, TableInOrder, ClientsInOrder, NEW c \in Clients, NEW k \in Nat,
           Send(c, First(c, k)), UNCHANGED events
    PROVE  /\ ClientsInOrder'
           /\ cursor[c] + k >= events => cursor'[c] = events
<1> DEFINE m == cursor[c]
           n == IF m + k <= events THEN m + k ELSE events
<1>1. events \in Nat /\ m \in Nat /\ m <= events /\ n \in Nat /\ m <= n /\ n <= events
  BY DEF TypeOK, ClientsInOrder
<1>2. First(c, k) = m + 1 .. n
  BY OrderlyFirst
<1>3. {SeqRead(c, e) : e \in First(c, k)} = m + 1 .. n
  <2>1. \A e \in m + 1 .. n : SeqRead(c, e) = e
    <3>1. m + 1 .. n \subseteq 1..events
      BY <1>1
    <3> QED  BY <3>1, OrderlyRead
  <2> HIDE DEF n, m
  <2> QED  BY <1>2, <2>1
<1>4. MaxOf({SeqRead(c, e) : e \in First(c, k)} \cup {m}) = n
  <2> HIDE DEF n, m
  <2> QED  BY <1>1, <1>3, MaxOfInterval
<1>5. cursor' = [cursor EXCEPT ![c] = n] /\ seen' = [seen EXCEPT ![c] = @ \cup (m + 1 .. n)]
  BY <1>2, <1>4 DEF Send
<1>6. cursor'[c] = n /\ seen'[c] = 1..n
  <2>1. cursor \in [Clients -> Nat] /\ seen \in [Clients -> SUBSET (1..events)] /\ seen[c] = 1..m
    BY DEF TypeOK, ClientsInOrder
  <2>2. (1..m) \cup (m + 1 .. n) = 1..n
    BY <1>1
  <2> HIDE DEF n, m
  <2> QED  BY <1>5, <2>1, <2>2
<1>7. \A d \in Clients \ {c} : cursor'[d] = cursor[d] /\ seen'[d] = seen[d]
  <2>1. cursor \in [Clients -> Nat] /\ seen \in [Clients -> SUBSET (1..events)]
    BY DEF TypeOK
  <2> HIDE DEF n, m
  <2> QED  BY <1>5, <2>1
<1>8. ClientsInOrder'
  <2> HIDE DEF n, m
  <2> QED  BY <1>1, <1>6, <1>7 DEF ClientsInOrder
<1> QED  BY <1>1, <1>6, <1>8

-----------------------------------------------------------------------------
(***************************************************************************)
(* Types.                                                                  *)
(***************************************************************************)
LEMMA SeqGrows ==
    ASSUME NEW m \in Nat, NEW n \in Nat, m <= n, NEW rs \in Seq(EventRow(m))
    PROVE  rs \in Seq(EventRow(n))
<1>1. EventRow(m) \subseteq EventRow(n)
  BY DEF EventRow
<1> HIDE DEF EventRow
<1> QED  BY <1>1

\* The parts of TypeOK about the writers and about the connections.
WriteRecord == [pc : WriterPc, event : 0..events, seq : Nat, told : Nat]

WriterOK ==
    /\ writer \in [Procs -> WriteRecord]
    /\ \A p \in Procs :
          /\ writer[p].pc \in {"stored", "numbered"} => writer[p].event # 0
          /\ writer[p].pc = "numbered" => writer[p].seq # 0

Connection == [mode : Modes, at : Procs \cup {None}, pc : {"wait", "session", "rows"},
               status : SessionStatus, rows : 0..Len(rows)]

ReaderOK ==
    /\ reader \in [Clients -> Connection]
    /\ \A c \in Clients : reader[c].mode \in Streams \cup {"load"} <=> reader[c].at # None

LEMMA WriterStep ==
    ASSUME WriterOK, NEW p \in Procs, NEW w \in WriteRecord, UNCHANGED events,
           w.pc \in {"stored", "numbered"} => w.event # 0,
           w.pc = "numbered" => w.seq # 0,
           writer' = [writer EXCEPT ![p] = w]
    PROVE  WriterOK'
<1>1. writer' \in [Procs -> WriteRecord] /\ WriteRecord' = WriteRecord
  BY DEF WriterOK, WriteRecord
<1>2. \A q \in Procs : writer'[q] = IF q = p THEN w ELSE writer[q]
  BY DEF WriterOK
<1> QED  BY <1>1, <1>2 DEF WriterOK

LEMMA ReaderStep ==
    ASSUME ReaderOK, NEW c \in Clients, NEW r \in Connection, UNCHANGED rows,
           r.mode \in Streams \cup {"load"} <=> r.at # None,
           reader' = [reader EXCEPT ![c] = r]
    PROVE  ReaderOK'
<1>1. reader' \in [Clients -> Connection] /\ Connection' = Connection
  BY DEF ReaderOK, Connection
<1>2. \A d \in Clients : reader'[d] = IF d = c THEN r ELSE reader[d]
  BY DEF ReaderOK
<1> QED  BY <1>1, <1>2 DEF ReaderOK

LEMMA TypeInit == Init => TypeOK /\ Bounded
<1> SUFFICES ASSUME Init PROVE TypeOK /\ Bounded
  OBVIOUS
<1>1. rows = <<>> /\ rows \in Seq(EventRow(events)) /\ Len(rows) = 0 /\ DOMAIN rows = {}
  BY DEF Init
<1>2. TypeOK
  BY <1>1, EventsAssumption
  DEF Init, TypeOK, EventRow, NoWrite, NoConnection, WriterPc, SessionStatus, Modes, Streams
<1>3. Bounded
  BY <1>1 DEF Bounded
<1> QED  BY <1>2, <1>3

\* Only a mirror changes the table, and only a store the number of events.
LEMMA TypeStep ==
    ASSUME TypeOK, Bounded, Next
    PROVE  TypeOK' /\ Bounded'
<1> USE EventsAssumption
<1>a. rows \in Seq(EventRow(events)) /\ Len(rows) \in Nat /\ events \in Nat
      /\ TopSeq(rows) \in Nat
  <2>1. PICK b \in Nat : \A i \in DOMAIN rows : rows[i].seq <= b
    BY DEF Bounded
  <2>2. rows \in Seq(EventRow(events)) /\ events \in Nat
    BY DEF TypeOK, EventRow
  <2>3. TopSeq(rows) \in 0..b
    <3> HIDE DEF EventRow
    <3> QED  BY <2>1, <2>2, SeqBounded
  <2> QED  BY <2>1, <2>2, <2>3
<1>b. NextSeq(rows, events) \in Nat
  <2>1. Legacy(rows, events) \subseteq 1..events
    BY DEF Legacy
  <2>2. Cardinality(Legacy(rows, events)) \in Nat
    <3>1. IsFiniteSet(1..events)
      BY <1>a, FS_Interval
    <3> QED  BY <2>1, <3>1, FS_Subset, FS_CardinalityType
  <2> QED  BY <1>a, <2>2 DEF NextSeq
<1>c. WriterOK /\ ReaderOK
  BY DEF TypeOK, WriterOK, WriteRecord, ReaderOK, Connection
<1>1. ASSUME NEW p \in Procs, Tell(p) PROVE TypeOK' /\ Bounded'
  <2>1. writer' = [writer EXCEPT ![p].pc = "told", ![p].told = NextSeq(rows, events)]
        /\ smooth' \in BOOLEAN /\ UNCHANGED <<events, rows, session, reader, cursor, seen, atEnd>>
    BY <1>1 DEF Tell, MayWrite, Alone, storeVars, clientVars, TypeOK
  <2>2. WriterOK'
    <3> DEFINE w == [writer[p] EXCEPT !.pc = "told", !.told = NextSeq(rows, events)]
    <3>1. w \in WriteRecord /\ w.pc = "told"
      BY <1>b, <1>c DEF WriterOK, WriteRecord, WriterPc
    <3>2. writer' = [writer EXCEPT ![p] = w]
      BY <2>1
    <3> HIDE DEF w
    <3> QED  BY <1>c, <2>1, <3>1, <3>2, WriterStep
  <2> QED  BY <2>1, <2>2 DEF TypeOK, Bounded, WriterOK, WriteRecord
<1>2. ASSUME NEW p \in Procs, Store(p) PROVE TypeOK' /\ Bounded'
  <2>1. /\ events' = events + 1 /\ events < MaxEvents /\ smooth' \in BOOLEAN
        /\ writer' = [writer EXCEPT ![p].pc = "stored", ![p].event = events + 1]
        /\ UNCHANGED <<rows, session, reader, cursor, seen, atEnd>>
    BY <1>2 DEF Store, MayWrite, Alone, storeVars, clientVars, TypeOK
  <2>2. rows' \in Seq(EventRow(events'))
    <3> HIDE DEF EventRow
    <3> QED  BY <1>a, <2>1, SeqGrows
  <2>3. 0..events \subseteq 0..events' /\ 1..events \subseteq 1..events' /\ events' \in 1..events'
        /\ events' \in 0..MaxEvents
    BY <1>a, <2>1 DEF TypeOK
  <2>4. writer' \in [Procs -> [pc : WriterPc, event : 0..events', seq : Nat, told : Nat]]
    BY <1>a, <2>1, <2>3 DEF TypeOK, WriterPc
  <2>5. \A q \in Procs : /\ writer'[q].pc \in {"stored", "numbered"} => writer'[q].event # 0
                         /\ writer'[q].pc = "numbered" => writer'[q].seq # 0
    BY <1>a, <2>1 DEF TypeOK
  <2>6. seen' \in [Clients -> SUBSET (1..events')] /\ atEnd' \in 0..events'
    BY <2>1, <2>3 DEF TypeOK
  <2> QED  BY <2>1, <2>2, <2>3, <2>4, <2>5, <2>6 DEF TypeOK, Bounded, EventRow
<1>3. ASSUME NEW p \in Procs, Number(p) PROVE TypeOK' /\ Bounded'
  <2>1. writer' = [writer EXCEPT ![p].pc = "numbered", ![p].seq = TopSeq(rows) + 1]
        /\ writer[p].pc = "stored"
        /\ UNCHANGED <<events, rows, session, reader, cursor, seen, smooth, atEnd>>
    BY <1>3 DEF Number, storeVars, clientVars, historyVars
  <2>2. WriterOK'
    <3> DEFINE w == [writer[p] EXCEPT !.pc = "numbered", !.seq = TopSeq(rows) + 1]
    <3>1. w \in WriteRecord /\ w.event = writer[p].event /\ w.seq = TopSeq(rows) + 1
      <4>1. writer[p] \in WriteRecord /\ TopSeq(rows) + 1 \in Nat
        BY <1>a, <1>c DEF WriterOK
      <4> QED  BY <4>1 DEF WriteRecord, WriterPc
    <3>2. w.event # 0 /\ w.seq # 0
      BY <1>a, <1>c, <2>1, <3>1 DEF WriterOK
    <3>3. writer' = [writer EXCEPT ![p] = w]
      BY <2>1
    <3> HIDE DEF w
    <3> QED  BY <1>c, <2>1, <3>1, <3>2, <3>3, WriterStep
  <2> QED  BY <2>1, <2>2 DEF TypeOK, Bounded, WriterOK, WriteRecord
<1>4. ASSUME NEW p \in Procs, Mirror(p) PROVE TypeOK' /\ Bounded'
  <2> DEFINE row == [event |-> writer[p].event, seq |-> writer[p].seq]
  <2>1. /\ rows' = Append(rows, row) /\ writer' = [writer EXCEPT ![p] = NoWrite]
        /\ writer[p].pc = "numbered"
        /\ UNCHANGED <<events, session, reader, cursor, seen, smooth, atEnd>>
    BY <1>4 DEF Mirror, clientVars, historyVars
  <2>2. row \in EventRow(events) /\ row.seq \in Nat
    BY <1>a, <2>1 DEF TypeOK, EventRow
  <2>3. /\ rows' \in Seq(EventRow(events)) /\ Len(rows') = Len(rows) + 1
        /\ \A i \in 1..Len(rows) : rows'[i] = rows[i]
        /\ rows'[Len(rows) + 1] = row
    <3> HIDE DEF EventRow, row
    <3> QED  BY <1>a, <2>1, <2>2, AppendProperties
  <2>4. Bounded'
    <3>1. PICK b \in Nat : \A i \in DOMAIN rows : rows[i].seq <= b
      BY DEF Bounded
    <3>2. b + row.seq \in Nat /\ b <= b + row.seq /\ row.seq <= b + row.seq
      <4> HIDE DEF row
      <4> QED  BY <3>1, <2>2
    <3>3. \A i \in 1..Len(rows) : rows[i].seq \in Nat /\ rows[i].seq <= b
      <4>1. \A i \in 1..Len(rows) : rows[i] \in EventRow(events) /\ i \in DOMAIN rows
        <5> HIDE DEF EventRow
        <5> QED  BY <1>a
      <4> QED  BY <3>1, <4>1 DEF EventRow
    <3>4. \A i \in 1..Len(rows) + 1 : rows'[i].seq <= b + row.seq
      <4> HIDE DEF row
      <4> QED  BY <1>a, <2>2, <2>3, <3>1, <3>2, <3>3
    <3>5. DOMAIN rows' = 1..Len(rows) + 1
      <4> HIDE DEF EventRow
      <4> QED  BY <1>a, <2>3
    <3> QED  BY <3>2, <3>4, <3>5 DEF Bounded
  <2>5. writer' \in [Procs -> [pc : WriterPc, event : 0..events, seq : Nat, told : Nat]]
        /\ \A q \in Procs : /\ writer'[q].pc \in {"stored", "numbered"} => writer'[q].event # 0
                            /\ writer'[q].pc = "numbered" => writer'[q].seq # 0
    BY <1>a, <2>1 DEF TypeOK, NoWrite, WriterPc
  <2>6. 0..Len(rows) \subseteq 0..Len(rows')
    BY <1>a, <2>3
  <2>7. reader' \in [Clients -> [mode : Modes, at : Procs \cup {None},
                                pc : {"wait", "session", "rows"},
                                status : SessionStatus, rows : 0..Len(rows')]]
    BY <2>1, <2>6 DEF TypeOK
  <2>8. TypeOK'
    <3> HIDE DEF row
    <3> QED  BY <2>1, <2>3, <2>5, <2>7 DEF TypeOK, EventRow
  <2> QED  BY <2>4, <2>8
<1>5. ASSUME NEW p \in Procs, Refuse(p) \/ MirrorFails(p) PROVE TypeOK' /\ Bounded'
  <2>1. writer' = [writer EXCEPT ![p] = NoWrite] /\ smooth' \in BOOLEAN
        /\ UNCHANGED <<events, rows, session, reader, cursor, seen, atEnd>>
    BY <1>5 DEF Refuse, MirrorFails, storeVars, clientVars, historyVars, TypeOK
  <2>2. WriterOK'
    <3>1. NoWrite \in WriteRecord /\ NoWrite.pc = "idle"
      BY <1>a DEF NoWrite, WriteRecord, WriterPc
    <3> QED  BY <1>c, <2>1, <3>1, WriterStep
  <2> QED  BY <2>1, <2>2 DEF TypeOK, Bounded, WriterOK, WriteRecord
<1>6. ASSUME NEW p \in Procs, Create(p) PROVE TypeOK' /\ Bounded'
  BY <1>6 DEF Create, clientVars, historyVars, TypeOK, Bounded, SessionStatus
<1>7. ASSUME NEW p \in Procs, StartRun(p) \/ EndRun(p) PROVE TypeOK' /\ Bounded'
  <2>1. /\ session' \in SessionStatus /\ smooth' \in BOOLEAN /\ atEnd' \in 0..events
        /\ UNCHANGED <<events, rows, reader, cursor, seen>>
    <3>1. atEnd \in 0..events /\ events \in 0..events /\ smooth \in BOOLEAN
      BY <1>a DEF TypeOK
    <3>2. CASE StartRun(p)
      BY <3>1, <3>2 DEF StartRun, Alone, clientVars, SessionStatus
    <3>3. CASE EndRun(p)
      BY <3>1, <3>3 DEF EndRun, Alone, clientVars, SessionStatus
    <3> QED  BY <1>7, <3>2, <3>3
  <2>2. WriterOK'
    <3> DEFINE w == [writer[p] EXCEPT !.pc = "owing"]
    <3>1. w \in WriteRecord /\ w.pc = "owing"
      BY <1>c DEF WriterOK, WriteRecord, WriterPc
    <3>2. MayOwe(p)
      BY <1>7 DEF StartRun, EndRun
    <3>3. CASE UNCHANGED writer
      BY <1>c, <2>1, <3>3 DEF WriterOK, WriteRecord
    <3>4. CASE writer' = [writer EXCEPT ![p] = w]
      <4> HIDE DEF w
      <4> QED  BY <1>c, <2>1, <3>1, <3>4, WriterStep
    <3> QED  BY <3>2, <3>3, <3>4 DEF MayOwe
  <2> QED  BY <2>1, <2>2 DEF TypeOK, Bounded, WriterOK, WriteRecord
<1>8. ASSUME NEW c \in Clients, NEW p \in Procs, NEW m \in Streams \cup {"load"}, Connect(c, p, m)
      PROVE  TypeOK' /\ Bounded'
  <2>1. /\ reader' = [reader EXCEPT ![c] = [mode |-> m, at |-> p, pc |-> "wait",
                                            status |-> "none", rows |-> 0]]
        /\ UNCHANGED <<events, rows, session, writer, cursor, seen, smooth, atEnd>>
    <3>1. [NoConnection(m) EXCEPT !.at = p]
          = [mode |-> m, at |-> p, pc |-> "wait", status |-> "none", rows |-> 0]
      BY DEF NoConnection
    <3>2. reader' = [reader EXCEPT ![c] = [NoConnection(m) EXCEPT !.at = p]]
          /\ UNCHANGED <<events, rows, session, writer, cursor, seen, smooth, atEnd>>
      BY <1>8 DEF Connect, storeVars, historyVars
    <3> QED  BY <3>1, <3>2
  <2>2. ReaderOK'
    <3> DEFINE r == [mode |-> m, at |-> p, pc |-> "wait", status |-> "none", rows |-> 0]
    <3>1. r \in Connection /\ r.at # None /\ r.mode \in Streams \cup {"load"}
      BY <1>a DEF Connection, SessionStatus, Modes, Streams
    <3> HIDE DEF r
    <3>2. reader' = [reader EXCEPT ![c] = r]
      BY <2>1 DEF r
    <3> QED  BY <1>c, <2>1, <3>1, <3>2, ReaderStep
  <2> QED  BY <2>1, <2>2 DEF TypeOK, Bounded, ReaderOK, Connection
<1>9. ASSUME NEW c \in Clients, PollSession(c) PROVE TypeOK' /\ Bounded'
  <2>1. /\ reader' = [reader EXCEPT ![c].pc = "session", ![c].status = session]
        /\ UNCHANGED <<events, rows, session, writer, cursor, seen, smooth, atEnd>>
    BY <1>9 DEF PollSession, storeVars, historyVars
  <2>2. ReaderOK'
    <3> DEFINE r == [reader[c] EXCEPT !.pc = "session", !.status = session]
    <3>1. r \in Connection /\ r.at = reader[c].at /\ r.mode = reader[c].mode
      <4>1. reader[c] \in Connection /\ session \in SessionStatus
        BY <1>c DEF ReaderOK, TypeOK
      <4> QED  BY <4>1 DEF Connection
    <3>2. r.mode \in Streams \cup {"load"} <=> r.at # None
      BY <1>c, <3>1 DEF ReaderOK
    <3>3. reader' = [reader EXCEPT ![c] = r]
      BY <2>1
    <3> HIDE DEF r
    <3> QED  BY <1>c, <2>1, <3>1, <3>2, <3>3, ReaderStep
  <2> QED  BY <2>1, <2>2 DEF TypeOK, Bounded, ReaderOK, Connection
<1>10. ASSUME NEW c \in Clients, PollRows(c) PROVE TypeOK' /\ Bounded'
  <2>1. /\ reader' = [reader EXCEPT ![c].pc = "rows", ![c].rows = Len(rows)]
        /\ UNCHANGED <<events, rows, session, writer, cursor, seen, smooth, atEnd>>
    BY <1>10 DEF PollRows, storeVars, historyVars
  <2>2. ReaderOK'
    <3> DEFINE r == [reader[c] EXCEPT !.pc = "rows", !.rows = Len(rows)]
    <3>1. r \in Connection /\ r.at = reader[c].at /\ r.mode = reader[c].mode
      <4>1. reader[c] \in Connection /\ Len(rows) \in 0..Len(rows)
        BY <1>a, <1>c DEF ReaderOK
      <4> QED  BY <4>1 DEF Connection
    <3>2. r.mode \in Streams \cup {"load"} <=> r.at # None
      BY <1>c, <3>1 DEF ReaderOK
    <3>3. reader' = [reader EXCEPT ![c] = r]
      BY <2>1
    <3> HIDE DEF r
    <3> QED  BY <1>c, <2>1, <3>1, <3>2, <3>3, ReaderStep
  <2> QED  BY <2>1, <2>2 DEF TypeOK, Bounded, ReaderOK, Connection
<1>11. ASSUME NEW c \in Clients, Stream(c) \/ Break(c) PROVE TypeOK' /\ Bounded'
  <2>1. \E k : Send(c, First(c, k))
    BY <1>11 DEF Stream, Break
  <2>2. cursor' \in [Clients -> Nat] /\ seen' \in [Clients -> SUBSET (1..events)]
    BY <2>1, SendTyped DEF First
  <2>3. /\ reader[c].mode \in Streams
        /\ \/ reader' = [reader EXCEPT ![c] = NoConnection("done")]
           \/ reader' = [reader EXCEPT ![c] = [NoConnection(reader[c].mode) EXCEPT !.at = reader[c].at]]
           \/ reader' = [reader EXCEPT ![c] = NoConnection("off")]
        /\ UNCHANGED <<events, rows, session, writer, smooth, atEnd>>
    BY <1>11 DEF Stream, Break, storeVars, historyVars, TypeOK
  <2>4. ReaderOK'
    <3> DEFINE r == [NoConnection(reader[c].mode) EXCEPT !.at = reader[c].at]
    <3>1. reader[c].at \in Procs /\ reader[c].mode \in Modes
      BY <1>c, <2>3 DEF ReaderOK, Connection
    <3>2. r \in Connection /\ (r.mode \in Streams \cup {"load"} <=> r.at # None)
      BY <1>a, <2>3, <3>1 DEF NoConnection, Connection, SessionStatus
    <3> HIDE DEF r
    <3>3. CASE reader' = [reader EXCEPT ![c] = r]
      BY <1>c, <2>3, <3>2, <3>3, ReaderStep
    <3>4. \A m \in {"done", "off"} :
             /\ NoConnection(m) \in Connection
             /\ NoConnection(m).mode \in Streams \cup {"load"} <=> NoConnection(m).at # None
      BY <1>a DEF NoConnection, Connection, SessionStatus, Modes, Streams
    <3>5. CASE \E m \in {"done", "off"} : reader' = [reader EXCEPT ![c] = NoConnection(m)]
      BY <1>c, <2>3, <3>4, <3>5, ReaderStep
    <3> QED  BY <2>3, <3>3, <3>5 DEF r
  <2> QED  BY <2>2, <2>3, <2>4 DEF TypeOK, Bounded, ReaderOK, Connection
<1>12. ASSUME NEW c \in Clients, Load(c) PROVE TypeOK' /\ Bounded'
  <2>1. PICK b \in Nat : \A e \in 1..events : SeqRead(c, e) \in 0..b
    BY ReadBounded
  <2> DEFINE S == {SeqRead(c, e) : e \in 1..events}
  <2>2. S \subseteq Nat /\ \A m \in S : m <= b
    BY <2>1
  <2>3. MaxOf(S) \in Nat
    <3> HIDE DEF S
    <3>1. MaxOf(S) \in 0..b
      BY <2>1, <2>2, MaxOfType
    <3> QED  BY <3>1
  <2>4. /\ seen' = [seen EXCEPT ![c] = 1..events] /\ cursor' = [cursor EXCEPT ![c] = MaxOf(S)]
        /\ reader' = [reader EXCEPT ![c] = NoConnection("off")]
        /\ UNCHANGED <<events, rows, session, writer, smooth, atEnd>>
    BY <1>12, ReadBounded DEF Load, storeVars, historyVars
  <2> HIDE DEF S
  <2>5. cursor' \in [Clients -> Nat] /\ seen' \in [Clients -> SUBSET (1..events)]
    BY <2>3, <2>4 DEF TypeOK
  <2>6. reader' \in [Clients -> [mode : Modes, at : Procs \cup {None},
                               pc : {"wait", "session", "rows"},
                               status : SessionStatus, rows : 0..Len(rows)]]
        /\ \A d \in Clients : reader'[d].mode \in Streams \cup {"load"} <=> reader'[d].at # None
    BY <1>a, <2>4 DEF TypeOK, NoConnection, SessionStatus, Modes, Streams
  <2> QED  BY <2>4, <2>5, <2>6 DEF TypeOK, Bounded
<1> QED  BY <1>1, <1>2, <1>3, <1>4, <1>5, <1>6, <1>7, <1>8, <1>9, <1>10, <1>11, <1>12
         DEF Next, Write, Poll

-----------------------------------------------------------------------------
(***************************************************************************)
(* Order.                                                                  *)
(***************************************************************************)
LEMMA SmoothInit == Init => SmoothInv
<1> SUFFICES ASSUME Init PROVE SmoothInv
  OBVIOUS
<1>1. rows = <<>> /\ Len(rows) = 0 /\ rows \in Seq(Row) /\ events = 0
      /\ (\A p \in Procs : writer[p] = NoWrite) /\ (\A c \in Clients : cursor[c] = 0 /\ seen[c] = {})
  BY DEF Init
<1>2. \A p \in Procs : writer[p].pc = "idle" /\ writer[p].told = 0
  BY <1>1 DEF NoWrite
<1>3. OneWriter /\ TableInOrder /\ ToldInOrder
  BY <1>1, <1>2 DEF OneWriter, TableInOrder, ToldInOrder, Storing, InOrder
<1>4. ClientsInOrder
  <2>1. 1..0 = {} /\ 0 <= 0
    OBVIOUS
  <2> QED  BY <1>1, <2>1 DEF ClientsInOrder
<1> QED  BY <1>3, <1>4 DEF SmoothInv

\* The step of a writer that no other process works beside.
LEMMA SmoothTell ==
    ASSUME TypeOK, SmoothInv, NEW p \in Procs, Tell(p), smooth'
    PROVE  SmoothInv'
<1>1. /\ writer[p].pc = "idle" /\ session # "none"
      /\ writer' = [writer EXCEPT ![p].pc = "told", ![p].told = NextSeq(rows, events)]
      /\ \A q \in Procs \ {p} : writer[q].pc = "idle"
      /\ UNCHANGED <<events, rows, session, cursor, seen>>
  BY DEF Tell, Free, MayWrite, Alone, storeVars, clientVars
<1>2. \A q \in Procs : ~ Storing(q)
  BY <1>1 DEF Storing
<1>3. events = Len(rows) /\ InOrder(rows, events) /\ events \in Nat
  BY <1>2 DEF SmoothInv, TableInOrder, TypeOK
<1>4. NextSeq(rows, events) = events + 1
  BY <1>3, OrderlyNext
<1>5. \A q \in Procs : writer'[q].pc = IF q = p THEN "told" ELSE "idle"
  BY <1>1 DEF TypeOK
<1>6. writer'[p].told = events + 1 /\ \A q \in Procs \ {p} : writer'[q] = writer[q]
  BY <1>1, <1>4 DEF TypeOK
<1>7. OneWriter'
  BY <1>1, <1>5 DEF OneWriter
<1>8. \A q \in Procs : ~ Storing(q)'
  BY <1>5 DEF Storing
<1>9. TableInOrder'
  BY <1>1, <1>3, <1>8 DEF TableInOrder
<1>10. ToldInOrder'
  <2>1. \A q \in Procs \ {p} : writer'[q].pc = "idle" /\ writer'[q].told = 0
    BY <1>1, <1>6 DEF SmoothInv, ToldInOrder
  <2>2. writer'[p].pc = "told" /\ writer'[p].told = events' + 1
    BY <1>1, <1>5, <1>6
  <2> QED  BY <1>8, <2>1, <2>2 DEF ToldInOrder
<1> QED  BY <1>1, <1>7, <1>9, <1>10 DEF SmoothInv, ClientsInOrder

LEMMA SmoothStore ==
    ASSUME TypeOK, SmoothInv, NEW p \in Procs, Store(p), smooth'
    PROVE  SmoothInv'
<1>1. /\ events' = events + 1 /\ UNCHANGED <<rows, session, cursor, seen>>
      /\ writer' = [writer EXCEPT ![p].pc = "stored", ![p].event = events + 1]
  BY DEF Store, clientVars
<1>2. /\ writer[p].pc \in {"idle", "told", "owing"}
      /\ \A q \in Procs \ {p} : writer[q].pc = "idle"
      /\ session # "none"
  <2>1. CASE Free(p) /\ MayWrite(p)
    BY <2>1 DEF Free, MayWrite, Alone
  <2>2. CASE writer[p].pc \in {"told", "owing"}
    BY <2>2 DEF SmoothInv, OneWriter
  <2> QED  BY <2>1, <2>2 DEF Store
<1>3. \A q \in Procs : ~ Storing(q)
  BY <1>2 DEF Storing
<1>4. events = Len(rows) /\ events \in Nat
  BY <1>3 DEF SmoothInv, TableInOrder, TypeOK
<1>5. \A q \in Procs : writer'[q].pc = IF q = p THEN "stored" ELSE "idle"
  BY <1>1, <1>2 DEF TypeOK
<1>6. /\ writer'[p].event = events + 1 /\ writer'[p].told = writer[p].told
      /\ \A q \in Procs \ {p} : writer'[q] = writer[q]
  BY <1>1 DEF TypeOK
<1>7. OneWriter'
  BY <1>1, <1>2, <1>5 DEF OneWriter
<1>8. \A q \in Procs : Storing(q)' <=> q = p
  BY <1>5 DEF Storing
<1>9. TableInOrder'
  <2>1. InOrder(rows, Len(rows))
    BY DEF SmoothInv, TableInOrder
  <2>2. writer'[p].pc # "numbered"
    BY <1>5
  <2> QED  BY <1>1, <1>4, <1>6, <1>8, <2>1, <2>2 DEF TableInOrder
<1>10. ToldInOrder'
  <2>1. writer[p].told \in {0, events + 1}
    BY <1>2 DEF SmoothInv, ToldInOrder
  <2>2. \A q \in Procs \ {p} : writer'[q].told = 0
    BY <1>2, <1>6 DEF SmoothInv, ToldInOrder
  <2>3. writer'[p].pc = "stored" /\ writer'[p].told \in {0, events'}
    BY <1>1, <1>5, <1>6, <2>1
  <2>4. \A q \in Procs \ {p} : writer'[q].pc = "idle" /\ ~ Storing(q)'
    BY <1>5, <1>8
  <2> QED  BY <2>2, <2>3, <2>4 DEF ToldInOrder
<1>11. ClientsInOrder'
  BY <1>1, <1>4 DEF SmoothInv, ClientsInOrder, TypeOK
<1> QED  BY <1>7, <1>9, <1>10, <1>11 DEF SmoothInv

LEMMA SmoothNumber ==
    ASSUME TypeOK, SmoothInv, NEW p \in Procs, Number(p)
    PROVE  SmoothInv'
<1>1. /\ UNCHANGED <<events, rows, session, cursor, seen>> /\ writer[p].pc = "stored"
      /\ writer' = [writer EXCEPT ![p].pc = "numbered", ![p].seq = TopSeq(rows) + 1]
  BY DEF Number, storeVars, clientVars
<1>2. Storing(p) /\ events = Len(rows) + 1 /\ writer[p].event = events
      /\ InOrder(rows, Len(rows)) /\ Len(rows) \in Nat
  BY <1>1 DEF SmoothInv, TableInOrder, TypeOK, Storing
<1>3. TopSeq(rows) + 1 = events
  BY <1>2, OrderlyTop
<1>4. /\ writer'[p].pc = "numbered" /\ writer'[p].seq = events
      /\ writer'[p].event = writer[p].event /\ writer'[p].told = writer[p].told
      /\ \A q \in Procs \ {p} : writer'[q] = writer[q]
  BY <1>1, <1>3 DEF TypeOK
<1>5. \A q \in Procs \ {p} : writer[q].pc = "idle"
  BY <1>1 DEF SmoothInv, OneWriter
<1>6. OneWriter'
  BY <1>1, <1>4, <1>5 DEF SmoothInv, OneWriter
<1>7. \A q \in Procs : Storing(q)' <=> q = p
  BY <1>4, <1>5 DEF Storing
<1>8. TableInOrder'
  BY <1>1, <1>2, <1>4, <1>7 DEF TableInOrder
<1>9. ToldInOrder'
  BY <1>1, <1>2, <1>4, <1>5, <1>7 DEF SmoothInv, ToldInOrder
<1> QED  BY <1>1, <1>6, <1>8, <1>9 DEF SmoothInv, ClientsInOrder

LEMMA SmoothMirror ==
    ASSUME TypeOK, SmoothInv, NEW p \in Procs, Mirror(p)
    PROVE  SmoothInv'
<1> DEFINE row == [event |-> writer[p].event, seq |-> writer[p].seq]
<1>1. /\ UNCHANGED <<events, session, cursor, seen>> /\ writer[p].pc = "numbered"
      /\ rows' = Append(rows, row) /\ writer' = [writer EXCEPT ![p] = NoWrite]
  BY DEF Mirror, clientVars
<1>2. Storing(p) /\ events = Len(rows) + 1 /\ writer[p].event = events /\ writer[p].seq = events
      /\ InOrder(rows, Len(rows)) /\ Len(rows) \in Nat
  BY <1>1 DEF SmoothInv, TableInOrder, TypeOK, Storing
<1>3. \A q \in Procs : writer'[q].pc = "idle" /\ writer'[q].told = 0
  BY <1>1 DEF TypeOK, NoWrite, SmoothInv, OneWriter, ToldInOrder
<1>4. OneWriter' /\ ToldInOrder' /\ \A q \in Procs : ~ Storing(q)'
  BY <1>3 DEF OneWriter, ToldInOrder, Storing
<1>5. row \in Row /\ row.event = events /\ row.seq = events
  BY <1>2 DEF Row
<1> HIDE DEF row
<1>6. /\ rows' \in Seq(Row) /\ Len(rows') = events
      /\ \A i \in 1..Len(rows) : rows'[i] = rows[i]
      /\ rows'[events] = row
  <2> HIDE DEF Row
  <2> QED  BY <1>1, <1>2, <1>5, AppendProperties DEF InOrder
<1>7. \A i \in 1..events : rows'[i].event = i /\ rows'[i].seq = i
  <2>1. \A i \in 1..Len(rows) : rows[i].event = i /\ rows[i].seq = i
    BY <1>2 DEF InOrder
  <2>2. \A i \in 1..events : i = events \/ i \in 1..Len(rows)
    BY <1>2
  <2> QED  BY <1>5, <1>6, <2>1, <2>2
<1>8. TableInOrder'
  BY <1>1, <1>4, <1>6, <1>7 DEF TableInOrder, InOrder
<1> QED  BY <1>1, <1>4, <1>8 DEF SmoothInv, ClientsInOrder

\* A session that is created, marked running or marked idle.
LEMMA SmoothSession ==
    ASSUME TypeOK, SmoothInv, NEW p \in Procs, smooth',
           Create(p) \/ StartRun(p) \/ EndRun(p)
    PROVE  SmoothInv'
<1>1. /\ UNCHANGED <<events, rows, cursor, seen>> /\ session' # "none"
      /\ UNCHANGED writer \/ (Alone(p) /\ writer' = [writer EXCEPT ![p].pc = "owing"])
      /\ writer[p].pc = "idle"
  BY DEF Create, StartRun, EndRun, MayOwe, clientVars, Free
<1>2. CASE UNCHANGED writer
  BY <1>1, <1>2 DEF SmoothInv, OneWriter, TableInOrder, ToldInOrder, ClientsInOrder, Storing
<1>3. CASE Alone(p) /\ writer' = [writer EXCEPT ![p].pc = "owing"]
  <2>1. \A q \in Procs : writer'[q].pc = IF q = p THEN "owing" ELSE "idle"
    BY <1>3 DEF TypeOK, Alone
  <2>2. \A q \in Procs : ~ Storing(q) /\ ~ Storing(q)'
    BY <1>1, <1>3, <2>1 DEF Storing, Alone
  <2>3. \A q \in Procs : writer'[q].told = 0
    BY <1>1, <1>3 DEF SmoothInv, ToldInOrder, Alone, TypeOK
  <2>4. OneWriter' /\ ToldInOrder'
    BY <1>1, <2>1, <2>2, <2>3 DEF OneWriter, ToldInOrder
  <2>5. TableInOrder'
    BY <1>1, <2>2 DEF SmoothInv, TableInOrder
  <2> QED  BY <1>1, <2>4, <2>5 DEF SmoothInv, ClientsInOrder
<1> QED  BY <1>1, <1>2, <1>3

\* Polls do not touch the stores.
LEMMA SmoothRead ==
    ASSUME SmoothInv, UNCHANGED <<events, rows, session, writer>>, ClientsInOrder'
    PROVE  SmoothInv'
BY DEF SmoothInv, OneWriter, TableInOrder, ToldInOrder, Storing

LEMMA SmoothLoad ==
    ASSUME TypeOK, SmoothInv, NEW c \in Clients, Load(c)
    PROVE  ClientsInOrder'
<1>1. events \in Nat /\ cursor \in [Clients -> Nat] /\ seen \in [Clients -> SUBSET (1..events)]
  BY DEF TypeOK
<1>2. Read(RowsRead(c), events) = 1..events /\ \A e \in 1..events : SeqRead(c, e) = e
  BY OrderlyRead DEF SmoothInv
<1>3. {SeqRead(c, e) : e \in 1..events} = 1..events
  BY <1>2
<1>4. MaxOf(1..events) = events
  <2>1. 1..events \subseteq Nat /\ \A n \in 1..events : n <= events
    BY <1>1
  <2>2. MaxOf(1..events) \in 0..events /\ (1..events # {} => MaxOf(1..events) \in 1..events)
        /\ \A n \in 1..events : n <= MaxOf(1..events)
    BY <1>1, <2>1, MaxOfType
  <2> QED  BY <1>1, <2>2
<1>5. seen' = [seen EXCEPT ![c] = 1..events] /\ cursor' = [cursor EXCEPT ![c] = events]
      /\ UNCHANGED events
  BY <1>2, <1>3, <1>4 DEF Load, storeVars
<1> QED  BY <1>1, <1>5 DEF SmoothInv, ClientsInOrder

LEMMA SmoothStep ==
    ASSUME IInv, Next, smooth'
    PROVE  smooth /\ SmoothInv'
<1>1. ASSUME NEW p \in Procs, Tell(p) PROVE smooth /\ SmoothInv'
  <2>1. smooth
    BY <1>1 DEF Tell, MayWrite
  <2> QED  BY <1>1, <2>1, SmoothTell DEF IInv
<1>2. ASSUME NEW p \in Procs, Store(p) PROVE smooth /\ SmoothInv'
  <2>1. smooth
    BY <1>2 DEF Store, MayWrite
  <2> QED  BY <1>2, <2>1, SmoothStore DEF IInv
<1>3. ASSUME NEW p \in Procs, Number(p) PROVE smooth /\ SmoothInv'
  <2>1. smooth
    BY <1>3 DEF Number, historyVars
  <2> QED  BY <1>3, <2>1, SmoothNumber DEF IInv
<1>4. ASSUME NEW p \in Procs, Mirror(p) PROVE smooth /\ SmoothInv'
  <2>1. smooth
    BY <1>4 DEF Mirror, historyVars
  <2> QED  BY <1>4, <2>1, SmoothMirror DEF IInv
<1>5. ASSUME NEW p \in Procs, Refuse(p) PROVE FALSE
  <2>1. smooth /\ session = "none" /\ writer[p].pc # "idle"
    BY <1>5 DEF Refuse, historyVars
  <2> QED  BY <2>1 DEF IInv, SmoothInv, OneWriter
<1>6. ASSUME NEW p \in Procs, MirrorFails(p) PROVE FALSE
  BY <1>6 DEF MirrorFails
<1>7. ASSUME NEW p \in Procs, Create(p) \/ StartRun(p) \/ EndRun(p) PROVE smooth /\ SmoothInv'
  <2>1. smooth
    BY <1>7 DEF Create, StartRun, EndRun, historyVars
  <2> QED  BY <1>7, <2>1, SmoothSession DEF IInv
<1>8. ASSUME NEW c \in Clients,
             (\E p \in Procs, m \in Streams \cup {"load"} : Connect(c, p, m))
             \/ PollSession(c) \/ PollRows(c)
      PROVE  smooth /\ SmoothInv'
  <2>1. UNCHANGED <<events, rows, session, writer, cursor, seen, smooth>>
    BY <1>8 DEF Connect, PollSession, PollRows, storeVars, historyVars
  <2>2. smooth /\ SmoothInv
    BY <2>1 DEF IInv
  <2>3. ClientsInOrder'
    BY <2>1, <2>2 DEF SmoothInv, ClientsInOrder
  <2> QED  BY <2>1, <2>2, <2>3, SmoothRead
<1>9. ASSUME NEW c \in Clients, Stream(c) \/ Break(c) PROVE smooth /\ SmoothInv'
  <2>1. UNCHANGED <<events, rows, session, writer, smooth>>
    BY <1>9 DEF Stream, Break, storeVars, historyVars
  <2>2. TypeOK /\ smooth /\ SmoothInv /\ TableInOrder /\ ClientsInOrder
    BY <2>1 DEF IInv, SmoothInv
  <2>3. \E k \in Nat : Send(c, First(c, k))
    BY <1>9, EventsAssumption DEF Stream, Break
  <2>4. ClientsInOrder'
    BY <2>1, <2>2, <2>3, SendOrderly
  <2> QED  BY <2>1, <2>2, <2>4, SmoothRead
<1>10. ASSUME NEW c \in Clients, Load(c) PROVE smooth /\ SmoothInv'
  <2>1. UNCHANGED <<events, rows, session, writer, smooth>>
    BY <1>10 DEF Load, storeVars, historyVars
  <2>2. TypeOK /\ smooth /\ SmoothInv
    BY <2>1 DEF IInv
  <2>3. ClientsInOrder'
    BY <1>10, <2>2, SmoothLoad
  <2> QED  BY <2>1, <2>2, <2>3, SmoothRead
<1> QED  BY <1>1, <1>2, <1>3, <1>4, <1>5, <1>6, <1>7, <1>8, <1>9, <1>10 DEF Next, Write, Poll

-----------------------------------------------------------------------------
(***************************************************************************)
(* The theorems.                                                           *)
(***************************************************************************)
LEMMA Stutter ==
    ASSUME IInv, UNCHANGED vars
    PROVE  IInv'
BY DEF IInv, vars, storeVars, clientVars, historyVars, TypeOK, Bounded, SmoothInv, OneWriter,
       TableInOrder, ToldInOrder, ClientsInOrder, Storing

LEMMA Inductive == Spec => []IInv
<1>1. Init => IInv
  BY TypeInit, SmoothInit DEF IInv
<1>2. IInv /\ [Next]_vars => IInv'
  <2>1. ASSUME IInv, Next PROVE IInv'
    <3>1. TypeOK' /\ Bounded'
      BY <2>1, TypeStep DEF IInv
    <3>2. smooth' => SmoothInv'
      BY <2>1, SmoothStep
    <3> QED  BY <3>1, <3>2 DEF IInv
  <2> QED  BY <2>1, Stutter
<1> QED  BY <1>1, <1>2, PTL DEF Spec

\* Whatever processes and clients do and whatever fails, stores, writers,
\* connections and clients keep their types.
THEOREM EventsTypeCorrect == Spec => []TypeOK
<1>1. IInv => TypeOK
  BY DEF IInv
<1> QED  BY <1>1, Inductive, PTL

\* Until an awkward schedule happens, a client that polls, breaks off and comes
\* back has exactly what a replay holds up to its cursor.
THEOREM LiveReplay == Spec => []LiveIsReplay
<1>1. IInv => LiveIsReplay
  <2> SUFFICES ASSUME IInv, smooth, NEW c \in Clients
               PROVE  seen[c] = {e \in 1..events : SeqIn(rows, events, e) <= cursor[c]}
    BY DEF LiveIsReplay
  <2>1. TypeOK /\ TableInOrder /\ ClientsInOrder
    BY DEF IInv, SmoothInv
  <2>2. events \in Nat /\ Len(rows) \in Nat /\ Len(rows) <= events
    BY <2>1, TableLength DEF TypeOK
  <2>3. InOrder(rows, Len(rows))
    BY <2>1 DEF TableInOrder
  <2>4. \A e \in 1..events : SeqIn(rows, events, e) = e
    BY <2>2, <2>3, OrderlySeq
  <2>5. cursor[c] \in Nat /\ cursor[c] <= events /\ seen[c] = 1..cursor[c]
    BY <2>1 DEF TypeOK, ClientsInOrder
  <2> QED  BY <2>2, <2>4, <2>5
<1> QED  BY <1>1, Inductive, PTL

\* The printer and the store agree on the number of an event.
THEOREM ToldSeqStored == Spec => []ToldSeqIsStored
<1>1. IInv => ToldSeqIsStored
  <2> SUFFICES ASSUME IInv, smooth, NEW p \in Procs,
                      writer[p].pc = "numbered", writer[p].told # 0
               PROVE  writer[p].told = writer[p].seq
    BY DEF ToldSeqIsStored
  <2>1. Storing(p)
    BY DEF Storing
  <2> QED  BY <2>1 DEF IInv, SmoothInv, TableInOrder, ToldInOrder
<1> QED  BY <1>1, Inductive, PTL

\* An event stream that says done has sent the run it announces the end of.
THEOREM DoneIsComplete == Spec => DoneSawRun
<1>1. IInv /\ [Next]_vars =>
         [\A c \in Clients :
            (~ Finished(c) /\ Finished(c)' /\ smooth /\ Cardinality(Pending(c)) <= PageSize)
                => 1..atEnd \subseteq seen'[c]]_vars
  <2> SUFFICES ASSUME IInv, Next, NEW c \in Clients, ~ Finished(c), Finished(c)', smooth,
                      Cardinality(Pending(c)) <= PageSize
               PROVE  1..atEnd \subseteq seen'[c]
    OBVIOUS
  <2>1. TypeOK /\ TableInOrder /\ ClientsInOrder
    BY DEF IInv, SmoothInv
  <2>2. Stream(c)
    <3>1. reader[c].mode # "done" /\ reader'[c].mode = "done" /\ reader \in [Clients -> Connection]
      BY <2>1 DEF Finished, TypeOK, Connection
    <3>2. ASSUME UNCHANGED reader PROVE FALSE
      BY <3>1, <3>2
    <3>3. ASSUME NEW d \in Clients, d # c, NEW r, reader' = [reader EXCEPT ![d] = r] PROVE FALSE
      BY <3>1, <3>3
    <3>4. ASSUME NEW r, r.mode # "done", reader' = [reader EXCEPT ![c] = r] PROVE FALSE
      BY <3>1, <3>4
    <3>5. ASSUME NEW d \in Clients, NEW p \in Procs, NEW m \in Streams \cup {"load"}, Connect(d, p, m)
          PROVE FALSE
      <4>1. [NoConnection(m) EXCEPT !.at = p].mode # "done"
        BY DEF NoConnection, Streams
      <4>2. reader' = [reader EXCEPT ![d] = [NoConnection(m) EXCEPT !.at = p]]
        BY <3>5 DEF Connect
      <4> HIDE DEF NoConnection
      <4> QED  BY <3>3, <3>4, <4>1, <4>2
    <3>6. ASSUME NEW d \in Clients, PollSession(d) \/ PollRows(d) PROVE FALSE
      <4>1. \E q \in {"session", "rows"} : \E t, n :
               reader' = [reader EXCEPT ![d] = [reader[d] EXCEPT !.pc = q, !.status = t, !.rows = n]]
        <5>1. reader[d] \in Connection
          BY <3>1
        <5>2. CASE PollSession(d)
          <6>1. reader' = [reader EXCEPT ![d] = [reader[d] EXCEPT !.pc = "session", !.status = session,
                                                                  !.rows = reader[d].rows]]
            BY <5>1, <5>2 DEF PollSession, Connection
          <6> QED  BY <6>1
        <5>3. CASE PollRows(d)
          <6>1. reader' = [reader EXCEPT ![d] = [reader[d] EXCEPT !.pc = "rows", !.status = reader[d].status,
                                                                  !.rows = Len(rows)]]
            BY <5>1, <5>3 DEF PollRows, Connection
          <6> QED  BY <6>1
        <5> QED  BY <3>6, <5>2, <5>3
      <4>2. \A e \in Clients : reader'[e].mode = reader[e].mode
        BY <3>1, <4>1 DEF Connection
      <4> QED  BY <3>1, <4>2
    <3>7. ASSUME NEW d \in Clients, Break(d) \/ Load(d) PROVE FALSE
      <4>1. NoConnection("off").mode # "done" /\ reader' = [reader EXCEPT ![d] = NoConnection("off")]
        BY <3>7 DEF NoConnection, Break, Load
      <4> HIDE DEF NoConnection
      <4> QED  BY <3>3, <3>4, <4>1
    <3>8. ASSUME NEW d \in Clients, Stream(d) PROVE d = c
      BY <3>1, <3>8 DEF Stream
    <3>9. ASSUME NEW p \in Procs,
                 Tell(p) \/ Write(p) \/ MirrorFails(p) \/ Create(p) \/ StartRun(p) \/ EndRun(p)
          PROVE  FALSE
      BY <3>2, <3>9 DEF Tell, Write, Store, Number, Mirror, Refuse, MirrorFails, Create, StartRun,
                        EndRun, clientVars
    <3> QED  BY <3>5, <3>6, <3>7, <3>8, <3>9 DEF Next, Poll
  <2>3. Send(c, First(c, PageSize)) /\ UNCHANGED <<events, atEnd>>
    BY <2>2 DEF Stream, storeVars, historyVars
  <2>4. events \in Nat /\ cursor[c] \in Nat /\ cursor[c] <= events
        /\ atEnd \in Nat /\ atEnd <= events /\ PageSize \in Nat
    BY <2>1, EventsAssumption DEF TypeOK, ClientsInOrder
  <2>5. Cardinality(Pending(c)) = events - cursor[c]
    <3>1. Pending(c) = cursor[c] + 1 .. events
      BY <2>1, OrderlyPending
    <3>2. Cardinality(cursor[c] + 1 .. events)
          = IF cursor[c] + 1 > events THEN 0 ELSE events - (cursor[c] + 1) + 1
      <4>1. cursor[c] + 1 \in Int /\ events \in Int
        BY <2>4
      <4> QED  BY <4>1, FS_Interval
    <3> QED  BY <2>4, <3>1, <3>2
  <2>6. cursor[c] + PageSize >= events
    BY <2>4, <2>5
  <2>7. ClientsInOrder' /\ cursor'[c] = events
    BY <2>1, <2>3, <2>4, <2>6, SendOrderly
  <2>8. seen'[c] = 1..events
    BY <2>7 DEF ClientsInOrder
  <2> QED  BY <2>4, <2>8
<1> QED  BY <1>1, Inductive, PTL DEF Spec, DoneSawRun

\* Loading the session recovers every event, whatever became of its mirror.
THEOREM LoadComplete == Spec => LoadRecovers
<1>1. IInv /\ [Next]_vars => [\A c \in Clients : Load(c) => seen'[c] = 1..events]_vars
  <2> SUFFICES ASSUME IInv, NEW c \in Clients, Load(c) PROVE seen'[c] = 1..events
    OBVIOUS
  <2>1. Read(RowsRead(c), events) = 1..events /\ seen \in [Clients -> SUBSET (1..events)]
    BY ReadBounded DEF IInv, TypeOK
  <2> QED  BY <2>1 DEF Load
<1> QED  BY <1>1, Inductive, PTL DEF Spec, LoadRecovers

-----------------------------------------------------------------------------
(***************************************************************************)
(* The refinement: the store is the log, and what clients have their view. *)
(***************************************************************************)
\* A page of a stream shows a longer prefix until an awkward schedule happens;
\* after that it shows some events that were committed.
LEMMA PageShown ==
    ASSUME IInv, NEW c \in Clients, NEW k \in Nat, Send(c, First(c, k)),
           UNCHANGED <<events, smooth>>
    PROVE  Log!Show(c) \/ Log!Skip(c)
<1>1. events \in Nat /\ seen \in [Clients -> SUBSET (1..events)]
  BY DEF IInv, TypeOK
<1>2. seen' = [seen EXCEPT ![c] = @ \cup First(c, k)]
  BY DEF Send
<1>3. CASE smooth
  <2>1. TypeOK /\ TableInOrder /\ ClientsInOrder
    BY <1>3 DEF IInv, SmoothInv
  <2>2. ClientsInOrder'
    BY <2>1, SendOrderly
  <2>3. /\ cursor'[c] \in 0..events /\ seen'[c] = 1..cursor'[c]
    <3>1. cursor' \in [Clients -> Nat]
      <4>1. First(c, k) \subseteq Pending(c)
        BY DEF First
      <4> QED  BY <4>1, SendTyped DEF IInv
    <3> QED  BY <1>1, <2>2, <3>1 DEF ClientsInOrder
  <2>4. seen' = [seen EXCEPT ![c] = 1..cursor'[c]] /\ seen[c] \subseteq 1..cursor'[c]
    BY <1>1, <1>2, <2>3
  <2> QED  BY <2>3, <2>4 DEF Log!Show
<1>4. CASE ~ smooth
  <2>1. First(c, k) \in SUBSET (1..events)
    BY ReadBounded DEF First, Pending, IInv
  <2> QED  BY <1>2, <1>4, <2>1 DEF Log!Skip
<1> QED  BY <1>3, <1>4

\* A load shows the whole log, whatever has happened.
LEMMA LoadShown ==
    ASSUME IInv, NEW c \in Clients, Load(c)
    PROVE  Log!Show(c)
<1>1. events \in Nat /\ seen \in [Clients -> SUBSET (1..events)]
  BY DEF IInv, TypeOK
<1>2. seen' = [seen EXCEPT ![c] = 1..events] /\ UNCHANGED <<events, smooth>>
  BY ReadBounded DEF IInv, Load, storeVars, historyVars
<1>3. events \in 0..events /\ seen[c] \subseteq 1..events
  BY <1>1
<1> QED  BY <1>2, <1>3 DEF Log!Show

LEMMA StepImplements ==
    ASSUME IInv, [Next]_vars
    PROVE  [Log!Next]_(Log!vars)
<1>1. smooth \in BOOLEAN
  BY DEF IInv, TypeOK
<1>2. ASSUME UNCHANGED <<events, seen>>, UNCHANGED smooth \/ smooth' = FALSE
      PROVE  [Log!Next]_(Log!vars)
  BY <1>2 DEF Log!Next, Log!Upset, Log!vars
<1>3. ASSUME NEW p \in Procs, MayWrite(p)  PROVE UNCHANGED smooth \/ smooth' = FALSE
  BY <1>1, <1>3 DEF MayWrite
<1>4. ASSUME NEW p \in Procs, Store(p)  PROVE Log!Add
  BY <1>3, <1>4 DEF Store, clientVars, Log!Add
<1>5. ASSUME NEW p \in Procs,
             Tell(p) \/ Number(p) \/ Mirror(p) \/ Refuse(p) \/ MirrorFails(p)
      PROVE  UNCHANGED <<events, seen>> /\ (UNCHANGED smooth \/ smooth' = FALSE)
  BY <1>3, <1>5 DEF Tell, Number, Mirror, Refuse, MirrorFails, storeVars, clientVars, historyVars
<1>6. ASSUME NEW p \in Procs, Create(p) \/ StartRun(p) \/ EndRun(p)
      PROVE  UNCHANGED <<events, seen>> /\ (UNCHANGED smooth \/ smooth' = FALSE)
  BY <1>1, <1>6 DEF Create, StartRun, EndRun, clientVars, historyVars
<1>7. ASSUME NEW c \in Clients,
             \/ \E p \in Procs, m \in Streams \cup {"load"} : Connect(c, p, m)
             \/ PollSession(c) \/ PollRows(c)
      PROVE  UNCHANGED <<events, seen, smooth>>
  BY <1>7 DEF Connect, PollSession, PollRows, storeVars, historyVars
<1>8. ASSUME NEW c \in Clients, Stream(c) \/ Break(c)  PROVE Log!Show(c) \/ Log!Skip(c)
  <2>1. \E k \in Nat : Send(c, First(c, k))
    <3>1. PageSize \in Nat /\ 0..(PageSize - 1) \subseteq Nat
      BY EventsAssumption
    <3> QED  BY <1>8, <3>1 DEF Stream, Break
  <2>2. UNCHANGED <<events, smooth>>
    BY <1>8 DEF Stream, Break, storeVars, historyVars
  <2> QED  BY <2>1, <2>2, PageShown
<1>9. CASE UNCHANGED vars
  BY <1>2, <1>9 DEF vars, storeVars, clientVars, historyVars
<1> QED
  BY <1>2, <1>4, <1>5, <1>6, <1>7, <1>8, <1>9, LoadShown
  DEF Next, Write, Poll, Log!Next

\* Whatever processes do at once and whatever fails, a client keeps every event
\* it was shown; until an awkward schedule happens it has a prefix of the events
\* of the session, and a load gives it all of them at any time
\* (session_view_service.py, the streams of app.py, loadSession).
THEOREM Implementation == Spec => ImplementsLog
<1>1. Init => Log!Init
  BY DEF Init, Log!Init
<1>2. IInv /\ [Next]_vars => [Log!Next]_(Log!vars)
  BY StepImplements
<1> QED  BY <1>1, <1>2, Inductive, PTL DEF Spec, ImplementsLog, Log!Spec
=============================================================================
