---------------------------- MODULE MarketProofs ----------------------------
(***************************************************************************)
(* Market: once the process has started, only tools of configured servers  *)
(* are in the snapshot, whatever threads refresh it; and the snapshot file *)
(* is whole whenever the process may die, as long as refreshes do not      *)
(* overlap.                                                                *)
(***************************************************************************)
EXTENDS Market, FiniteSetTheorems, SequenceTheorems, TLAPS

\* Two blocks of a snapshot are of different servers; so the tools of a server
\* can be taken out of it by removing one block.
OneEach(blocks) == \A i, j \in DOMAIN blocks : blocks[i].srv = blocks[j].srv => i = j

\* The servers a snapshot has tools of are among these.
From(blocks, servers) == \A i \in DOMAIN blocks : blocks[i].srv \in servers

Sound ==
    /\ OneEach(snap) /\ OneEach(tmp.blocks) /\ OneEach(file.blocks)
    /\ \A t \in Threads : OneEach(job[t].got) /\ OneEach(job[t].payload)

\* What a refresh has fetched is of servers that are configured and were asked;
\* the refresh of one server has what it answered, if it did.
Fetched ==
    \A t \in Threads :
        /\ job[t].todo \subseteq configured
        /\ From(job[t].got, configured \ job[t].todo)
        /\ job[t].one => /\ \E s \in ServerSet : job[t].todo \cup job[t].ok \subseteq {s}
                         /\ From(job[t].got, job[t].ok)

\* The refresh at boot replaces what was loaded from the file, and init_registry
\* returns when that refresh is over.
Booting ==
    /\ booted <=> job[Boot].pc = "idle"
    /\ ~ booted => ~ job[Boot].one /\ ~ job[Boot].keep
    /\ booted \/ job[Boot].pc \in {"save", "write", "replace"} => From(snap, configured)

\* One thread at a time is in the middle of a refresh.
OneRefresh == \A t, u \in Threads : job[t].pc # "idle" /\ job[u].pc # "idle" => t = u

\* It writes the temporary file, which it has emptied, and renames it when it is
\* whole.
Saving ==
    \A t \in Threads :
        /\ job[t].pc = "write" => job[t].fd = "tmp" /\ tmp = Empty
        /\ job[t].pc = "replace" => tmp.kind = "whole"

Alone == ~ overlap => OneRefresh /\ Saving /\ file.kind \in {"absent", "whole"}

IInv == TypeOK /\ Sound /\ Fetched /\ Booting /\ Alone

-----------------------------------------------------------------------------
(***************************************************************************)
(* Snapshots.                                                              *)
(***************************************************************************)
LEMMA NoBlocks ==
  ASSUME NEW S
  PROVE  <<>> \in Blocks /\ OneEach(<<>>) /\ From(<<>>, S)
BY DEF Blocks, OneEach, From

LEMMA AppendBlock ==
  ASSUME NEW bs \in Blocks, NEW S, NEW b \in Block, OneEach(bs), From(bs, S), b.srv \notin S
  PROVE  /\ Append(bs, b) \in Blocks /\ OneEach(Append(bs, b))
         /\ From(Append(bs, b), S \cup {b.srv})
<1>1. /\ Append(bs, b) \in Seq(Block) /\ Len(Append(bs, b)) = Len(bs) + 1
      /\ \A i \in 1 .. Len(bs) : Append(bs, b)[i] = bs[i]
      /\ Append(bs, b)[Len(bs) + 1] = b
  BY AppendProperties DEF Blocks
<1>2. /\ Len(bs) \in Nat /\ DOMAIN bs = 1 .. Len(bs)
      /\ DOMAIN Append(bs, b) = 1 .. Len(bs) + 1
  BY <1>1, LenProperties DEF Blocks
<1>3. \A i \in 1 .. Len(bs) : Append(bs, b)[i].srv \in S
  BY <1>1, <1>2 DEF From
<1>4. OneEach(Append(bs, b))
  BY <1>1, <1>2, <1>3 DEF OneEach
<1> QED  BY <1>1, <1>2, <1>3, <1>4 DEF Blocks, From

LEMMA JoinBlocks ==
  ASSUME NEW xs \in Blocks, NEW bs \in Blocks, NEW S, NEW T,
         OneEach(xs), OneEach(bs), From(xs, S), From(bs, T), S \cap T = {}
  PROVE  xs \o bs \in Blocks /\ OneEach(xs \o bs) /\ From(xs \o bs, S \cup T)
<1> DEFINE es == xs \o bs
<1>1. /\ es \in Seq(Block) /\ Len(es) = Len(xs) + Len(bs)
      /\ \A i \in 1 .. Len(xs) + Len(bs) :
            es[i] = IF i <= Len(xs) THEN xs[i] ELSE bs[i - Len(xs)]
  BY ConcatProperties DEF Blocks
<1> HIDE DEF es
<1>2. /\ Len(xs) \in Nat /\ DOMAIN xs = 1 .. Len(xs)
      /\ Len(bs) \in Nat /\ DOMAIN bs = 1 .. Len(bs)
      /\ DOMAIN es = 1 .. Len(xs) + Len(bs)
  BY <1>1, LenProperties DEF Blocks
<1>3. \A i \in DOMAIN es :
         \/ i \in DOMAIN xs /\ es[i] = xs[i]
         \/ /\ i \in Int /\ i - Len(xs) \in DOMAIN bs
            /\ es[i] = bs[i - Len(xs)]
  <2> TAKE i \in DOMAIN es
  <2>1. i \in Int /\ 1 <= i /\ i <= Len(xs) + Len(bs)
    BY <1>2
  <2>2. es[i] = IF i <= Len(xs) THEN xs[i] ELSE bs[i - Len(xs)]
    BY <1>1, <1>2
  <2>3. CASE i <= Len(xs)
    BY <1>2, <2>1, <2>2, <2>3
  <2>4. CASE ~ (i <= Len(xs))
    BY <1>2, <2>1, <2>2, <2>4
  <2> QED  BY <2>3, <2>4
<1>4. From(es, S \cup T)
  BY <1>3 DEF From
<1>5. ASSUME NEW i \in DOMAIN es, NEW j \in DOMAIN es,
             es[i].srv = es[j].srv
      PROVE  i = j
  <2>1. CASE i \in DOMAIN xs /\ es[i] = xs[i] /\ j \in DOMAIN xs /\ es[j] = xs[j]
    BY <1>5, <2>1 DEF OneEach
  <2>2. CASE /\ i \in Int /\ j \in Int /\ i - Len(xs) \in DOMAIN bs /\ es[i] = bs[i - Len(xs)]
             /\ j - Len(xs) \in DOMAIN bs /\ es[j] = bs[j - Len(xs)]
    <3>1. i - Len(xs) = j - Len(xs)
      BY <1>5, <2>2 DEF OneEach
    <3> QED  BY <1>2, <2>2, <3>1
  <2>3. CASE /\ i \in DOMAIN xs /\ es[i] = xs[i]
             /\ j - Len(xs) \in DOMAIN bs /\ es[j] = bs[j - Len(xs)]
    BY <1>5, <2>3 DEF From
  <2>4. CASE /\ j \in DOMAIN xs /\ es[j] = xs[j]
             /\ i - Len(xs) \in DOMAIN bs /\ es[i] = bs[i - Len(xs)]
    BY <1>5, <2>4 DEF From
  <2> QED  BY <1>3, <2>1, <2>2, <2>3, <2>4
<1> QED  BY <1>1, <1>4, <1>5 DEF Blocks, OneEach, es

\* Without(blocks, servers) has the blocks of the other servers.
LEMMA WithoutServers ==
  ASSUME NEW bs \in Blocks, NEW S, NEW T, NEW s, S \subseteq {s}, OneEach(bs), From(bs, T)
  PROVE  /\ Without(bs, S) \in Blocks /\ OneEach(Without(bs, S))
         /\ From(Without(bs, S), T \ S)
<1> DEFINE of == {i \in DOMAIN bs : bs[i].srv \in S}
           n == CHOOSE i \in of : TRUE
<1>1. Len(bs) \in Nat /\ DOMAIN bs = 1 .. Len(bs) /\ bs \in Seq(Block)
  BY LenProperties DEF Blocks
<1>2. CASE of = {}
  <2>1. Without(bs, S) = bs
    BY <1>2 DEF Without
  <2> QED  BY <1>2, <2>1 DEF From
<1>3. CASE of # {}
  <2>1. n \in of /\ n \in 1 .. Len(bs) /\ bs[n].srv = s
    BY <1>1, <1>3
  <2> HIDE DEF n
  <2> DEFINE xs == SubSeq(bs, 1, n - 1)
             ys == SubSeq(bs, n + 1, Len(bs))
  <2>2. Without(bs, S) = xs \o ys
    BY <1>3 DEF Without, RemoveAt, n
  <2>3. xs \in Blocks /\ Len(xs) = n - 1 /\ \A i \in 1 .. n - 1 : xs[i] = bs[i]
    BY <1>1, <2>1, SubSeqProperties DEF Blocks
  <2>4. /\ ys \in Blocks /\ Len(ys) = Len(bs) - n
        /\ \A i \in 1 .. Len(bs) - n : ys[i] = bs[n + i]
    BY <1>1, <2>1, SubSeqProperties DEF Blocks
  <2> HIDE DEF xs, ys
  <2> DEFINE es == xs \o ys
  <2>5. /\ es \in Blocks /\ Len(es) = Len(bs) - 1
        /\ \A i \in 1 .. Len(bs) - 1 : es[i] = IF i < n THEN bs[i] ELSE bs[i + 1]
    <3>1. /\ es \in Seq(Block) /\ Len(es) = Len(xs) + Len(ys)
          /\ \A i \in 1 .. Len(xs) + Len(ys) :
                es[i] = IF i <= Len(xs) THEN xs[i] ELSE ys[i - Len(xs)]
      BY <2>3, <2>4, ConcatProperties DEF Blocks
    <3> HIDE DEF es
    <3>2. Len(es) = Len(bs) - 1
      BY <1>1, <2>1, <2>3, <2>4, <3>1
    <3>3. ASSUME NEW i \in 1 .. Len(bs) - 1
          PROVE  es[i] = IF i < n THEN bs[i] ELSE bs[i + 1]
      <4>1. es[i] = IF i <= n - 1 THEN xs[i] ELSE ys[i - (n - 1)]
        BY <1>1, <2>1, <2>3, <2>4, <3>1
      <4>2. CASE i < n
        BY <1>1, <2>1, <2>3, <4>1, <4>2
      <4>3. CASE ~ (i < n)
        <5>1. i - (n - 1) \in 1 .. Len(bs) - n /\ n + (i - (n - 1)) = i + 1
          BY <1>1, <2>1, <4>3
        <5> QED  BY <1>1, <2>1, <2>4, <4>1, <4>3, <5>1
      <4> QED  BY <4>2, <4>3
    <3> QED  BY <3>1, <3>2, <3>3 DEF Blocks
  <2> HIDE DEF es
  <2>6. DOMAIN es = 1 .. Len(bs) - 1
    BY <2>5, LenProperties DEF Blocks
  <2> DEFINE k(i) == IF i < n THEN i ELSE i + 1
  <2>7. ASSUME NEW i \in DOMAIN es
        PROVE  i \in Int /\ k(i) \in DOMAIN bs /\ k(i) # n /\ es[i] = bs[k(i)]
    <3>1. i \in Int /\ 1 <= i /\ i <= Len(bs) - 1 /\ n \in Int /\ 1 <= n /\ n <= Len(bs)
      BY <1>1, <2>1, <2>6
    <3>2. es[i] = IF i < n THEN bs[i] ELSE bs[i + 1]
      BY <2>5, <2>6
    <3> QED  BY <1>1, <3>1, <3>2
  <2>8. \A i \in DOMAIN bs : i # n => bs[i].srv \in T \ S
    BY <2>1 DEF OneEach, From
  <2>9. From(es, T \ S)
    BY <2>7, <2>8 DEF From
  <2>10. OneEach(es)
    <3> SUFFICES ASSUME NEW i \in DOMAIN es, NEW j \in DOMAIN es,
                        es[i].srv = es[j].srv
                 PROVE  i = j
      BY DEF OneEach
    <3>1. k(i) = k(j)
      <4>1. k(i) \in DOMAIN bs /\ k(j) \in DOMAIN bs /\ bs[k(i)].srv = bs[k(j)].srv
        BY <2>7
      <4> QED  BY <4>1 DEF OneEach
    <3>2. i \in Int /\ j \in Int /\ n \in Int
      BY <1>1, <2>1, <2>7
    <3> QED  BY <3>1, <3>2
  <2> QED  BY <2>2, <2>5, <2>9, <2>10 DEF es
<1> QED  BY <1>2, <1>3

-----------------------------------------------------------------------------
(***************************************************************************)
(* Jobs.                                                                   *)
(***************************************************************************)
LEMMA JobKinds ==
  ASSUME NEW c \in SUBSET ServerSet
  PROVE  /\ NoJob \in Job /\ BootJob(c) \in Job
         /\ NoJob.pc = "idle" /\ ~ NoJob.one /\ NoJob.todo = {} /\ NoJob.got = <<>>
         /\ NoJob.payload = <<>> /\ NoJob.fd = "none" /\ NoJob.ok = {}
         /\ BootJob(c).pc = "fetch" /\ ~ BootJob(c).one /\ ~ BootJob(c).keep
         /\ BootJob(c).todo = c /\ BootJob(c).got = <<>> /\ BootJob(c).payload = <<>>
         /\ BootJob(c).fd = "none" /\ BootJob(c).ok = {}
<1>1. <<>> \in Blocks
  BY NoBlocks
<1> QED  BY <1>1 DEF NoJob, BootJob, Job

\* The file an idle, fetching or publishing thread has open is none.
LEMMA OneJob ==
  ASSUME TypeOK, NEW t \in Threads, NEW j \in Job, job' = [job EXCEPT ![t] = j],
         j.fd = "none" <=> j.pc # "write"
  PROVE  /\ job' \in [Threads -> Job] /\ job'[t] = j
         /\ \A u \in Threads : u # t => job'[u] = job[u]
         /\ \A u \in Threads : job'[u].fd = "none" <=> job'[u].pc # "write"
BY DEF TypeOK

\* A refresh begins when no other is under way.
LEMMA BeginsAlone ==
  ASSUME NEW t \in Threads, Begins(t), ~ overlap
  PROVE  \A u \in Threads : job[u].pc = "idle"
<1> DEFINE S == {u \in Threads : job[u].pc # "idle"}
<1>1. IsFiniteSet(Threads)
  <2>1. IsFiniteSet({Loop})
    BY FS_Singleton
  <2>2. IsFiniteSet({Loop} \cup {Boot})
    BY <2>1, FS_AddElement
  <2>3. Threads = ({Loop} \cup {Boot}) \cup Requests
    BY DEF Threads
  <2>4. IsFiniteSet(Requests)
    BY MarketAssumption
  <2> QED  BY <2>2, <2>3, <2>4, FS_Union
<1>2. IsFiniteSet(S)
  BY <1>1, FS_Subset
<1>3. Cardinality(S) < 1
  BY DEF Begins
<1>4. Cardinality(S) \in Nat
  BY <1>2, FS_CardinalityType
<1>5. Cardinality(S) = 0
  BY <1>3, <1>4
<1>6. S = {}
  BY <1>2, <1>5, FS_EmptySet
<1> QED  BY <1>6

\* A refresh that begins has fetched nothing yet.
LEMMA BeginInv ==
  ASSUME IInv, NEW t \in Threads, Begins(t), t # Boot, NEW j \in Job,
         job' = [job EXCEPT ![t] = j], j.pc = "fetch", j.fd = "none",
         j.todo \subseteq configured, j.got = <<>>, j.payload = <<>>,
         j.one => \E s \in ServerSet : j.todo \cup j.ok \subseteq {s},
         UNCHANGED <<env, process, snap, disk>>
  PROVE  IInv'
<1>1. /\ job' \in [Threads -> Job] /\ job'[t] = j
      /\ \A u \in Threads : u # t => job'[u] = job[u]
      /\ \A u \in Threads : job'[u].fd = "none" <=> job'[u].pc # "write"
  BY OneJob DEF IInv
<1>2. /\ overlap' = overlap /\ listing' = listing /\ changes' = changes /\ crashes' = crashes
      /\ configured' = configured /\ booted' = booted /\ snap' = snap /\ tmp' = tmp
      /\ file' = file
  BY DEF env, process, disk
<1>3. TypeOK'
  BY <1>1, <1>2 DEF IInv, TypeOK
<1>4. Sound'
  BY <1>1, <1>2, NoBlocks DEF IInv, Sound
<1>5. Fetched'
  BY <1>1, <1>2, NoBlocks DEF IInv, Fetched
<1>6. Booting'
  BY <1>1, <1>2 DEF IInv, Booting, Threads
<1>7. Alone'
  BY <1>1, <1>2, BeginsAlone DEF IInv, Alone, OneRefresh, Saving
<1> QED  BY <1>3, <1>4, <1>5, <1>6, <1>7 DEF IInv

-----------------------------------------------------------------------------
(***************************************************************************)
(* The steps.                                                              *)
(***************************************************************************)
LEMMA InitInv == Init => IInv
<1> SUFFICES ASSUME Init  PROVE IInv
  OBVIOUS
<1>1. configured = ServerSet /\ configured \in SUBSET ServerSet
  BY DEF Init
<1>2. \A t \in Threads : job[t] = IF t = Boot THEN BootJob(configured) ELSE NoJob
  BY DEF Init
<1>3. \A t \in Threads : job[t] \in Job
  <2>1. NoJob \in Job /\ BootJob(configured) \in Job
    BY <1>1, JobKinds
  <2> QED  BY <1>2, <2>1
<1>4. \A t \in Threads : /\ job[t].pc = IF t = Boot THEN "fetch" ELSE "idle"
                         /\ ~ job[t].one /\ job[t].todo \subseteq configured
                         /\ job[t].got = <<>> /\ job[t].payload = <<>> /\ job[t].fd = "none"
  <2>1. NoJob.pc = "idle" /\ BootJob(configured).pc = "fetch"
    BY <1>1, JobKinds
  <2>2. /\ ~ NoJob.one /\ NoJob.todo = {} /\ NoJob.got = <<>> /\ NoJob.payload = <<>>
        /\ NoJob.fd = "none"
    BY JobKinds
  <2>3. /\ ~ BootJob(configured).one /\ BootJob(configured).todo = configured
        /\ BootJob(configured).got = <<>> /\ BootJob(configured).payload = <<>>
        /\ BootJob(configured).fd = "none"
    BY <1>1, JobKinds
  <2> QED  BY <1>2, <2>1, <2>2, <2>3
<1>5. <<>> \in Blocks /\ OneEach(<<>>)
  BY NoBlocks
<1>6. Absent \in File /\ Absent # Mixed /\ Absent.blocks = <<>> /\ Absent.kind = "absent"
  BY <1>5 DEF Absent, Mixed, File
<1>7. /\ overlap \in BOOLEAN /\ booted = FALSE /\ snap = <<>> /\ tmp = Absent /\ file = Absent
      /\ listing \in [ServerSet -> {Down} \cup SUBSET Tools] /\ changes = 0 /\ crashes = 0
  BY DEF Init
<1>8. job \in [Threads -> Job]
  BY <1>3 DEF Init
<1>9. ~ job[Boot].keep /\ Boot \in Threads
  BY <1>1, <1>2, JobKinds DEF Threads
<1>10. TypeOK
  <2>1. configured \in (SUBSET ServerSet) \ {{}}
    BY <1>1, MarketAssumption
  <2>2. \A t \in Threads : job[t].fd = "none" <=> job[t].pc # "write"
    BY <1>4
  <2>3. changes \in 0 .. MaxChanges /\ crashes \in 0 .. MaxCrashes
    BY <1>7, MarketAssumption
  <2> QED  BY <1>5, <1>6, <1>7, <1>8, <2>1, <2>2, <2>3 DEF TypeOK
<1>11. Sound
  BY <1>4, <1>5, <1>6, <1>7 DEF Sound
<1>12. Fetched
  BY <1>4, NoBlocks DEF Fetched
<1>13. Booting
  BY <1>4, <1>7, <1>9 DEF Booting
<1>14. Alone
  BY <1>4, <1>6, <1>7 DEF Alone, OneRefresh, Saving
<1> QED  BY <1>10, <1>11, <1>12, <1>13, <1>14 DEF IInv

LEMMA RefreshInv == ASSUME IInv, NEW t \in Threads, Refresh(t)  PROVE IInv'
<1> DEFINE j == [NoJob EXCEPT !.pc = "fetch", !.todo = configured]
<1>1. configured \in SUBSET ServerSet
  BY DEF IInv, TypeOK
<1>2. /\ j \in Job /\ j.pc = "fetch" /\ j.fd = "none" /\ j.todo = configured
      /\ j.got = <<>> /\ j.payload = <<>> /\ ~ j.one
  BY <1>1, NoBlocks DEF NoJob, Job
<1>3. /\ Begins(t) /\ t # Boot /\ job' = [job EXCEPT ![t] = j]
      /\ UNCHANGED <<env, process, snap, disk>>
  BY DEF Refresh
<1> HIDE DEF j
<1> QED  BY <1>2, <1>3, BeginInv

LEMMA RefreshServerInv ==
  ASSUME IInv, NEW t \in Requests, NEW s \in ServerSet, RefreshServer(t, s)
  PROVE  IInv'
<1> DEFINE j == [NoJob EXCEPT !.pc = "fetch", !.one = TRUE, !.todo = {s}]
<1>1. /\ j \in Job /\ j.pc = "fetch" /\ j.fd = "none" /\ j.todo = {s} /\ j.ok = {}
      /\ j.got = <<>> /\ j.payload = <<>>
  BY NoBlocks DEF NoJob, Job
<1>2. /\ t \in Threads /\ t # Boot
  BY MarketAssumption DEF Threads
<1>3. /\ s \in configured /\ Begins(t) /\ job' = [job EXCEPT ![t] = j]
      /\ UNCHANGED <<env, process, snap, disk>>
  BY DEF RefreshServer
<1> HIDE DEF j
<1>4. j.todo \subseteq configured /\ \E r \in ServerSet : j.todo \cup j.ok \subseteq {r}
  BY <1>1, <1>3
<1> QED  BY <1>1, <1>2, <1>3, <1>4, BeginInv

LEMMA FetchInv == ASSUME IInv, NEW t \in Threads, Fetch(t)  PROVE IInv'
<1>1. PICK s \in job[t].todo :
        LET up == listing[s] # Down IN
        job' = [job EXCEPT
                ![t].todo = @ \ {s},
                ![t].got = IF up /\ listing[s] # {}
                           THEN Append(@, [srv |-> s, tools |-> listing[s]]) ELSE @,
                ![t].ok = IF up /\ job[t].one THEN {s} ELSE @]
  BY DEF Fetch
<1> DEFINE up == listing[s] # Down
           new == up /\ listing[s] # {}
           b == [srv |-> s, tools |-> listing[s]]
           got == IF new THEN Append(job[t].got, b) ELSE job[t].got
           ok == IF up /\ job[t].one THEN {s} ELSE job[t].ok
           j == [job[t] EXCEPT !.todo = @ \ {s}, !.got = got, !.ok = ok]
<1>2. job[t] \in Job /\ job \in [Threads -> Job] /\ s \in ServerSet /\ s \in configured
  BY DEF IInv, TypeOK, Fetched, Job
<1>3. new => b \in Block /\ b.srv = s
  <2> SUFFICES ASSUME new  PROVE b \in Block /\ b.srv = s
    OBVIOUS
  <2>1. listing[s] \in {Down} \cup SUBSET Tools
    BY <1>2 DEF IInv, TypeOK
  <2>2. listing[s] \in (SUBSET Tools) \ {{}}
    BY <2>1
  <2> QED  BY <1>2, <2>2 DEF Block
<1>4. job[t].got \in Blocks /\ OneEach(job[t].got) /\ From(job[t].got, configured \ job[t].todo)
  BY <1>2 DEF IInv, Job, Sound, Fetched
<1> HIDE DEF b
<1>5. /\ got \in Blocks /\ OneEach(got)
      /\ From(got, configured \ (job[t].todo \ {s}))
  <2>1. CASE new
    <3>1. /\ Append(job[t].got, b) \in Blocks /\ OneEach(Append(job[t].got, b))
          /\ From(Append(job[t].got, b), (configured \ job[t].todo) \cup {s})
      BY <1>3, <1>4, <2>1, AppendBlock
    <3> QED  BY <1>2, <2>1, <3>1 DEF From
  <2>2. CASE ~ new
    BY <1>4, <2>2 DEF From
  <2> QED  BY <2>1, <2>2
<1>6. job[t].one => /\ \E r \in ServerSet : (job[t].todo \ {s}) \cup ok \subseteq {r}
                    /\ From(got, ok)
  <2> SUFFICES ASSUME job[t].one
               PROVE  /\ \E r \in ServerSet : (job[t].todo \ {s}) \cup ok \subseteq {r}
                      /\ From(got, ok)
    OBVIOUS
  <2>1. PICK r \in ServerSet : job[t].todo \cup job[t].ok \subseteq {r}
    BY DEF IInv, Fetched
  <2>2. r = s
    BY <2>1
  <2>3. From(job[t].got, job[t].ok) /\ job[t].ok \subseteq {s}
    BY <2>1, <2>2 DEF IInv, Fetched
  <2>4. From(job[t].got, {})
    BY <2>3, <1>4 DEF From
  <2>5. new => From(Append(job[t].got, b), {} \cup {s})
    BY <1>3, <1>4, <2>4, AppendBlock
  <2>6. (job[t].todo \ {s}) \cup ok \subseteq {s}
    BY <2>1, <2>2
  <2>7. From(got, ok)
    <3>1. CASE new
      BY <2>5, <3>1 DEF From
    <3>2. CASE ~ new
      BY <2>4, <3>2 DEF From
    <3> QED  BY <3>1, <3>2
  <2> QED  BY <1>2, <2>6, <2>7
<1> HIDE DEF new, up, got
<1>7. job' = [job EXCEPT ![t] = j]
  BY <1>1, <1>2 DEF got, new, up, b
<1>8. /\ j \in Job /\ j.pc = job[t].pc /\ j.one = job[t].one /\ j.keep = job[t].keep
      /\ j.todo = job[t].todo \ {s} /\ j.got = got /\ j.ok = ok
      /\ j.payload = job[t].payload /\ j.fd = job[t].fd
  BY <1>2, <1>5 DEF Job
<1> HIDE DEF j, ok
<1>9. /\ job[t].pc = "fetch" /\ overlap' = overlap /\ listing' = listing /\ changes' = changes
      /\ crashes' = crashes /\ configured' = configured /\ booted' = booted /\ snap' = snap
      /\ tmp' = tmp /\ file' = file
  BY DEF Fetch, env, process, disk
<1>10. /\ job' \in [Threads -> Job] /\ job'[t] = j
       /\ \A u \in Threads : u # t => job'[u] = job[u]
       /\ \A u \in Threads : job'[u].fd = "none" <=> job'[u].pc # "write"
  <2>1. j.fd = "none" <=> j.pc # "write"
    BY <1>8 DEF IInv, TypeOK
  <2> QED  BY <1>7, <1>8, <2>1, OneJob DEF IInv
<1>11. TypeOK'
  BY <1>9, <1>10 DEF IInv, TypeOK
<1>12. Sound'
  BY <1>5, <1>8, <1>9, <1>10 DEF IInv, Sound
<1>13. Fetched'
  BY <1>5, <1>6, <1>8, <1>9, <1>10 DEF IInv, Fetched
<1>14. Booting'
  BY <1>8, <1>9, <1>10 DEF IInv, Booting, Threads
<1>15. Alone'
  BY <1>8, <1>9, <1>10 DEF IInv, Alone, OneRefresh, Saving
<1> QED  BY <1>11, <1>12, <1>13, <1>14, <1>15 DEF IInv

LEMMA DecideInv == ASSUME IInv, NEW t \in Threads, Decide(t)  PROVE IInv'
<1> DEFINE j == IF KeepLast(t) THEN NoJob ELSE [job[t] EXCEPT !.pc = "publish"]
<1>1. job[t] \in Job /\ job \in [Threads -> Job] /\ {} \in SUBSET ServerSet
  BY DEF IInv, TypeOK
<1>2. /\ j \in Job /\ j.fd = "none" /\ j.pc \in {"idle", "publish"}
      /\ j.pc = "idle" => KeepLast(t)
      /\ j.pc = "idle" => j.todo = {} /\ j.got = <<>> /\ j.payload = <<>> /\ ~ j.one
      /\ j.pc = "publish" => /\ j.todo = job[t].todo /\ j.got = job[t].got /\ j.ok = job[t].ok
                             /\ j.payload = job[t].payload /\ j.one = job[t].one
                             /\ j.keep = job[t].keep
  <2>1. CASE KeepLast(t)
    BY <1>1, <2>1, JobKinds
  <2>2. CASE ~ KeepLast(t)
    <3>1. j = [job[t] EXCEPT !.pc = "publish"]
      BY <2>2
    <3>2. job[t].fd = "none"
      BY DEF Decide, IInv, TypeOK
    <3> QED  BY <1>1, <3>1, <3>2 DEF Job
  <2> QED  BY <2>1, <2>2
<1>3. /\ job' = [job EXCEPT ![t] = j] /\ job[t].pc = "fetch"
      /\ booted' = (booted \/ (t = Boot /\ KeepLast(t)))
      /\ overlap' = overlap /\ listing' = listing /\ changes' = changes /\ crashes' = crashes
      /\ configured' = configured /\ snap' = snap /\ tmp' = tmp /\ file' = file
  BY DEF Decide, env, disk
<1> HIDE DEF j
<1>4. /\ job' \in [Threads -> Job] /\ job'[t] = j
      /\ \A u \in Threads : u # t => job'[u] = job[u]
      /\ \A u \in Threads : job'[u].fd = "none" <=> job'[u].pc # "write"
  BY <1>2, <1>3, OneJob DEF IInv
<1>5. ~ (t = Boot /\ KeepLast(t))
  BY <1>3 DEF IInv, Booting, KeepLast
<1>6. TypeOK'
  BY <1>3, <1>4, <1>5 DEF IInv, TypeOK
<1>7. Sound'
  BY <1>2, <1>3, <1>4, NoBlocks DEF IInv, Sound
<1>8. Fetched'
  BY <1>2, <1>3, <1>4, NoBlocks DEF IInv, Fetched
<1>9. Booting'
  BY <1>2, <1>3, <1>4, <1>5 DEF IInv, Booting, Threads
<1>10. Alone'
  BY <1>2, <1>3, <1>4 DEF IInv, Alone, OneRefresh, Saving
<1> QED  BY <1>6, <1>7, <1>8, <1>9, <1>10 DEF IInv

LEMMA PublishInv == ASSUME IInv, NEW t \in Threads, Publish(t)  PROVE IInv'
<1> DEFINE j == [job[t] EXCEPT !.pc = "save"]
<1>1. job[t] \in Job /\ job \in [Threads -> Job] /\ snap \in Blocks
  BY DEF IInv, TypeOK
<1>2. /\ j \in Job /\ j.pc = "save" /\ j.one = job[t].one /\ j.keep = job[t].keep
      /\ j.todo = job[t].todo /\ j.got = job[t].got /\ j.ok = job[t].ok
      /\ j.payload = job[t].payload /\ j.fd = job[t].fd
  BY <1>1 DEF Job
<1>3. /\ job' = [job EXCEPT ![t] = j] /\ job[t].pc = "publish" /\ snap' = NewSnapshot(t)
      /\ overlap' = overlap /\ listing' = listing /\ changes' = changes /\ crashes' = crashes
      /\ configured' = configured /\ booted' = booted /\ tmp' = tmp /\ file' = file
  BY DEF Publish, env, process, disk
<1> HIDE DEF j
<1>4. /\ job' \in [Threads -> Job] /\ job'[t] = j
      /\ \A u \in Threads : u # t => job'[u] = job[u]
      /\ \A u \in Threads : job'[u].fd = "none" <=> job'[u].pc # "write"
  <2>1. j.fd = "none" <=> j.pc # "write"
    BY <1>2, <1>3 DEF IInv, TypeOK
  <2> QED  BY <1>2, <1>3, <2>1, OneJob DEF IInv
<1>5. job[t].got \in Blocks /\ OneEach(job[t].got) /\ From(job[t].got, configured)
  <2>1. From(job[t].got, configured \ job[t].todo)
    BY DEF IInv, Fetched
  <2> QED  BY <1>1, <2>1 DEF IInv, Job, Sound, From
<1>6. /\ snap' \in Blocks /\ OneEach(snap')
      /\ From(snap, configured) \/ ~ job[t].one => From(snap', configured)
  <2>1. CASE ~ job[t].one
    BY <1>3, <1>5, <2>1 DEF NewSnapshot
  <2>2. CASE job[t].one
    <3>1. PICK s \in ServerSet : job[t].ok \subseteq {s}
      BY <2>2 DEF IInv, Fetched
    <3>2. From(job[t].got, job[t].ok)
      BY <2>2 DEF IInv, Fetched
    <3>3. From(job[t].got, job[t].ok \cap configured)
      BY <1>5, <3>2 DEF From
    <3> DEFINE old == Without(snap, job[t].ok)
    <3>4. ASSUME NEW T, From(snap, T)
          PROVE  /\ old \in Blocks /\ OneEach(old) /\ From(old, T \ job[t].ok)
      BY <1>1, <3>1, <3>4, WithoutServers DEF IInv, Sound
    <3>5. snap' = old \o job[t].got
      BY <1>3, <2>2 DEF NewSnapshot
    <3> HIDE DEF old
    <3>6. ASSUME NEW T, From(snap, T)
          PROVE  /\ snap' \in Blocks /\ OneEach(snap')
                 /\ From(snap', (T \ job[t].ok) \cup (job[t].ok \cap configured))
      <4>1. (T \ job[t].ok) \cap (job[t].ok \cap configured) = {}
        OBVIOUS
      <4> QED  BY <1>5, <3>3, <3>4, <3>5, <3>6, <4>1, JoinBlocks
    <3>7. From(snap, {snap[i].srv : i \in DOMAIN snap})
      BY DEF From
    <3>8. snap' \in Blocks /\ OneEach(snap')
      BY <3>6, <3>7
    <3>9. From(snap, configured) => From(snap', configured)
      <4> SUFFICES ASSUME From(snap, configured)  PROVE From(snap', configured)
        OBVIOUS
      <4>1. From(snap', (configured \ job[t].ok) \cup (job[t].ok \cap configured))
        BY <3>6
      <4> QED  BY <4>1 DEF From
    <3> QED  BY <2>2, <3>8, <3>9
  <2> QED  BY <2>1, <2>2
<1>7. TypeOK'
  BY <1>3, <1>4, <1>6 DEF IInv, TypeOK
<1>8. Sound'
  BY <1>2, <1>3, <1>4, <1>6 DEF IInv, Sound
<1>9. Fetched'
  BY <1>2, <1>3, <1>4 DEF IInv, Fetched
<1>10. Booting'
  BY <1>2, <1>3, <1>4, <1>6 DEF IInv, Booting, Threads
<1>11. Alone'
  BY <1>2, <1>3, <1>4 DEF IInv, Alone, OneRefresh, Saving
<1> QED  BY <1>7, <1>8, <1>9, <1>10, <1>11 DEF IInv

LEMMA OpenInv == ASSUME IInv, NEW t \in Threads, Open(t)  PROVE IInv'
<1> DEFINE j == [job[t] EXCEPT !.pc = "write", !.payload = snap, !.fd = "tmp"]
<1>1. job[t] \in Job /\ job \in [Threads -> Job] /\ snap \in Blocks
  BY DEF IInv, TypeOK
<1>2. /\ j \in Job /\ j.pc = "write" /\ j.one = job[t].one /\ j.keep = job[t].keep
      /\ j.todo = job[t].todo /\ j.got = job[t].got /\ j.ok = job[t].ok
      /\ j.payload = snap /\ j.fd = "tmp"
  BY <1>1 DEF Job
<1>3. job' = [job EXCEPT ![t] = j]
  BY <1>1 DEF Open
<1>4. /\ job[t].pc = "save" /\ tmp' = Empty
      /\ overlap' = overlap /\ listing' = listing /\ changes' = changes /\ crashes' = crashes
      /\ configured' = configured /\ booted' = booted /\ snap' = snap /\ file' = file
  BY DEF Open, env, process
<1> HIDE DEF j
<1>5. /\ job' \in [Threads -> Job] /\ job'[t] = j
      /\ \A u \in Threads : u # t => job'[u] = job[u]
      /\ \A u \in Threads : job'[u].fd = "none" <=> job'[u].pc # "write"
  BY <1>2, <1>3, OneJob DEF IInv
<1>6. Empty \in File /\ Empty # Mixed /\ OneEach(Empty.blocks)
  BY NoBlocks DEF Empty, Mixed, File
<1>7. TypeOK'
  BY <1>4, <1>5, <1>6 DEF IInv, TypeOK
<1>8. Sound'
  BY <1>2, <1>4, <1>5, <1>6 DEF IInv, Sound
<1>9. Fetched'
  BY <1>2, <1>4, <1>5 DEF IInv, Fetched
<1>10. Booting'
  BY <1>2, <1>4, <1>5 DEF IInv, Booting, Threads
<1>11. Alone'
  BY <1>2, <1>4, <1>5 DEF IInv, Alone, OneRefresh, Saving
<1> QED  BY <1>7, <1>8, <1>9, <1>10, <1>11 DEF IInv

\* What a write leaves in a file.
LEMMA Writes ==
  ASSUME NEW old \in File, NEW bs \in Blocks, OneEach(bs), NEW new \in Written(old, bs)
  PROVE  /\ new \in File /\ OneEach(new.blocks) /\ new # Absent /\ new # Empty
         /\ old = Empty => new.kind = "whole" /\ new # Mixed
<1>1. new \in {Whole(bs), Mixed} /\ (old = Empty => new = Whole(bs))
  BY DEF Written
<1>2. /\ Whole(bs) \in File /\ Whole(bs).blocks = bs /\ Whole(bs).kind = "whole"
      /\ Mixed \in File /\ Mixed.blocks = <<>> /\ Mixed.kind = "mixed"
      /\ Absent.kind = "absent" /\ Empty.kind = "empty"
  BY NoBlocks DEF Whole, Mixed, File, Absent, Empty
<1>3. CASE new = Whole(bs)
  BY <1>2, <1>3
<1>4. CASE new = Mixed
  BY <1>1, <1>2, <1>4, NoBlocks
<1> QED  BY <1>1, <1>3, <1>4

LEMMA WriteInv == ASSUME IInv, NEW t \in Threads, Write(t)  PROVE IInv'
<1> DEFINE j == [job[t] EXCEPT !.pc = "replace", !.fd = "none", !.payload = <<>>]
           b == job[t].payload
<1>1. /\ job[t] \in Job /\ job \in [Threads -> Job] /\ b \in Blocks /\ OneEach(b)
      /\ tmp \in File /\ file \in File /\ job[t].fd \in {"none", "tmp", "file", "unnamed"}
  BY DEF IInv, TypeOK, Job, Sound
<1>2. /\ j \in Job /\ j.pc = "replace" /\ j.one = job[t].one /\ j.keep = job[t].keep
      /\ j.todo = job[t].todo /\ j.got = job[t].got /\ j.ok = job[t].ok
      /\ j.payload = <<>> /\ j.fd = "none"
  BY <1>1, NoBlocks DEF Job
<1>3. job' = [job EXCEPT ![t] = j]
  BY <1>1 DEF Write
<1>4. /\ job[t].pc = "write"
      /\ overlap' = overlap /\ listing' = listing /\ changes' = changes /\ crashes' = crashes
      /\ configured' = configured /\ booted' = booted /\ snap' = snap
  BY DEF Write, env, process
<1>5. /\ tmp' \in IF job[t].fd = "tmp" THEN Written(tmp, b) ELSE {tmp}
      /\ file' \in IF job[t].fd = "file" THEN Written(file, b) ELSE {file}
  BY DEF Write
<1> HIDE DEF j, b
<1>6. /\ job' \in [Threads -> Job] /\ job'[t] = j
      /\ \A u \in Threads : u # t => job'[u] = job[u]
      /\ \A u \in Threads : job'[u].fd = "none" <=> job'[u].pc # "write"
  BY <1>2, <1>3, OneJob DEF IInv
<1>7. tmp' \in File /\ OneEach(tmp'.blocks)
  <2>1. CASE job[t].fd = "tmp"
    BY <1>1, <1>5, <2>1, Writes
  <2>2. CASE job[t].fd # "tmp"
    BY <1>1, <1>5, <2>2 DEF IInv, Sound
  <2> QED  BY <2>1, <2>2
<1>8. file' \in File /\ OneEach(file'.blocks)
  <2>1. CASE job[t].fd = "file"
    BY <1>1, <1>5, <2>1, Writes
  <2>2. CASE job[t].fd # "file"
    BY <1>1, <1>5, <2>2 DEF IInv, Sound
  <2> QED  BY <2>1, <2>2
<1>9. ~ overlap => tmp'.kind = "whole" /\ tmp' # Mixed /\ file' = file
  <2> SUFFICES ASSUME ~ overlap  PROVE tmp'.kind = "whole" /\ tmp' # Mixed /\ file' = file
    OBVIOUS
  <2>1. job[t].fd = "tmp" /\ tmp = Empty
    BY <1>4 DEF IInv, Alone, Saving
  <2>2. tmp' \in Written(tmp, b) /\ file' = file
    BY <1>5, <2>1
  <2> QED  BY <1>1, <2>1, <2>2, Writes
<1>10. TypeOK'
  BY <1>4, <1>6, <1>7, <1>8, <1>9 DEF IInv, TypeOK
<1>11. Sound'
  BY <1>2, <1>4, <1>6, <1>7, <1>8, NoBlocks DEF IInv, Sound
<1>12. Fetched'
  BY <1>2, <1>4, <1>6 DEF IInv, Fetched
<1>13. Booting'
  BY <1>2, <1>4, <1>6 DEF IInv, Booting, Threads
<1>14. Alone'
  BY <1>2, <1>4, <1>6, <1>9 DEF IInv, Alone, OneRefresh, Saving
<1> QED  BY <1>10, <1>11, <1>12, <1>13, <1>14 DEF IInv

LEMMA ReplaceInv == ASSUME IInv, NEW t \in Threads, Replace(t)  PROVE IInv'
<1>1. PICK next \in After(t) :
        /\ job' = [u \in Threads |->
              IF u = t THEN next
              ELSE IF tmp = Absent THEN job[u]
              ELSE [job[u] EXCEPT !.fd = Renamed[@]]]
        /\ booted' = (booted \/ (t = Boot /\ next = NoJob))
  BY DEF Replace
<1>2. /\ job[t].pc = "replace" /\ overlap' = overlap /\ listing' = listing
      /\ changes' = changes /\ crashes' = crashes /\ configured' = configured /\ snap' = snap
      /\ IF tmp = Absent THEN tmp' = tmp /\ file' = file ELSE tmp' = Absent /\ file' = tmp
  BY DEF Replace, env, disk
<1>3. /\ job \in [Threads -> Job] /\ configured \in SUBSET ServerSet /\ tmp \in File
      /\ file \in File
  BY DEF IInv, TypeOK
<1>4. /\ next \in {NoJob, BootJob(configured)}
      /\ next = BootJob(configured) => t = Boot
  BY JobKinds, <1>3 DEF After
<1>5. /\ next \in Job /\ next.pc \in {"idle", "fetch"} /\ next.todo \subseteq configured
      /\ next.got = <<>> /\ next.payload = <<>> /\ next.fd = "none" /\ ~ next.one
      /\ next.pc = "idle" <=> next = NoJob
      /\ next.pc = "fetch" => t = Boot /\ ~ next.keep
  BY <1>3, <1>4, JobKinds
<1>6. ASSUME NEW u \in Threads, u # t
      PROVE  /\ job'[u] \in Job /\ job'[u].pc = job[u].pc /\ job'[u].one = job[u].one
             /\ job'[u].keep = job[u].keep /\ job'[u].todo = job[u].todo
             /\ job'[u].got = job[u].got /\ job'[u].ok = job[u].ok
             /\ job'[u].payload = job[u].payload
             /\ job'[u].fd = "none" <=> job[u].fd = "none"
  <2>1. job[u] \in Job
    BY <1>3
  <2>2. CASE tmp = Absent
    <3>1. job'[u] = job[u]
      BY <1>1, <1>6, <2>2
    <3> QED  BY <2>1, <3>1
  <2>3. CASE tmp # Absent
    <3>1. job'[u] = [job[u] EXCEPT !.fd = Renamed[job[u].fd]]
      BY <1>1, <1>6, <2>3
    <3>2. /\ job[u].fd \in {"none", "tmp", "file", "unnamed"}
          /\ Renamed[job[u].fd] \in {"none", "tmp", "file", "unnamed"}
          /\ Renamed[job[u].fd] = "none" <=> job[u].fd = "none"
      BY <2>1 DEF Job, Renamed
    <3> QED  BY <2>1, <3>1, <3>2 DEF Job
  <2> QED  BY <2>2, <2>3
<1>7. job'[t] = next
  BY <1>1
<1>8. job' \in [Threads -> Job]
  BY <1>1, <1>5, <1>6, <1>7
<1>9. TypeOK'
  <2>1. \A u \in Threads : job'[u].fd = "none" <=> job'[u].pc # "write"
    BY <1>5, <1>6, <1>7 DEF IInv, TypeOK
  <2>2. {tmp', file'} \subseteq File /\ (tmp' = Mixed => overlap)
    BY <1>2, <1>3, NoBlocks DEF IInv, TypeOK, Absent, Mixed, File
  <2> QED  BY <1>1, <1>2, <1>8, <2>1, <2>2 DEF IInv, TypeOK
<1>10. Sound'
  <2>1. OneEach(tmp'.blocks) /\ OneEach(file'.blocks)
    BY <1>2, NoBlocks DEF IInv, Sound, Absent
  <2> QED  BY <1>2, <1>5, <1>6, <1>7, <2>1, NoBlocks DEF IInv, Sound
<1>11. Fetched'
  BY <1>2, <1>5, <1>6, <1>7, NoBlocks DEF IInv, Fetched
<1>12. Booting'
  <2>1. CASE t = Boot
    <3>1. From(snap, configured)
      BY <1>2, <2>1 DEF IInv, Booting
    <3>2. ~ booted
      BY <1>2, <2>1 DEF IInv, Booting
    <3> QED  BY <1>1, <1>2, <1>5, <1>7, <2>1, <3>1, <3>2 DEF Booting
  <2>2. CASE t # Boot
    BY <1>1, <1>2, <1>6, <2>2 DEF IInv, Booting, Threads
  <2> QED  BY <2>1, <2>2
<1>13. Alone'
  <2> SUFFICES ASSUME ~ overlap
               PROVE  OneRefresh' /\ Saving' /\ file'.kind \in {"absent", "whole"}
    BY <1>2 DEF Alone
  <2>1. \A u \in Threads : u # t => job'[u].pc = "idle"
    BY <1>2, <1>6 DEF IInv, Alone, OneRefresh
  <2>2. OneRefresh' /\ Saving'
    BY <1>5, <1>7, <2>1 DEF OneRefresh, Saving
  <2>3. tmp.kind = "whole" /\ tmp # Absent
    BY <1>2 DEF IInv, Alone, Saving, Absent
  <2> QED  BY <1>2, <2>2, <2>3
<1> QED  BY <1>9, <1>10, <1>11, <1>12, <1>13 DEF IInv

LEMMA ChangeInv == ASSUME IInv, NEW s \in ServerSet, Change(s)  PROVE IInv'
<1>1. /\ overlap' = overlap /\ crashes' = crashes /\ configured' = configured
      /\ booted' = booted /\ snap' = snap /\ job' = job /\ tmp' = tmp /\ file' = file
  BY DEF Change, process, disk
<1>2. listing' \in [ServerSet -> {Down} \cup SUBSET Tools] /\ changes' \in 0 .. MaxChanges
  BY MarketAssumption DEF Change, IInv, TypeOK
<1>3. TypeOK'
  BY <1>1, <1>2 DEF IInv, TypeOK
<1>4. Sound' /\ Fetched' /\ Booting' /\ Alone'
  BY <1>1 DEF IInv, Sound, Fetched, Booting, Alone, OneRefresh, Saving
<1> QED  BY <1>3, <1>4 DEF IInv

LEMMA RestartInv == ASSUME IInv, Restart  PROVE IInv'
<1>1. /\ configured' \in (SUBSET ServerSet) \ {{}} /\ booted' = FALSE /\ snap' = Loaded
      /\ job' = [t \in Threads |-> IF t = Boot THEN BootJob(configured') ELSE NoJob]
      /\ overlap' = overlap /\ listing' = listing /\ changes' = changes /\ tmp' = tmp
      /\ file' = file /\ crashes' \in 0 .. MaxCrashes
  BY MarketAssumption DEF Restart, disk, IInv, TypeOK
<1>2. PICK c \in SUBSET ServerSet : c = configured'
  BY <1>1
<1>3. \A t \in Threads : job'[t] = IF t = Boot THEN BootJob(c) ELSE NoJob
  BY <1>1, <1>2
<1>4. \A t \in Threads : /\ job'[t] \in Job /\ job'[t].fd = "none"
                         /\ job'[t].pc = IF t = Boot THEN "fetch" ELSE "idle"
                         /\ ~ job'[t].one /\ job'[t].todo \subseteq configured'
                         /\ job'[t].got = <<>> /\ job'[t].payload = <<>>
  BY <1>2, <1>3, JobKinds
<1>5. snap' \in Blocks /\ OneEach(snap')
  <2>1. file \in File /\ OneEach(file.blocks)
    BY DEF IInv, TypeOK, Sound
  <2> QED  BY <1>1, <2>1, NoBlocks DEF Loaded, File
<1>6. ~ job'[Boot].keep /\ Boot \in Threads
  BY <1>2, <1>3, JobKinds DEF Threads
<1>7. TypeOK'
  BY <1>1, <1>4, <1>5 DEF IInv, TypeOK
<1>8. Sound'
  BY <1>1, <1>4, <1>5, NoBlocks DEF IInv, Sound
<1>9. Fetched'
  BY <1>4, NoBlocks DEF Fetched
<1>10. Booting'
  BY <1>1, <1>4, <1>6 DEF Booting
<1>11. Alone'
  BY <1>1, <1>4 DEF IInv, Alone, OneRefresh, Saving
<1> QED  BY <1>7, <1>8, <1>9, <1>10, <1>11 DEF IInv

LEMMA NextInv == IInv /\ [Next]_vars => IInv'
<1> SUFFICES ASSUME IInv, [Next]_vars  PROVE IInv'
  OBVIOUS
<1>1. ASSUME NEW t \in Threads, Refresh(t) \/ Step(t)  PROVE IInv'
  BY <1>1, RefreshInv, FetchInv, DecideInv, PublishInv, OpenInv, WriteInv, ReplaceInv DEF Step
<1>2. ASSUME NEW t \in Requests, NEW s \in ServerSet, RefreshServer(t, s)  PROVE IInv'
  BY <1>2, RefreshServerInv
<1>3. ASSUME NEW s \in ServerSet, Change(s)  PROVE IInv'
  BY <1>3, ChangeInv
<1>4. CASE Restart
  BY <1>4, RestartInv
<1>5. CASE UNCHANGED vars
  BY <1>5 DEF vars, env, process, disk, IInv, TypeOK, Sound, Fetched, Booting, Alone,
              OneRefresh, Saving
<1> QED  BY <1>1, <1>2, <1>3, <1>4, <1>5 DEF Next

-----------------------------------------------------------------------------
\* The registry and its file have the shapes of TypeOK, and the invariant that
\* the theorems below are drawn from holds (registry.py, runtime.py).
THEOREM MarketInvariant == Spec => []IInv
<1>1. UNCHANGED vars /\ IInv => IInv'
  BY NextInv
<1> QED  BY InitInv, NextInv, PTL DEF Spec

THEOREM MarketTypeCorrect == Spec => []TypeOK
<1>1. IInv => TypeOK
  BY DEF IInv
<1> QED  BY <1>1, MarketInvariant, PTL

\* Once init_registry has returned, no tool of a server that is not configured is
\* left of what was loaded from the file, whatever threads refreshed the
\* snapshot since (blocking_refresh, refresh, refresh_server).
THEOREM MarketOnlyConfigured == Spec => []OnlyConfigured
<1>1. IInv => OnlyConfigured
  BY DEF IInv, Booting, From, OnlyConfigured
<1> QED  BY <1>1, MarketInvariant, PTL

\* While refreshes do not overlap, the snapshot file is absent or whole at every
\* moment, whenever the process dies in between (_save_snapshot_cache).
THEOREM MarketFileIsWhole == Spec => []FileIsWhole
<1>1. IInv => FileIsWhole
  BY DEF IInv, Alone, FileIsWhole
<1> QED  BY <1>1, MarketInvariant, PTL
=============================================================================
