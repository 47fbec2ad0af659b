---------------------------- MODULE AccountsProofs ----------------------------
(***************************************************************************)
(* Accounts: its types, what holds of users and identities in every        *)
(* deployment, and what only one process makes true.                       *)
(***************************************************************************)
EXTENDS Accounts, FiniteSetTheorems, TLAPS

(***************************************************************************)
(* The inductive invariant.                                                *)
(***************************************************************************)
Types ==
    /\ conf \in Conf
    /\ users \in [Users -> UserStatus]
    /\ ident \in [Subjects -> Identity]
    /\ sess \in [Tokens -> UserSession]
    /\ flows \in [Flows -> OAuthState]
    /\ req \in [Reqs -> Request]
    /\ uses \in [Flows -> Nat]

\* What a request knows where it is.
WithFlow == {"callback", "consume", "exchange", "finding", "register",
             "binding", "bind", "signin", "session"}
WithSubject == {"finding", "register", "binding", "bind", "unbinding"}
WithUser == {"unbind", "link", "logout_all", "admin", "unbinding",
             "binding", "bind", "signin", "session"}

RequestShape ==
    \A q \in Reqs :
        /\ req[q].pc \in WithFlow => req[q].flow \in Flows
        /\ req[q].pc \in WithSubject => req[q].subj \in Subjects
        /\ req[q].pc \in WithUser => req[q].cur \in Users
        /\ req[q].cur # None => users[req[q].cur] # "none"

RowShape ==
    /\ \A s \in Subjects : /\ Bound(s) => Taken(s)
                           /\ Taken(s) => users[ident[s].owner] # "none"
    /\ \A t \in Tokens : sess[t].state # "none" => sess[t].user # None

\* In one process one request at most is between two awaits ...
Alone ==
    \A q, r \in Reqs : q # r => req[q].pc \in Awaits \/ req[r].pc \in Awaits

\* ... so that what it checked there still holds when it commits.
Checked ==
    \A q \in Reqs :
        /\ req[q].pc = "consume" => flows[req[q].flow].stage = "issued"
        /\ req[q].pc \in {"bind", "session"} => users[req[q].cur] = "active"
        /\ req[q].pc = "unbinding" =>
              /\ ident[req[q].subj].owner = req[q].cur
              /\ \E s \in ActiveOf(req[q].cur) : s # req[q].subj

\* Requests whose state is consumed and that may still use it: one for each
\* state, and none once it is used.
Past == {"exchange", "finding", "register", "binding", "bind", "signin", "session"}

Once ==
    /\ \A f \in Flows : flows[f].stage \in {"none", "issued", "expired"} => uses[f] = 0
    /\ \A f \in Flows : uses[f] \in {0, 1}
    /\ \A q \in Reqs : req[q].pc \in Past =>
          /\ uses[req[q].flow] = 0
          /\ flows[req[q].flow].stage \in {"consumed", "gone"}
    /\ \A q, r \in Reqs :
          req[q].pc \in Past /\ req[r].pc \in Past /\ req[q].flow = req[r].flow => q = r

Out ==
    \A u \in Users :
        /\ users[u] \in {"disabled", "deleted"} =>
              \A t \in Tokens : sess[t].user = u => sess[t].state # "live"
        /\ users[u] = "deleted" =>
              \A s \in Subjects : ident[s].owner = u => ~ Bound(s)

Last ==
    \A u \in Users \ {Dev}, s \in Subjects :
        users[u] = "active" /\ ident[s].owner = u =>
            \E x \in Subjects : ident[x].owner = u /\ Bound(x)

OneProcess == Alone /\ Checked /\ Once /\ Out /\ Last

IInv == Types /\ RequestShape /\ RowShape /\ (~ conf.race => OneProcess)

LEMMA CallbackKeeps ==
  ASSUME IInv, NEW q \in Reqs, NEW f \in Flows, NEW t \in Tokens \cup {None},
         Callback(q, f, t)
  PROVE  IInv'
<1> USE AccountsAssumption DEF IInv
<1>1. Types'
  BY DEF Callback, At, CurrentUser, Idle, Types, UserStatus,
     Identity, UserSession, OAuthState, Request, Awaits, Inside, tables
<1>2. RequestShape'
  BY DEF Callback, At, CurrentUser, Idle, Types,
     RequestShape, RowShape, WithFlow, WithSubject, WithUser, tables, Request,
     Identity, UserSession, OAuthState, Bound, Taken
<1>3. RowShape'
  BY DEF Callback, At, CurrentUser, Idle, Types, RowShape,
     RequestShape, WithFlow, WithSubject, WithUser, Taken, Bound, tables,
     Identity, UserSession, OAuthState, Request
<1>4. ASSUME ~ conf'.race  PROVE OneProcess'
  <2>0. ~ conf.race /\ OneProcess
    BY <1>4 DEF Callback, At, CurrentUser, Idle, tables
  <2>1. Alone'
    BY <2>0 DEF OneProcess, Callback, At, CurrentUser, Idle,
       Types, Alone, Turn, Awaits, tables
  <2>2. Checked'
    BY <2>0 DEF OneProcess, Callback, At, CurrentUser, Idle,
       Types, Alone, Checked, RequestShape, WithFlow, WithSubject, WithUser,
       Turn, Awaits, tables, Bound, Taken, ActiveOf
  <2>3. Once'
    BY <2>0 DEF OneProcess, Callback, At, CurrentUser, Idle,
       Types, Once, Alone, Checked, Past, RequestShape, WithFlow, Turn,
       Awaits, OAuthState, tables
  <2>4. Out'
    BY <2>0 DEF OneProcess, Callback, At, CurrentUser, Idle,
       Types, Out, Alone, Checked, RequestShape, RowShape, WithFlow,
       WithSubject, WithUser, Turn, Awaits, Identity, UserSession, tables,
       Bound, Taken, ActiveOf, SessionsOf
  <2>5. Last'
    BY <2>0 DEF OneProcess, Callback, At, CurrentUser, Idle,
       Types, Last, Alone, Checked, RequestShape, RowShape, WithFlow,
       WithSubject, WithUser, Turn, Awaits, Identity, tables, Bound, Taken,
       ActiveOf
  <2> QED  BY <2>1, <2>2, <2>3, <2>4, <2>5 DEF OneProcess
<1> QED  BY <1>1, <1>2, <1>3, <1>4

LEMMA RequiredKeeps ==
  ASSUME IInv, NEW q \in Reqs, NEW t \in Tokens \cup {None}, NEW pc \in {"unbind", "link", "logout_all", "admin"},
         Required(q, pc, t)
  PROVE  IInv'
<1> USE AccountsAssumption DEF IInv
<1>0. UNCHANGED <<conf, ident, sess, flows, uses>> /\ At(q, "idle")
  BY DEF Required
<1>a. /\ users' \in [Users -> UserStatus]
      /\ \A u \in Users : users'[u] # users[u] => u = Dev /\ users'[u] = "active"
  BY DEF Required, EnsureDevUser, Types, UserStatus
<1>b. PICK u \in Users : /\ users'[u] # "none"
                         /\ req' = [req EXCEPT ![q] = [Idle EXCEPT !.pc = pc, !.cur = u]]
  BY DEF Required, CurrentUser, EnsureDevUser, Types, RowShape, UserSession
<1>c. /\ req' = [req EXCEPT ![q] = req'[q]]
      /\ req'[q] \in Request
      /\ req'[q].pc = pc /\ req'[q].flow = None /\ req'[q].cur = u /\ req'[q].subj = None
  BY <1>b DEF Idle, Types, Request, Awaits
<1>1. Types'
  BY <1>0, <1>a, <1>c DEF Types
<1>2. RequestShape'
  BY <1>0, <1>a, <1>b, <1>c DEF At, Types, RequestShape,
     RowShape, WithFlow, WithSubject, WithUser, tables, Request, Identity,
     UserSession, OAuthState, Bound, Taken
<1>3. RowShape'
  BY <1>0, <1>a, <1>b, <1>c DEF At, Types, RowShape,
     RequestShape, WithFlow, WithSubject, WithUser, Taken, Bound, tables,
     Identity, UserSession, OAuthState, Request
<1>4. ASSUME ~ conf'.race  PROVE OneProcess'
  <2>0. ~ conf.race /\ OneProcess
    BY <1>4, <1>0, <1>a, <1>b, <1>c
  <2>1. Alone'
    BY <2>0, <1>0, <1>a, <1>b, <1>c DEF OneProcess, At, Types,
       Alone, Turn, Awaits, tables
  <2>2. Checked'
    BY <2>0, <1>0, <1>a, <1>b, <1>c DEF OneProcess, At,
       Types, Alone, Checked, RequestShape, WithFlow, WithSubject, WithUser,
       Turn, Awaits, tables, Bound, Taken, ActiveOf
  <2>3. Once'
    BY <2>0, <1>0, <1>a, <1>b, <1>c DEF OneProcess, At, Types,
       Once, Alone, Checked, Past, RequestShape, WithFlow, Turn, Awaits,
       OAuthState, tables
  <2>4. Out'
    BY <2>0, <1>0, <1>a, <1>b, <1>c DEF OneProcess, At, Types,
       Out, Alone, Checked, RequestShape, RowShape, WithFlow, WithSubject,
       WithUser, Turn, Awaits, Identity, UserSession, tables, Bound, Taken,
       ActiveOf, SessionsOf
  <2>5. Last'
    BY <2>0, <1>0, <1>a, <1>b, <1>c DEF OneProcess, At, Types,
       Last, Alone, Checked, RequestShape, RowShape, WithFlow, WithSubject,
       WithUser, Turn, Awaits, Identity, tables, Bound, Taken, ActiveOf
  <2> QED  BY <2>1, <2>2, <2>3, <2>4, <2>5 DEF OneProcess
<1> QED  BY <1>1, <1>2, <1>3, <1>4

LEMMA ConsumeCheckKeeps ==
  ASSUME IInv, NEW q \in Reqs,
         ConsumeCheck(q)
  PROVE  IInv'
<1> USE AccountsAssumption DEF IInv
<1>0. UNCHANGED <<conf, tables, uses>> /\ At(q, "callback")
  BY DEF ConsumeCheck
<1>a. /\ req' = [req EXCEPT ![q] = req'[q]]
      /\ req'[q] \in Request
      /\ \/ req'[q] = Idle
         \/ /\ flows[req[q].flow].stage = "issued"
            /\ req'[q].pc = "consume"
            /\ req'[q].flow = req[q].flow
            /\ req'[q].subj = req[q].subj
            /\ req'[q].cur = req[q].cur
  BY <1>0 DEF ConsumeCheck, At, Goto, Done, Idle, Types, RequestShape,
     RowShape, WithFlow, WithSubject, WithUser, Request, Identity, Inside,
     Awaits, Bound, Taken, ActiveOf
<1>1. Types'
  BY <1>0, <1>a DEF At, Idle, Types, UserStatus, Identity,
     UserSession, OAuthState, Request, Awaits, Inside, tables
<1>2. RequestShape'
  BY <1>0, <1>a DEF At, Idle, Types, RequestShape,
     RowShape, WithFlow, WithSubject, WithUser, tables, Request, Identity,
     UserSession, OAuthState, Bound, Taken
<1>3. RowShape'
  BY <1>0, <1>a DEF At, Idle, Types, RowShape, RequestShape,
     WithFlow, WithSubject, WithUser, Taken, Bound, tables, Identity,
     UserSession, OAuthState, Request
<1>4. ASSUME ~ conf'.race  PROVE OneProcess'
  <2>0. ~ conf.race /\ OneProcess
    BY <1>4, <1>0, <1>a
  <2>1. Alone'
    BY <2>0, <1>0, <1>a DEF OneProcess, At, Idle, Types, Alone,
       Turn, Awaits, tables
  <2>2. Checked'
    BY <2>0, <1>0, <1>a DEF OneProcess, At, Idle, Types,
       Alone, Checked, RequestShape, WithFlow, WithSubject, WithUser, Turn,
       Awaits, tables, Bound, Taken, ActiveOf
  <2>3. Once'
    BY <2>0, <1>0, <1>a DEF OneProcess, At, Idle, Types, Once,
       Alone, Checked, Past, RequestShape, WithFlow, Turn, Awaits, OAuthState,
       tables
  <2>4. Out'
    BY <2>0, <1>0, <1>a DEF OneProcess, At, Idle, Types, Out,
       Alone, Checked, RequestShape, RowShape, WithFlow, WithSubject,
       WithUser, Turn, Awaits, Identity, UserSession, tables, Bound, Taken,
       ActiveOf, SessionsOf
  <2>5. Last'
    BY <2>0, <1>0, <1>a DEF OneProcess, At, Idle, Types, Last,
       Alone, Checked, RequestShape, RowShape, WithFlow, WithSubject,
       WithUser, Turn, Awaits, Identity, tables, Bound, Taken, ActiveOf
  <2> QED  BY <2>1, <2>2, <2>3, <2>4, <2>5 DEF OneProcess
<1> QED  BY <1>1, <1>2, <1>3, <1>4

LEMMA ConsumeKeeps ==
  ASSUME IInv, NEW q \in Reqs,
         Consume(q)
  PROVE  IInv'
<1> USE AccountsAssumption DEF IInv
<1>0. UNCHANGED <<conf, users, ident, sess, uses>> /\ At(q, "consume")
  BY DEF Consume
<1>a. /\ req' = [req EXCEPT ![q] = req'[q]]
      /\ req'[q] \in Request
      /\ \/ req'[q] = Idle /\ flows' = flows
         \/ /\ flows' = [flows EXCEPT ![req[q].flow].stage = "consumed"]
            /\ req'[q].pc = "exchange"
            /\ req'[q].flow = req[q].flow
            /\ req'[q].subj = req[q].subj
            /\ req'[q].cur = req[q].cur
  BY <1>0 DEF Consume, At, Goto, Done, Idle, Types, RequestShape, RowShape,
     WithFlow, WithSubject, WithUser, Request, Identity, Inside, Awaits,
     Bound, Taken, ActiveOf
<1>1. Types'
  <2>1. req[q].flow \in Flows
    BY <1>0 DEF At, Types, RequestShape, WithFlow
  <2>2. flows[req[q].flow] \in OAuthState
    BY <2>1 DEF Types
  <2>3. [flows[req[q].flow] EXCEPT !.stage = "consumed"] \in OAuthState
    BY <2>2 DEF OAuthState
  <2>4. flows' \in [Flows -> OAuthState]
    BY <1>a, <2>1, <2>3 DEF Types
  <2>5. req' \in [Reqs -> Request]
    BY <1>a DEF Types
  <2> QED  BY <2>1, <2>2, <2>3, <2>4, <2>5, <1>0 DEF Types
<1>2. RequestShape'
  BY <1>0, <1>a DEF At, Idle, Types, RequestShape,
     RowShape, WithFlow, WithSubject, WithUser, tables, Request, Identity,
     UserSession, OAuthState, Bound, Taken
<1>3. RowShape'
  BY <1>0, <1>a DEF At, Idle, Types, RowShape, RequestShape,
     WithFlow, WithSubject, WithUser, Taken, Bound, tables, Identity,
     UserSession, OAuthState, Request
<1>4. ASSUME ~ conf'.race  PROVE OneProcess'
  <2>0. ~ conf.race /\ OneProcess
    BY <1>4, <1>0, <1>a
  <2>1. Alone'
    BY <2>0, <1>0, <1>a DEF OneProcess, At, Idle, Types, Alone,
       Turn, Awaits, tables
  <2>2. Checked'
    BY <2>0, <1>0, <1>a DEF OneProcess, At, Idle, Types,
       Alone, Checked, RequestShape, WithFlow, WithSubject, WithUser, Turn,
       Awaits, tables, Bound, Taken, ActiveOf
  <2>3. Once'
    <3>1. flows[req[q].flow].stage = "issued" /\ req[q].flow \in Flows
      BY <2>0, <1>0 DEF OneProcess, Checked, At, RequestShape, WithFlow
    <3>2. \A f \in Flows : flows'[f].stage = flows[f].stage \/ f = req[q].flow
      BY <1>a, <3>1 DEF Types, OAuthState
    <3>3. CASE req'[q] = Idle /\ flows' = flows
      BY <3>3, <2>0, <1>0, <1>a DEF OneProcess, Once, Types, Idle, Past
    <3>4. CASE /\ flows' = [flows EXCEPT ![req[q].flow].stage = "consumed"]
               /\ req'[q].pc = "exchange"
               /\ req'[q].flow = req[q].flow
      <4>1. flows'[req[q].flow].stage = "consumed"
        BY <3>1, <3>4 DEF Types, OAuthState
      <4>2. \A r \in Reqs : req[r].pc \in Past => req[r].flow # req[q].flow
        BY <3>1, <2>0 DEF OneProcess, Once
      <4>3. \A r \in Reqs : r # q => req'[r] = req[r]
        BY <1>a DEF Types
      <4>4. uses[req[q].flow] = 0
        BY <3>1, <2>0 DEF OneProcess, Once
      <4>5. \A r \in Reqs : req[r].pc \in Past => req[r].flow \in Flows
        BY DEF RequestShape, Past, WithFlow
      <4> QED  BY <1>0, <2>0, <3>1, <3>2, <3>4, <4>1, <4>2, <4>3, <4>4, <4>5 DEF OneProcess, Once
    <3> QED  BY <1>a, <3>3, <3>4
  <2>4. Out'
    BY <2>0, <1>0, <1>a DEF OneProcess, At, Idle, Types, Out,
       Alone, Checked, RequestShape, RowShape, WithFlow, WithSubject,
       WithUser, Turn, Awaits, Identity, UserSession, tables, Bound, Taken,
       ActiveOf, SessionsOf
  <2>5. Last'
    BY <2>0, <1>0, <1>a DEF OneProcess, At, Idle, Types, Last,
       Alone, Checked, RequestShape, RowShape, WithFlow, WithSubject,
       WithUser, Turn, Awaits, Identity, tables, Bound, Taken, ActiveOf
  <2> QED  BY <2>1, <2>2, <2>3, <2>4, <2>5 DEF OneProcess
<1> QED  BY <1>1, <1>2, <1>3, <1>4

LEMMA ExchangeFailsKeeps ==
  ASSUME IInv, NEW q \in Reqs,
         ExchangeFails(q)
  PROVE  IInv'
<1> USE AccountsAssumption DEF IInv
<1>1. Types'
  BY DEF ExchangeFails, At, Done, Idle, Types, UserStatus,
     Identity, UserSession, OAuthState, Request, Awaits, Inside, tables
<1>2. RequestShape'
  BY DEF ExchangeFails, At, Done, Idle, Types,
     RequestShape, RowShape, WithFlow, WithSubject, WithUser, tables, Request,
     Identity, UserSession, OAuthState, Bound, Taken
<1>3. RowShape'
  BY DEF ExchangeFails, At, Done, Idle, Types, RowShape,
     RequestShape, WithFlow, WithSubject, WithUser, Taken, Bound, tables,
     Identity, UserSession, OAuthState, Request
<1>4. ASSUME ~ conf'.race  PROVE OneProcess'
  <2>0. ~ conf.race /\ OneProcess
    BY <1>4 DEF ExchangeFails, At, Done, Idle, tables
  <2>1. Alone'
    BY <2>0 DEF OneProcess, ExchangeFails, At, Done, Idle,
       Types, Alone, Turn, Awaits, tables
  <2>2. Checked'
    BY <2>0 DEF OneProcess, ExchangeFails, At, Done, Idle,
       Types, Alone, Checked, RequestShape, WithFlow, WithSubject, WithUser,
       Turn, Awaits, tables, Bound, Taken, ActiveOf
  <2>3. Once'
    BY <2>0 DEF OneProcess, ExchangeFails, At, Done, Idle,
       Types, Once, Alone, Checked, Past, RequestShape, WithFlow, Turn,
       Awaits, OAuthState, tables
  <2>4. Out'
    BY <2>0 DEF OneProcess, ExchangeFails, At, Done, Idle, Types,
       Out, Alone, Checked, RequestShape, RowShape, WithFlow, WithSubject,
       WithUser, Turn, Awaits, Identity, UserSession, tables, Bound, Taken,
       ActiveOf, SessionsOf
  <2>5. Last'
    BY <2>0 DEF OneProcess, ExchangeFails, At, Done, Idle,
       Types, Last, Alone, Checked, RequestShape, RowShape, WithFlow,
       WithSubject, WithUser, Turn, Awaits, Identity, tables, Bound, Taken,
       ActiveOf
  <2> QED  BY <2>1, <2>2, <2>3, <2>4, <2>5 DEF OneProcess
<1> QED  BY <1>1, <1>2, <1>3, <1>4

LEMMA ExchangedKeeps ==
  ASSUME IInv, NEW q \in Reqs, NEW s \in Subjects,
         Exchanged(q, s)
  PROVE  IInv'
<1> USE AccountsAssumption DEF IInv
<1>1. Types'
  <2>1. Idle \in Request /\ req[q] \in Request /\ Dev \in Users
    BY DEF Idle, Request, Awaits, Types
  <2>2. users' \in [Users -> UserStatus]
    BY DEF Exchanged, EnsureDevUser, Types, UserStatus
  <2>3. \A c \in Users : [req[q] EXCEPT !.pc = "binding", !.subj = s, !.cur = c] \in Request
    BY <2>1 DEF Request, Inside
  <2>4. [req[q] EXCEPT !.pc = "finding", !.subj = s] \in Request
    BY <2>1 DEF Request, Inside
  <2>5. req[q].cur = None \/ req[q].cur \in Users
    BY <2>1 DEF Request
  <2>6. req' \in [Reqs -> Request]
    BY <2>1, <2>3, <2>4, <2>5 DEF Exchanged, Types
  <2> QED  BY <2>1, <2>2, <2>3, <2>4, <2>5, <2>6 DEF Exchanged, Types
<1>2. RequestShape'
  BY DEF Exchanged, At, EnsureDevUser, Idle, Types,
     RequestShape, RowShape, WithFlow, WithSubject, WithUser, tables, Request,
     Identity, UserSession, OAuthState, Bound, Taken
<1>3. RowShape'
  BY DEF Exchanged, At, EnsureDevUser, Idle, Types, RowShape,
     RequestShape, WithFlow, WithSubject, WithUser, Taken, Bound, tables,
     Identity, UserSession, OAuthState, Request
<1>4. ASSUME ~ conf'.race  PROVE OneProcess'
  <2>0. ~ conf.race /\ OneProcess
    BY <1>4 DEF Exchanged, At, EnsureDevUser, Idle, tables
  <2>1. Alone'
    BY <2>0 DEF OneProcess, Exchanged, At, EnsureDevUser, Idle,
       Types, Alone, Turn, Awaits, tables
  <2>2. Checked'
    BY <2>0 DEF OneProcess, Exchanged, At, EnsureDevUser,
       Idle, Types, Alone, Checked, RequestShape, WithFlow, WithSubject,
       WithUser, Turn, Awaits, tables, Bound, Taken, ActiveOf
  <2>3. Once'
    BY <2>0 DEF OneProcess, Exchanged, At, EnsureDevUser, Idle,
       Types, Once, Alone, Checked, Past, RequestShape, WithFlow, Turn,
       Awaits, OAuthState, tables
  <2>4. Out'
    BY <2>0 DEF OneProcess, Exchanged, At, EnsureDevUser, Idle,
       Types, Out, Alone, Checked, RequestShape, RowShape, WithFlow,
       WithSubject, WithUser, Turn, Awaits, Identity, UserSession, tables,
       Bound, Taken, ActiveOf, SessionsOf
  <2>5. Last'
    BY <2>0 DEF OneProcess, Exchanged, At, EnsureDevUser, Idle,
       Types, Last, Alone, Checked, RequestShape, RowShape, WithFlow,
       WithSubject, WithUser, Turn, Awaits, Identity, tables, Bound, Taken,
       ActiveOf
  <2> QED  BY <2>1, <2>2, <2>3, <2>4, <2>5 DEF OneProcess
<1> QED  BY <1>1, <1>2, <1>3, <1>4

LEMMA BindCheckKeeps ==
  ASSUME IInv, NEW q \in Reqs,
         BindCheck(q)
  PROVE  IInv'
<1> USE AccountsAssumption DEF IInv
<1>0. UNCHANGED <<conf, tables, uses>> /\ At(q, "binding")
  BY DEF BindCheck
<1>a. /\ req' = [req EXCEPT ![q] = req'[q]]
      /\ req'[q] \in Request
      /\ \/ req'[q] = Idle
         \/ /\ users[req[q].cur] = "active"
            /\ req'[q].pc = "bind"
            /\ req'[q].flow = req[q].flow
            /\ req'[q].subj = req[q].subj
            /\ req'[q].cur = req[q].cur
  BY <1>0 DEF BindCheck, At, Goto, Done, Idle, Types, RequestShape, RowShape,
     WithFlow, WithSubject, WithUser, Request, Identity, Inside, Awaits,
     Bound, Taken, ActiveOf
<1>1. Types'
  BY <1>0, <1>a DEF At, Idle, Types, UserStatus, Identity,
     UserSession, OAuthState, Request, Awaits, Inside, tables
<1>2. RequestShape'
  BY <1>0, <1>a DEF At, Idle, Types, RequestShape,
     RowShape, WithFlow, WithSubject, WithUser, tables, Request, Identity,
     UserSession, OAuthState, Bound, Taken
<1>3. RowShape'
  BY <1>0, <1>a DEF At, Idle, Types, RowShape, RequestShape,
     WithFlow, WithSubject, WithUser, Taken, Bound, tables, Identity,
     UserSession, OAuthState, Request
<1>4. ASSUME ~ conf'.race  PROVE OneProcess'
  <2>0. ~ conf.race /\ OneProcess
    BY <1>4, <1>0, <1>a
  <2>1. Alone'
    BY <2>0, <1>0, <1>a DEF OneProcess, At, Idle, Types, Alone,
       Turn, Awaits, tables
  <2>2. Checked'
    BY <2>0, <1>0, <1>a DEF OneProcess, At, Idle, Types,
       Alone, Checked, RequestShape, WithFlow, WithSubject, WithUser, Turn,
       Awaits, tables, Bound, Taken, ActiveOf
  <2>3. Once'
    BY <2>0, <1>0, <1>a DEF OneProcess, At, Idle, Types, Once,
       Alone, Checked, Past, RequestShape, WithFlow, Turn, Awaits, OAuthState,
       tables
  <2>4. Out'
    BY <2>0, <1>0, <1>a DEF OneProcess, At, Idle, Types, Out,
       Alone, Checked, RequestShape, RowShape, WithFlow, WithSubject,
       WithUser, Turn, Awaits, Identity, UserSession, tables, Bound, Taken,
       ActiveOf, SessionsOf
  <2>5. Last'
    BY <2>0, <1>0, <1>a DEF OneProcess, At, Idle, Types, Last,
       Alone, Checked, RequestShape, RowShape, WithFlow, WithSubject,
       WithUser, Turn, Awaits, Identity, tables, Bound, Taken, ActiveOf
  <2> QED  BY <2>1, <2>2, <2>3, <2>4, <2>5 DEF OneProcess
<1> QED  BY <1>1, <1>2, <1>3, <1>4

LEMMA BindKeeps ==
  ASSUME IInv, NEW q \in Reqs,
         Bind(q)
  PROVE  IInv'
<1> USE AccountsAssumption DEF IInv
<1>1. Types'
  <2>1. req[q].subj \in Subjects /\ req[q].cur \in Users /\ req[q].flow \in Flows
    BY DEF Bind, At, RequestShape, WithSubject, WithUser, WithFlow
  <2>2. [owner |-> req[q].cur, status |-> "active"] \in Identity
    BY <2>1 DEF Identity
  <2>3. ident' \in [Subjects -> Identity]
    BY <2>1, <2>2 DEF Bind, Types
  <2>4. uses' \in [Flows -> Nat]
    BY <2>1 DEF Bind, Types
  <2>5. Idle \in Request
    BY DEF Idle, Request, Awaits
  <2>6. req' \in [Reqs -> Request]
    BY <2>5 DEF Bind, Done, Types
  <2> QED  BY <2>1, <2>2, <2>3, <2>4, <2>5, <2>6 DEF Bind, Types
<1>2. RequestShape'
  BY DEF Bind, At, Done, Idle, Types, RequestShape,
     RowShape, WithFlow, WithSubject, WithUser, tables, Request, Identity,
     UserSession, OAuthState, Bound, Taken
<1>3. RowShape'
  BY DEF Bind, At, Done, Idle, Types, RowShape, RequestShape,
     WithFlow, WithSubject, WithUser, Taken, Bound, tables, Identity,
     UserSession, OAuthState, Request
<1>4. ASSUME ~ conf'.race  PROVE OneProcess'
  <2>0. ~ conf.race /\ OneProcess
    BY <1>4 DEF Bind, At, Done, Idle, tables
  <2>1. Alone'
    BY <2>0 DEF OneProcess, Bind, At, Done, Idle, Types, Alone,
       Turn, Awaits, tables
  <2>2. Checked'
    BY <2>0 DEF OneProcess, Bind, At, Done, Idle, Types,
       Alone, Checked, RequestShape, WithFlow, WithSubject, WithUser, Turn,
       Awaits, tables, Bound, Taken, ActiveOf
  <2>3. Once'
    BY <2>0 DEF OneProcess, Bind, At, Done, Idle, Types, Once,
       Alone, Checked, Past, RequestShape, WithFlow, Turn, Awaits, OAuthState,
       tables
  <2>4. Out'
    BY <2>0 DEF OneProcess, Bind, At, Done, Idle, Types, Out,
       Alone, Checked, RequestShape, RowShape, WithFlow, WithSubject,
       WithUser, Turn, Awaits, Identity, UserSession, tables, Bound, Taken,
       ActiveOf, SessionsOf
  <2>5. Last'
    BY <2>0 DEF OneProcess, Bind, At, Done, Idle, Types, Last,
       Alone, Checked, RequestShape, RowShape, WithFlow, WithSubject,
       WithUser, Turn, Awaits, Identity, tables, Bound, Taken, ActiveOf
  <2> QED  BY <2>1, <2>2, <2>3, <2>4, <2>5 DEF OneProcess
<1> QED  BY <1>1, <1>2, <1>3, <1>4

LEMMA FindKeeps ==
  ASSUME IInv, NEW q \in Reqs,
         Find(q)
  PROVE  IInv'
<1> USE AccountsAssumption DEF IInv
<1>0. UNCHANGED <<conf, tables, uses>> /\ At(q, "finding")
  BY DEF Find
<1>a. /\ req' = [req EXCEPT ![q] = req'[q]]
      /\ req'[q] \in Request
      /\ \/ req'[q] = Idle
         \/ /\ req'[q].pc = "register"
            /\ req'[q].flow = req[q].flow
            /\ req'[q].subj = req[q].subj
            /\ req'[q].cur = req[q].cur
         \/ /\ req'[q].cur \in Users
            /\ users[req'[q].cur] = "active"
            /\ req'[q].pc = "signin"
            /\ req'[q].flow = req[q].flow
            /\ req'[q].subj = req[q].subj
  BY <1>0 DEF Find, At, Goto, Done, Idle, Types, RequestShape, RowShape,
     WithFlow, WithSubject, WithUser, Request, Identity, Inside, Awaits,
     Bound, Taken, ActiveOf
<1>1. Types'
  BY <1>0, <1>a DEF At, Idle, Types, UserStatus, Identity,
     UserSession, OAuthState, Request, Awaits, Inside, tables
<1>2. RequestShape'
  BY <1>0, <1>a DEF At, Idle, Types, RequestShape,
     RowShape, WithFlow, WithSubject, WithUser, tables, Request, Identity,
     UserSession, OAuthState, Bound, Taken
<1>3. RowShape'
  BY <1>0, <1>a DEF At, Idle, Types, RowShape, RequestShape,
     WithFlow, WithSubject, WithUser, Taken, Bound, tables, Identity,
     UserSession, OAuthState, Request
<1>4. ASSUME ~ conf'.race  PROVE OneProcess'
  <2>0. ~ conf.race /\ OneProcess
    BY <1>4, <1>0, <1>a
  <2>1. Alone'
    BY <2>0, <1>0, <1>a DEF OneProcess, At, Idle, Types, Alone,
       Turn, Awaits, tables
  <2>2. Checked'
    BY <2>0, <1>0, <1>a DEF OneProcess, At, Idle, Types,
       Alone, Checked, RequestShape, WithFlow, WithSubject, WithUser, Turn,
       Awaits, tables, Bound, Taken, ActiveOf
  <2>3. Once'
    BY <2>0, <1>0, <1>a DEF OneProcess, At, Idle, Types, Once,
       Alone, Checked, Past, RequestShape, WithFlow, Turn, Awaits, OAuthState,
       tables
  <2>4. Out'
    BY <2>0, <1>0, <1>a DEF OneProcess, At, Idle, Types, Out,
       Alone, Checked, RequestShape, RowShape, WithFlow, WithSubject,
       WithUser, Turn, Awaits, Identity, UserSession, tables, Bound, Taken,
       ActiveOf, SessionsOf
  <2>5. Last'
    BY <2>0, <1>0, <1>a DEF OneProcess, At, Idle, Types, Last,
       Alone, Checked, RequestShape, RowShape, WithFlow, WithSubject,
       WithUser, Turn, Awaits, Identity, tables, Bound, Taken, ActiveOf
  <2> QED  BY <2>1, <2>2, <2>3, <2>4, <2>5 DEF OneProcess
<1> QED  BY <1>1, <1>2, <1>3, <1>4

LEMMA RegisterKeeps ==
  ASSUME IInv, NEW q \in Reqs, NEW u \in Users,
         Register(q, u)
  PROVE  IInv'
<1> USE AccountsAssumption DEF IInv
<1>0. UNCHANGED <<conf, sess, flows, uses>> /\ At(q, "register")
  BY DEF Register
<1>a. /\ req[q].subj \in Subjects
      /\ req' = [req EXCEPT ![q] = req'[q]]
      /\ req'[q] \in Request
      /\ \/ req'[q] = Idle /\ UNCHANGED <<users, ident>>
         \/ /\ users[u] = "none" /\ u # Dev
            /\ users' = [users EXCEPT ![u] = "active"]
            /\ ~ Taken(req[q].subj)
            /\ ident' = [ident EXCEPT ![req[q].subj] = [owner |-> u, status |-> "active"]]
            /\ req'[q].pc = "signin"
            /\ req'[q].flow = req[q].flow
            /\ req'[q].subj = req[q].subj
            /\ req'[q].cur = u
  BY <1>0 DEF Register, Done, Types, RequestShape, WithSubject, Idle, Request, Awaits, Inside, At
<1>b. ASSUME NEW v \in Users
      PROVE  \/ users'[v] = users[v]
             \/ v = u /\ users[v] = "none" /\ users'[v] = "active"
  <2>1. users' = users \/ (users[u] = "none" /\ users' = [users EXCEPT ![u] = "active"])
    BY <1>a
  <2>2. users \in [Users -> UserStatus]
    BY DEF Types
  <2>3. CASE users' = users
    BY <2>3
  <2>4. CASE users[u] = "none" /\ users' = [users EXCEPT ![u] = "active"]
    BY <2>2, <2>4
  <2> QED  BY <2>1, <2>3, <2>4
<1>c. \A x \in Subjects :
         \/ ident'[x] = ident[x]
         \/ /\ ident[x].owner = None /\ users[u] = "none" /\ users'[u] = "active"
            /\ ident'[x].owner = u /\ ident'[x].status = "active"
  BY <1>a DEF Types, Taken
<1>d. /\ \A r \in Reqs : r # q => req'[r] = req[r]
      /\ \/ req'[q] = Idle
         \/ /\ req'[q].pc = "signin"
            /\ req'[q].flow = req[q].flow
            /\ req'[q].subj = req[q].subj
            /\ req'[q].cur = u /\ users'[u] = "active"
  BY <1>a DEF Types
<1>1. Types'
  <2>1. [owner |-> u, status |-> "active"] \in Identity
    BY DEF Identity
  <2>2. users' \in [Users -> UserStatus]
    BY <1>a DEF Types, UserStatus
  <2>3. ident' \in [Subjects -> Identity]
    BY <1>a, <2>1 DEF Types
  <2>4. req' \in [Reqs -> Request]
    BY <1>a DEF Types
  <2> QED  BY <2>1, <2>2, <2>3, <2>4, <1>0 DEF Types
<1>2. RequestShape'
  BY <1>0, <1>b, <1>c, <1>d DEF At, Idle, Types,
     RequestShape, RowShape, WithFlow, WithSubject, WithUser, tables, Request,
     Identity, UserSession, OAuthState, Bound, Taken
<1>3. RowShape'
  BY <1>0, <1>b, <1>c, <1>d DEF At, Idle, Types, RowShape,
     RequestShape, WithFlow, WithSubject, WithUser, Taken, Bound, tables,
     Identity, UserSession, OAuthState, Request
<1>4. ASSUME ~ conf'.race  PROVE OneProcess'
  <2>0. ~ conf.race /\ OneProcess
    BY <1>4, <1>0, <1>b, <1>c, <1>d
  <2>1. Alone'
    BY <2>0, <1>0, <1>b, <1>c, <1>d DEF OneProcess, At, Idle,
       Types, Alone, Turn, Awaits, tables
  <2>2. Checked'
    BY <2>0, <1>0, <1>b, <1>c, <1>d DEF OneProcess, At, Idle,
       Types, Alone, Checked, RequestShape, WithFlow, WithSubject, WithUser,
       Turn, Awaits, tables, Bound, Taken, ActiveOf
  <2>3. Once'
    <3>1. \A r \in Reqs : req'[r].pc \in Past =>
             req[r].pc \in Past /\ req'[r].flow = req[r].flow
      BY <1>0, <1>d DEF At, Past, Idle
    <3> QED  BY <1>0, <2>0, <3>1 DEF OneProcess, Once
  <2>4. Out'
    BY <2>0, <1>0, <1>b, <1>c, <1>d DEF OneProcess, At, Idle,
       Types, Out, Alone, Checked, RequestShape, RowShape, WithFlow,
       WithSubject, WithUser, Turn, Awaits, Identity, UserSession, tables,
       Bound, Taken, ActiveOf, SessionsOf
  <2>5. Last'
    BY <2>0, <1>0, <1>b, <1>c, <1>d DEF OneProcess, At, Idle,
       Types, Last, Alone, Checked, RequestShape, RowShape, WithFlow,
       WithSubject, WithUser, Turn, Awaits, Identity, tables, Bound, Taken,
       ActiveOf
  <2> QED  BY <2>1, <2>2, <2>3, <2>4, <2>5 DEF OneProcess
<1> QED  BY <1>1, <1>2, <1>3, <1>4

LEMMA SessionCheckKeeps ==
  ASSUME IInv, NEW q \in Reqs,
         SessionCheck(q)
  PROVE  IInv'
<1> USE AccountsAssumption DEF IInv
<1>0. UNCHANGED <<conf, tables, uses>> /\ At(q, "signin")
  BY DEF SessionCheck
<1>a. /\ req' = [req EXCEPT ![q] = req'[q]]
      /\ req'[q] \in Request
      /\ \/ req'[q] = Idle
         \/ /\ users[req[q].cur] = "active"
            /\ req'[q].pc = "session"
            /\ req'[q].flow = req[q].flow
            /\ req'[q].subj = req[q].subj
            /\ req'[q].cur = req[q].cur
  BY <1>0 DEF SessionCheck, At, Goto, Done, Idle, Types, RequestShape,
     RowShape, WithFlow, WithSubject, WithUser, Request, Identity, Inside,
     Awaits, Bound, Taken, ActiveOf
<1>1. Types'
  BY <1>0, <1>a DEF At, Idle, Types, UserStatus, Identity,
     UserSession, OAuthState, Request, Awaits, Inside, tables
<1>2. RequestShape'
  BY <1>0, <1>a DEF At, Idle, Types, RequestShape,
     RowShape, WithFlow, WithSubject, WithUser, tables, Request, Identity,
     UserSession, OAuthState, Bound, Taken
<1>3. RowShape'
  BY <1>0, <1>a DEF At, Idle, Types, RowShape, RequestShape,
     WithFlow, WithSubject, WithUser, Taken, Bound, tables, Identity,
     UserSession, OAuthState, Request
<1>4. ASSUME ~ conf'.race  PROVE OneProcess'
  <2>0. ~ conf.race /\ OneProcess
    BY <1>4, <1>0, <1>a
  <2>1. Alone'
    BY <2>0, <1>0, <1>a DEF OneProcess, At, Idle, Types, Alone,
       Turn, Awaits, tables
  <2>2. Checked'
    BY <2>0, <1>0, <1>a DEF OneProcess, At, Idle, Types,
       Alone, Checked, RequestShape, WithFlow, WithSubject, WithUser, Turn,
       Awaits, tables, Bound, Taken, ActiveOf
  <2>3. Once'
    BY <2>0, <1>0, <1>a DEF OneProcess, At, Idle, Types, Once,
       Alone, Checked, Past, RequestShape, WithFlow, Turn, Awaits, OAuthState,
       tables
  <2>4. Out'
    BY <2>0, <1>0, <1>a DEF OneProcess, At, Idle, Types, Out,
       Alone, Checked, RequestShape, RowShape, WithFlow, WithSubject,
       WithUser, Turn, Awaits, Identity, UserSession, tables, Bound, Taken,
       ActiveOf, SessionsOf
  <2>5. Last'
    BY <2>0, <1>0, <1>a DEF OneProcess, At, Idle, Types, Last,
       Alone, Checked, RequestShape, RowShape, WithFlow, WithSubject,
       WithUser, Turn, Awaits, Identity, tables, Bound, Taken, ActiveOf
  <2> QED  BY <2>1, <2>2, <2>3, <2>4, <2>5 DEF OneProcess
<1> QED  BY <1>1, <1>2, <1>3, <1>4

LEMMA CreateSessionKeeps ==
  ASSUME IInv, NEW q \in Reqs, NEW t \in Tokens,
         CreateSession(q, t)
  PROVE  IInv'
<1> USE AccountsAssumption DEF IInv
<1>1. Types'
  <2>1. req[q].cur \in Users /\ req[q].flow \in Flows
    BY DEF CreateSession, At, RequestShape, WithUser, WithFlow
  <2>2. [user |-> req[q].cur, state |-> "live"] \in UserSession
    BY <2>1 DEF UserSession
  <2>3. sess' \in [Tokens -> UserSession]
    BY <2>2 DEF CreateSession, Types
  <2>4. uses' \in [Flows -> Nat]
    BY <2>1 DEF CreateSession, Types
  <2>5. Idle \in Request
    BY DEF Idle, Request, Awaits
  <2>6. req' \in [Reqs -> Request]
    BY <2>5 DEF CreateSession, Done, Types
  <2> QED  BY <2>1, <2>2, <2>3, <2>4, <2>5, <2>6 DEF CreateSession, Types
<1>2. RequestShape'
  BY DEF CreateSession, At, Done, Idle, Types,
     RequestShape, RowShape, WithFlow, WithSubject, WithUser, tables, Request,
     Identity, UserSession, OAuthState, Bound, Taken
<1>3. RowShape'
  BY DEF CreateSession, At, Done, Idle, Types, RowShape,
     RequestShape, WithFlow, WithSubject, WithUser, Taken, Bound, tables,
     Identity, UserSession, OAuthState, Request
<1>4. ASSUME ~ conf'.race  PROVE OneProcess'
  <2>0. ~ conf.race /\ OneProcess
    BY <1>4 DEF CreateSession, At, Done, Idle, tables
  <2>1. Alone'
    BY <2>0 DEF OneProcess, CreateSession, At, Done, Idle,
       Types, Alone, Turn, Awaits, tables
  <2>2. Checked'
    BY <2>0 DEF OneProcess, CreateSession, At, Done, Idle,
       Types, Alone, Checked, RequestShape, WithFlow, WithSubject, WithUser,
       Turn, Awaits, tables, Bound, Taken, ActiveOf
  <2>3. Once'
    BY <2>0 DEF OneProcess, CreateSession, At, Done, Idle,
       Types, Once, Alone, Checked, Past, RequestShape, WithFlow, Turn,
       Awaits, OAuthState, tables
  <2>4. Out'
    BY <2>0 DEF OneProcess, CreateSession, At, Done, Idle, Types,
       Out, Alone, Checked, RequestShape, RowShape, WithFlow, WithSubject,
       WithUser, Turn, Awaits, Identity, UserSession, tables, Bound, Taken,
       ActiveOf, SessionsOf
  <2>5. Last'
    BY <2>0 DEF OneProcess, CreateSession, At, Done, Idle,
       Types, Last, Alone, Checked, RequestShape, RowShape, WithFlow,
       WithSubject, WithUser, Turn, Awaits, Identity, tables, Bound, Taken,
       ActiveOf
  <2> QED  BY <2>1, <2>2, <2>3, <2>4, <2>5 DEF OneProcess
<1> QED  BY <1>1, <1>2, <1>3, <1>4

LEMMA OutOfIdsKeeps ==
  ASSUME IInv, NEW q \in Reqs,
         OutOfIds(q)
  PROVE  IInv'
<1> USE AccountsAssumption DEF IInv
<1>1. Types'
  BY DEF OutOfIds, At, Done, Idle, Types, UserStatus, Identity,
     UserSession, OAuthState, Request, Awaits, Inside, tables
<1>2. RequestShape'
  BY DEF OutOfIds, At, Done, Idle, Types, RequestShape,
     RowShape, WithFlow, WithSubject, WithUser, tables, Request, Identity,
     UserSession, OAuthState, Bound, Taken
<1>3. RowShape'
  BY DEF OutOfIds, At, Done, Idle, Types, RowShape,
     RequestShape, WithFlow, WithSubject, WithUser, Taken, Bound, tables,
     Identity, UserSession, OAuthState, Request
<1>4. ASSUME ~ conf'.race  PROVE OneProcess'
  <2>0. ~ conf.race /\ OneProcess
    BY <1>4 DEF OutOfIds, At, Done, Idle, tables
  <2>1. Alone'
    BY <2>0 DEF OneProcess, OutOfIds, At, Done, Idle, Types,
       Alone, Turn, Awaits, tables
  <2>2. Checked'
    BY <2>0 DEF OneProcess, OutOfIds, At, Done, Idle, Types,
       Alone, Checked, RequestShape, WithFlow, WithSubject, WithUser, Turn,
       Awaits, tables, Bound, Taken, ActiveOf
  <2>3. Once'
    BY <2>0 DEF OneProcess, OutOfIds, At, Done, Idle, Types,
       Once, Alone, Checked, Past, RequestShape, WithFlow, Turn, Awaits,
       OAuthState, tables
  <2>4. Out'
    BY <2>0 DEF OneProcess, OutOfIds, At, Done, Idle, Types, Out,
       Alone, Checked, RequestShape, RowShape, WithFlow, WithSubject,
       WithUser, Turn, Awaits, Identity, UserSession, tables, Bound, Taken,
       ActiveOf, SessionsOf
  <2>5. Last'
    BY <2>0 DEF OneProcess, OutOfIds, At, Done, Idle, Types,
       Last, Alone, Checked, RequestShape, RowShape, WithFlow, WithSubject,
       WithUser, Turn, Awaits, Identity, tables, Bound, Taken, ActiveOf
  <2> QED  BY <2>1, <2>2, <2>3, <2>4, <2>5 DEF OneProcess
<1> QED  BY <1>1, <1>2, <1>3, <1>4

LEMMA ProviderLinkKeeps ==
  ASSUME IInv, NEW q \in Reqs, NEW f \in Flows,
         ProviderLink(q, f)
  PROVE  IInv'
<1> USE AccountsAssumption DEF IInv
<1>1. Types'
  BY DEF ProviderLink, NewState, At, Done, Idle, Types,
     UserStatus, Identity, UserSession, OAuthState, Request, Awaits, Inside,
     tables
<1>2. RequestShape'
  BY DEF ProviderLink, NewState, At, Done, Idle, Types,
     RequestShape, RowShape, WithFlow, WithSubject, WithUser, tables, Request,
     Identity, UserSession, OAuthState, Bound, Taken
<1>3. RowShape'
  BY DEF ProviderLink, NewState, At, Done, Idle, Types,
     RowShape, RequestShape, WithFlow, WithSubject, WithUser, Taken, Bound,
     tables, Identity, UserSession, OAuthState, Request
<1>4. ASSUME ~ conf'.race  PROVE OneProcess'
  <2>0. ~ conf.race /\ OneProcess
    BY <1>4 DEF ProviderLink, NewState, At, Done, Idle, tables
  <2>1. Alone'
    BY <2>0 DEF OneProcess, ProviderLink, NewState, At, Done,
       Idle, Types, Alone, Turn, Awaits, tables
  <2>2. Checked'
    BY <2>0 DEF OneProcess, ProviderLink, NewState, At, Done,
       Idle, Types, Alone, Checked, RequestShape, WithFlow, WithSubject,
       WithUser, Turn, Awaits, tables, Bound, Taken, ActiveOf
  <2>3. Once'
    BY <2>0 DEF OneProcess, ProviderLink, NewState, At, Done,
       Idle, Types, Once, Alone, Checked, Past, RequestShape, WithFlow, Turn,
       Awaits, OAuthState, tables
  <2>4. Out'
    BY <2>0 DEF OneProcess, ProviderLink, NewState, At, Done,
       Idle, Types, Out, Alone, Checked, RequestShape, RowShape, WithFlow,
       WithSubject, WithUser, Turn, Awaits, Identity, UserSession, tables,
       Bound, Taken, ActiveOf, SessionsOf
  <2>5. Last'
    BY <2>0 DEF OneProcess, ProviderLink, NewState, At, Done,
       Idle, Types, Last, Alone, Checked, RequestShape, RowShape, WithFlow,
       WithSubject, WithUser, Turn, Awaits, Identity, tables, Bound, Taken,
       ActiveOf
  <2> QED  BY <2>1, <2>2, <2>3, <2>4, <2>5 DEF OneProcess
<1> QED  BY <1>1, <1>2, <1>3, <1>4

LEMMA UnbindCheckKeeps ==
  ASSUME IInv, NEW q \in Reqs, NEW s \in Subjects,
         UnbindCheck(q, s)
  PROVE  IInv'
<1> USE AccountsAssumption DEF IInv
<1>0. UNCHANGED <<conf, tables, uses>> /\ At(q, "unbind")
  BY DEF UnbindCheck
<1>z. ASSUME s \in ActiveOf(req[q].cur), Cardinality(ActiveOf(req[q].cur)) > 1
      PROVE  \E x \in ActiveOf(req[q].cur) : x # s
  <2> SUFFICES ASSUME ActiveOf(req[q].cur) = {s}  PROVE FALSE
    BY <1>z
  <2> QED  BY <1>z, FS_Singleton
<1>a. /\ req' = [req EXCEPT ![q] = req'[q]]
      /\ req'[q] \in Request
      /\ \/ req'[q] = Idle
         \/ /\ ident[s].owner = req[q].cur
            /\ \E x \in ActiveOf(req[q].cur) : x # s
            /\ req'[q].pc = "unbinding"
            /\ req'[q].flow = req[q].flow
            /\ req'[q].subj = s
            /\ req'[q].cur = req[q].cur
  BY <1>0, <1>z DEF UnbindCheck, At, Done, Idle, Types, RequestShape,
     RowShape, WithFlow, WithSubject, WithUser, Request, Identity, Inside,
     Awaits, Bound, Taken, ActiveOf
<1>1. Types'
  BY <1>0, <1>a DEF At, Idle, Types, UserStatus, Identity,
     UserSession, OAuthState, Request, Awaits, Inside, tables
<1>2. RequestShape'
  BY <1>0, <1>a DEF At, Idle, Types, RequestShape,
     RowShape, WithFlow, WithSubject, WithUser, tables, Request, Identity,
     UserSession, OAuthState, Bound, Taken
<1>3. RowShape'
  BY <1>0, <1>a DEF At, Idle, Types, RowShape, RequestShape,
     WithFlow, WithSubject, WithUser, Taken, Bound, tables, Identity,
     UserSession, OAuthState, Request
<1>4. ASSUME ~ conf'.race  PROVE OneProcess'
  <2>0. ~ conf.race /\ OneProcess
    BY <1>4, <1>0, <1>a
  <2>1. Alone'
    BY <2>0, <1>0, <1>a DEF OneProcess, At, Idle, Types, Alone,
       Turn, Awaits, tables
  <2>2. Checked'
    BY <2>0, <1>0, <1>a DEF OneProcess, At, Idle, Types,
       Alone, Checked, RequestShape, WithFlow, WithSubject, WithUser, Turn,
       Awaits, tables, Bound, Taken, ActiveOf
  <2>3. Once'
    BY <2>0, <1>0, <1>a DEF OneProcess, At, Idle, Types, Once,
       Alone, Checked, Past, RequestShape, WithFlow, Turn, Awaits, OAuthState,
       tables
  <2>4. Out'
    BY <2>0, <1>0, <1>a DEF OneProcess, At, Idle, Types, Out,
       Alone, Checked, RequestShape, RowShape, WithFlow, WithSubject,
       WithUser, Turn, Awaits, Identity, UserSession, tables, Bound, Taken,
       ActiveOf, SessionsOf
  <2>5. Last'
    BY <2>0, <1>0, <1>a DEF OneProcess, At, Idle, Types, Last,
       Alone, Checked, RequestShape, RowShape, WithFlow, WithSubject,
       WithUser, Turn, Awaits, Identity, tables, Bound, Taken, ActiveOf
  <2> QED  BY <2>1, <2>2, <2>3, <2>4, <2>5 DEF OneProcess
<1> QED  BY <1>1, <1>2, <1>3, <1>4

LEMMA UnbindKeeps ==
  ASSUME IInv, NEW q \in Reqs,
         Unbind(q)
  PROVE  IInv'
<1> USE AccountsAssumption DEF IInv
<1>1. Types'
  <2>1. req[q].subj \in Subjects
    BY DEF Unbind, At, RequestShape, WithSubject
  <2>2. ident[req[q].subj] \in Identity
    BY <2>1 DEF Types
  <2>3. [ident[req[q].subj] EXCEPT !.status = "unlinked"] \in Identity
    BY <2>2 DEF Identity
  <2>4. ident' \in [Subjects -> Identity]
    BY <2>1, <2>3 DEF Unbind, Types
  <2>5. Idle \in Request
    BY DEF Idle, Request, Awaits
  <2>6. req' \in [Reqs -> Request]
    BY <2>5 DEF Unbind, Done, Types
  <2> QED  BY <2>1, <2>2, <2>3, <2>4, <2>5, <2>6 DEF Unbind, Types
<1>2. RequestShape'
  BY DEF Unbind, At, Done, Idle, Types, RequestShape,
     RowShape, WithFlow, WithSubject, WithUser, tables, Request, Identity,
     UserSession, OAuthState, Bound, Taken
<1>3. RowShape'
  BY DEF Unbind, At, Done, Idle, Types, RowShape,
     RequestShape, WithFlow, WithSubject, WithUser, Taken, Bound, tables,
     Identity, UserSession, OAuthState, Request
<1>4. ASSUME ~ conf'.race  PROVE OneProcess'
  <2>0. ~ conf.race /\ OneProcess
    BY <1>4 DEF Unbind, At, Done, Idle, tables
  <2>1. Alone'
    BY <2>0 DEF OneProcess, Unbind, At, Done, Idle, Types,
       Alone, Turn, Awaits, tables
  <2>2. Checked'
    BY <2>0 DEF OneProcess, Unbind, At, Done, Idle, Types,
       Alone, Checked, RequestShape, WithFlow, WithSubject, WithUser, Turn,
       Awaits, tables, Bound, Taken, ActiveOf
  <2>3. Once'
    BY <2>0 DEF OneProcess, Unbind, At, Done, Idle, Types, Once,
       Alone, Checked, Past, RequestShape, WithFlow, Turn, Awaits, OAuthState,
       tables
  <2>4. Out'
    BY <2>0 DEF OneProcess, Unbind, At, Done, Idle, Types, Out,
       Alone, Checked, RequestShape, RowShape, WithFlow, WithSubject,
       WithUser, Turn, Awaits, Identity, UserSession, tables, Bound, Taken,
       ActiveOf, SessionsOf
  <2>5. Last'
    BY <2>0 DEF OneProcess, Unbind, At, Done, Idle, Types, Last,
       Alone, Checked, RequestShape, RowShape, WithFlow, WithSubject,
       WithUser, Turn, Awaits, Identity, tables, Bound, Taken, ActiveOf
  <2> QED  BY <2>1, <2>2, <2>3, <2>4, <2>5 DEF OneProcess
<1> QED  BY <1>1, <1>2, <1>3, <1>4

LEMMA LogoutAllKeeps ==
  ASSUME IInv, NEW q \in Reqs,
         LogoutAll(q)
  PROVE  IInv'
<1> USE AccountsAssumption DEF IInv
<1>1. Types'
  BY DEF LogoutAll, At, Done, Idle, Revoke, SessionsOf, Types,
     UserStatus, Identity, UserSession, OAuthState, Request, Awaits, Inside,
     tables
<1>2. RequestShape'
  BY DEF LogoutAll, At, Done, Idle, Revoke, SessionsOf,
     Types, RequestShape, RowShape, WithFlow, WithSubject, WithUser, tables,
     Request, Identity, UserSession, OAuthState, Bound, Taken
<1>3. RowShape'
  BY DEF LogoutAll, At, Done, Idle, Revoke, SessionsOf, Types,
     RowShape, RequestShape, WithFlow, WithSubject, WithUser, Taken, Bound,
     tables, Identity, UserSession, OAuthState, Request
<1>4. ASSUME ~ conf'.race  PROVE OneProcess'
  <2>0. ~ conf.race /\ OneProcess
    BY <1>4 DEF LogoutAll, At, Done, Idle, Revoke, SessionsOf, tables
  <2>1. Alone'
    BY <2>0 DEF OneProcess, LogoutAll, At, Done, Idle, Revoke,
       SessionsOf, Types, Alone, Turn, Awaits, tables
  <2>2. Checked'
    BY <2>0 DEF OneProcess, LogoutAll, At, Done, Idle,
       Revoke, SessionsOf, Types, Alone, Checked, RequestShape, WithFlow,
       WithSubject, WithUser, Turn, Awaits, tables, Bound, Taken, ActiveOf
  <2>3. Once'
    BY <2>0 DEF OneProcess, LogoutAll, At, Done, Idle, Revoke,
       SessionsOf, Types, Once, Alone, Checked, Past, RequestShape, WithFlow,
       Turn, Awaits, OAuthState, tables
  <2>4. Out'
    BY <2>0 DEF OneProcess, LogoutAll, At, Done, Idle, Revoke,
       SessionsOf, Types, Out, Alone, Checked, RequestShape, RowShape,
       WithFlow, WithSubject, WithUser, Turn, Awaits, Identity, UserSession,
       tables, Bound, Taken, ActiveOf
  <2>5. Last'
    BY <2>0 DEF OneProcess, LogoutAll, At, Done, Idle, Revoke,
       SessionsOf, Types, Last, Alone, Checked, RequestShape, RowShape,
       WithFlow, WithSubject, WithUser, Turn, Awaits, Identity, tables, Bound,
       Taken, ActiveOf
  <2> QED  BY <2>1, <2>2, <2>3, <2>4, <2>5 DEF OneProcess
<1> QED  BY <1>1, <1>2, <1>3, <1>4

LEMMA NotAdminKeeps ==
  ASSUME IInv, NEW q \in Reqs,
         NotAdmin(q)
  PROVE  IInv'
<1> USE AccountsAssumption DEF IInv
<1>1. Types'
  BY DEF NotAdmin, At, Done, Idle, Types, UserStatus, Identity,
     UserSession, OAuthState, Request, Awaits, Inside, tables
<1>2. RequestShape'
  BY DEF NotAdmin, At, Done, Idle, Types, RequestShape,
     RowShape, WithFlow, WithSubject, WithUser, tables, Request, Identity,
     UserSession, OAuthState, Bound, Taken
<1>3. RowShape'
  BY DEF NotAdmin, At, Done, Idle, Types, RowShape,
     RequestShape, WithFlow, WithSubject, WithUser, Taken, Bound, tables,
     Identity, UserSession, OAuthState, Request
<1>4. ASSUME ~ conf'.race  PROVE OneProcess'
  <2>0. ~ conf.race /\ OneProcess
    BY <1>4 DEF NotAdmin, At, Done, Idle, tables
  <2>1. Alone'
    BY <2>0 DEF OneProcess, NotAdmin, At, Done, Idle, Types,
       Alone, Turn, Awaits, tables
  <2>2. Checked'
    BY <2>0 DEF OneProcess, NotAdmin, At, Done, Idle, Types,
       Alone, Checked, RequestShape, WithFlow, WithSubject, WithUser, Turn,
       Awaits, tables, Bound, Taken, ActiveOf
  <2>3. Once'
    BY <2>0 DEF OneProcess, NotAdmin, At, Done, Idle, Types,
       Once, Alone, Checked, Past, RequestShape, WithFlow, Turn, Awaits,
       OAuthState, tables
  <2>4. Out'
    BY <2>0 DEF OneProcess, NotAdmin, At, Done, Idle, Types, Out,
       Alone, Checked, RequestShape, RowShape, WithFlow, WithSubject,
       WithUser, Turn, Awaits, Identity, UserSession, tables, Bound, Taken,
       ActiveOf, SessionsOf
  <2>5. Last'
    BY <2>0 DEF OneProcess, NotAdmin, At, Done, Idle, Types,
       Last, Alone, Checked, RequestShape, RowShape, WithFlow, WithSubject,
       WithUser, Turn, Awaits, Identity, tables, Bound, Taken, ActiveOf
  <2> QED  BY <2>1, <2>2, <2>3, <2>4, <2>5 DEF OneProcess
<1> QED  BY <1>1, <1>2, <1>3, <1>4

LEMMA CreateUserKeeps ==
  ASSUME IInv, NEW q \in Reqs, NEW u \in Users,
         CreateUser(q, u)
  PROVE  IInv'
<1> USE AccountsAssumption DEF IInv
<1>1. Types'
  BY DEF CreateUser, Admin, At, Done, Idle, Types, UserStatus,
     Identity, UserSession, OAuthState, Request, Awaits, Inside, tables
<1>2. RequestShape'
  BY DEF CreateUser, Admin, At, Done, Idle, Types,
     RequestShape, RowShape, WithFlow, WithSubject, WithUser, tables, Request,
     Identity, UserSession, OAuthState, Bound, Taken
<1>3. RowShape'
  BY DEF CreateUser, Admin, At, Done, Idle, Types, RowShape,
     RequestShape, WithFlow, WithSubject, WithUser, Taken, Bound, tables,
     Identity, UserSession, OAuthState, Request
<1>4. ASSUME ~ conf'.race  PROVE OneProcess'
  <2>0. ~ conf.race /\ OneProcess
    BY <1>4 DEF CreateUser, Admin, At, Done, Idle, tables
  <2>1. Alone'
    BY <2>0 DEF OneProcess, CreateUser, Admin, At, Done, Idle,
       Types, Alone, Turn, Awaits, tables
  <2>2. Checked'
    BY <2>0 DEF OneProcess, CreateUser, Admin, At, Done,
       Idle, Types, Alone, Checked, RequestShape, WithFlow, WithSubject,
       WithUser, Turn, Awaits, tables, Bound, Taken, ActiveOf
  <2>3. Once'
    BY <2>0 DEF OneProcess, CreateUser, Admin, At, Done, Idle,
       Types, Once, Alone, Checked, Past, RequestShape, WithFlow, Turn,
       Awaits, OAuthState, tables
  <2>4. Out'
    BY <2>0 DEF OneProcess, CreateUser, Admin, At, Done, Idle,
       Types, Out, Alone, Checked, RequestShape, RowShape, WithFlow,
       WithSubject, WithUser, Turn, Awaits, Identity, UserSession, tables,
       Bound, Taken, ActiveOf, SessionsOf
  <2>5. Last'
    BY <2>0 DEF OneProcess, CreateUser, Admin, At, Done, Idle,
       Types, Last, Alone, Checked, RequestShape, RowShape, WithFlow,
       WithSubject, WithUser, Turn, Awaits, Identity, tables, Bound, Taken,
       ActiveOf
  <2> QED  BY <2>1, <2>2, <2>3, <2>4, <2>5 DEF OneProcess
<1> QED  BY <1>1, <1>2, <1>3, <1>4

LEMMA DisableUserKeeps ==
  ASSUME IInv, NEW q \in Reqs, NEW u \in Users,
         DisableUser(q, u)
  PROVE  IInv'
<1> USE AccountsAssumption DEF IInv
<1>1. Types'
  BY DEF DisableUser, Admin, At, Done, Idle, Revoke, SessionsOf,
     Types, UserStatus, Identity, UserSession, OAuthState, Request, Awaits,
     Inside, tables
<1>2. RequestShape'
  BY DEF DisableUser, Admin, At, Done, Idle, Revoke,
     SessionsOf, Types, RequestShape, RowShape, WithFlow, WithSubject,
     WithUser, tables, Request, Identity, UserSession, OAuthState, Bound,
     Taken
<1>3. RowShape'
  BY DEF DisableUser, Admin, At, Done, Idle, Revoke,
     SessionsOf, Types, RowShape, RequestShape, WithFlow, WithSubject,
     WithUser, Taken, Bound, tables, Identity, UserSession, OAuthState,
     Request
<1>4. ASSUME ~ conf'.race  PROVE OneProcess'
  <2>0. ~ conf.race /\ OneProcess
    BY <1>4 DEF DisableUser, Admin, At, Done, Idle, Revoke, SessionsOf, tables
  <2>1. Alone'
    BY <2>0 DEF OneProcess, DisableUser, Admin, At, Done, Idle,
       Revoke, SessionsOf, Types, Alone, Turn, Awaits, tables
  <2>2. Checked'
    BY <2>0 DEF OneProcess, DisableUser, Admin, At, Done,
       Idle, Revoke, SessionsOf, Types, Alone, Checked, RequestShape,
       WithFlow, WithSubject, WithUser, Turn, Awaits, tables, Bound, Taken,
       ActiveOf
  <2>3. Once'
    BY <2>0 DEF OneProcess, DisableUser, Admin, At, Done, Idle,
       Revoke, SessionsOf, Types, Once, Alone, Checked, Past, RequestShape,
       WithFlow, Turn, Awaits, OAuthState, tables
  <2>4. Out'
    BY <2>0 DEF OneProcess, DisableUser, Admin, At, Done, Idle,
       Revoke, SessionsOf, Types, Out, Alone, Checked, RequestShape, RowShape,
       WithFlow, WithSubject, WithUser, Turn, Awaits, Identity, UserSession,
       tables, Bound, Taken, ActiveOf
  <2>5. Last'
    BY <2>0 DEF OneProcess, DisableUser, Admin, At, Done, Idle,
       Revoke, SessionsOf, Types, Last, Alone, Checked, RequestShape,
       RowShape, WithFlow, WithSubject, WithUser, Turn, Awaits, Identity,
       tables, Bound, Taken, ActiveOf
  <2> QED  BY <2>1, <2>2, <2>3, <2>4, <2>5 DEF OneProcess
<1> QED  BY <1>1, <1>2, <1>3, <1>4

LEMMA SoftDeleteUserKeeps ==
  ASSUME IInv, NEW q \in Reqs, NEW u \in Users,
         SoftDeleteUser(q, u)
  PROVE  IInv'
<1> USE AccountsAssumption DEF IInv
<1>1. Types'
  <2>1. users' \in [Users -> UserStatus]
    BY DEF SoftDeleteUser, Types, UserStatus
  <2>2. \A x \in Subjects : ident[x] \in Identity
    BY DEF Types
  <2>3. \A x \in Subjects : [ident[x] EXCEPT !.status = "disabled"] \in Identity
    BY <2>2 DEF Identity
  <2>4. ident' \in [Subjects -> Identity]
    BY <2>2, <2>3 DEF SoftDeleteUser
  <2>5. \A t \in Tokens : sess[t] \in UserSession
    BY DEF Types
  <2>6. \A t \in Tokens : [sess[t] EXCEPT !.state = "revoked"] \in UserSession
    BY <2>5 DEF UserSession
  <2>7. sess' \in [Tokens -> UserSession]
    BY <2>5, <2>6 DEF SoftDeleteUser, Revoke
  <2>8. Idle \in Request
    BY DEF Idle, Request, Awaits
  <2>9. req' \in [Reqs -> Request]
    BY <2>8 DEF SoftDeleteUser, Admin, Done, Types
  <2> QED  BY <2>1, <2>2, <2>3, <2>4, <2>5, <2>6, <2>7, <2>8, <2>9 DEF SoftDeleteUser, Admin, Types
<1>2. RequestShape'
  BY DEF SoftDeleteUser, Admin, At, Done, Idle, Revoke,
     SessionsOf, Types, RequestShape, RowShape, WithFlow, WithSubject,
     WithUser, tables, Request, Identity, UserSession, OAuthState, Bound,
     Taken
<1>3. RowShape'
  BY DEF SoftDeleteUser, Admin, At, Done, Idle, Revoke,
     SessionsOf, Types, RowShape, RequestShape, WithFlow, WithSubject,
     WithUser, Taken, Bound, tables, Identity, UserSession, OAuthState,
     Request
<1>4. ASSUME ~ conf'.race  PROVE OneProcess'
  <2>0. ~ conf.race /\ OneProcess
    BY <1>4 DEF SoftDeleteUser, Admin, At, Done, Idle, Revoke, SessionsOf, tables
  <2>1. Alone'
    BY <2>0 DEF OneProcess, SoftDeleteUser, Admin, At, Done,
       Idle, Revoke, SessionsOf, Types, Alone, Turn, Awaits, tables
  <2>2. Checked'
    BY <2>0 DEF OneProcess, SoftDeleteUser, Admin, At, Done,
       Idle, Revoke, SessionsOf, Types, Alone, Checked, RequestShape,
       WithFlow, WithSubject, WithUser, Turn, Awaits, tables, Bound, Taken,
       ActiveOf
  <2>3. Once'
    BY <2>0 DEF OneProcess, SoftDeleteUser, Admin, At, Done,
       Idle, Revoke, SessionsOf, Types, Once, Alone, Checked, Past,
       RequestShape, WithFlow, Turn, Awaits, OAuthState, tables
  <2>4. Out'
    BY <2>0 DEF OneProcess, SoftDeleteUser, Admin, At, Done,
       Idle, Revoke, SessionsOf, Types, Out, Alone, Checked, RequestShape,
       RowShape, WithFlow, WithSubject, WithUser, Turn, Awaits, Identity,
       UserSession, tables, Bound, Taken, ActiveOf
  <2>5. Last'
    BY <2>0 DEF OneProcess, SoftDeleteUser, Admin, At, Done,
       Idle, Revoke, SessionsOf, Types, Last, Alone, Checked, RequestShape,
       RowShape, WithFlow, WithSubject, WithUser, Turn, Awaits, Identity,
       tables, Bound, Taken, ActiveOf
  <2> QED  BY <2>1, <2>2, <2>3, <2>4, <2>5 DEF OneProcess
<1> QED  BY <1>1, <1>2, <1>3, <1>4

LEMMA ProviderLoginKeeps ==
  ASSUME IInv, NEW f \in Flows,
         ProviderLogin(f)
  PROVE  IInv'
<1> USE AccountsAssumption DEF IInv
<1>1. Types'
  BY DEF ProviderLogin, NewState, Types, UserStatus, Identity,
     UserSession, OAuthState, Request, Awaits, Inside, tables
<1>2. RequestShape'
  BY DEF ProviderLogin, NewState, Types, RequestShape,
     RowShape, WithFlow, WithSubject, WithUser, tables, Request, Identity,
     UserSession, OAuthState, Bound, Taken
<1>3. RowShape'
  BY DEF ProviderLogin, NewState, Types, RowShape,
     RequestShape, WithFlow, WithSubject, WithUser, Taken, Bound, tables,
     Identity, UserSession, OAuthState, Request
<1>4. ASSUME ~ conf'.race  PROVE OneProcess'
  <2>0. ~ conf.race /\ OneProcess
    BY <1>4 DEF ProviderLogin, NewState, tables
  <2>1. Alone'
    BY <2>0 DEF OneProcess, ProviderLogin, NewState, Types,
       Alone, Turn, Awaits, tables
  <2>2. Checked'
    BY <2>0 DEF OneProcess, ProviderLogin, NewState, Types,
       Alone, Checked, RequestShape, WithFlow, WithSubject, WithUser, Turn,
       Awaits, tables, Bound, Taken, ActiveOf
  <2>3. Once'
    BY <2>0 DEF OneProcess, ProviderLogin, NewState, Types,
       Once, Alone, Checked, Past, RequestShape, WithFlow, Turn, Awaits,
       OAuthState, tables
  <2>4. Out'
    BY <2>0 DEF OneProcess, ProviderLogin, NewState, Types, Out,
       Alone, Checked, RequestShape, RowShape, WithFlow, WithSubject,
       WithUser, Turn, Awaits, Identity, UserSession, tables, Bound, Taken,
       ActiveOf, SessionsOf
  <2>5. Last'
    BY <2>0 DEF OneProcess, ProviderLogin, NewState, Types,
       Last, Alone, Checked, RequestShape, RowShape, WithFlow, WithSubject,
       WithUser, Turn, Awaits, Identity, tables, Bound, Taken, ActiveOf
  <2> QED  BY <2>1, <2>2, <2>3, <2>4, <2>5 DEF OneProcess
<1> QED  BY <1>1, <1>2, <1>3, <1>4

LEMMA StateExpiresKeeps ==
  ASSUME IInv, NEW f \in Flows,
         StateExpires(f)
  PROVE  IInv'
<1> USE AccountsAssumption DEF IInv
<1>1. Types'
  <2>1. flows[f] \in OAuthState
    BY DEF Types
  <2>2. [flows[f] EXCEPT !.stage = "expired"] \in OAuthState
    BY <2>1 DEF OAuthState
  <2>3. flows' \in [Flows -> OAuthState]
    BY <2>2 DEF StateExpires, Types
  <2> QED  BY <2>1, <2>2, <2>3 DEF StateExpires, Types, tables
<1>2. RequestShape'
  BY DEF StateExpires, Types, RequestShape, RowShape,
     WithFlow, WithSubject, WithUser, tables, Request, Identity, UserSession,
     OAuthState, Bound, Taken
<1>3. RowShape'
  BY DEF StateExpires, Types, RowShape, RequestShape,
     WithFlow, WithSubject, WithUser, Taken, Bound, tables, Identity,
     UserSession, OAuthState, Request
<1>4. ASSUME ~ conf'.race  PROVE OneProcess'
  <2>0. ~ conf.race /\ OneProcess
    BY <1>4 DEF StateExpires, tables
  <2>1. Alone'
    BY <2>0 DEF OneProcess, StateExpires, Types, Alone, Turn,
       Awaits, tables
  <2>2. Checked'
    BY <2>0 DEF OneProcess, StateExpires, Types, Alone,
       Checked, RequestShape, WithFlow, WithSubject, WithUser, Turn, Awaits,
       tables, Bound, Taken, ActiveOf
  <2>3. Once'
    BY <2>0 DEF OneProcess, StateExpires, Types, Once, Alone,
       Checked, Past, RequestShape, WithFlow, Turn, Awaits, OAuthState, tables
  <2>4. Out'
    BY <2>0 DEF OneProcess, StateExpires, Types, Out, Alone,
       Checked, RequestShape, RowShape, WithFlow, WithSubject, WithUser, Turn,
       Awaits, Identity, UserSession, tables, Bound, Taken, ActiveOf,
       SessionsOf
  <2>5. Last'
    BY <2>0 DEF OneProcess, StateExpires, Types, Last, Alone,
       Checked, RequestShape, RowShape, WithFlow, WithSubject, WithUser, Turn,
       Awaits, Identity, tables, Bound, Taken, ActiveOf
  <2> QED  BY <2>1, <2>2, <2>3, <2>4, <2>5 DEF OneProcess
<1> QED  BY <1>1, <1>2, <1>3, <1>4

LEMMA CleanupStateKeeps ==
  ASSUME IInv, NEW f \in Flows,
         CleanupState(f)
  PROVE  IInv'
<1> USE AccountsAssumption DEF IInv
<1>1. Types'
  <2>1. flows[f] \in OAuthState
    BY DEF Types
  <2>2. [flows[f] EXCEPT !.stage = "gone"] \in OAuthState
    BY <2>1 DEF OAuthState
  <2>3. flows' \in [Flows -> OAuthState]
    BY <2>2 DEF CleanupState, Types
  <2> QED  BY <2>1, <2>2, <2>3 DEF CleanupState, Types, tables
<1>2. RequestShape'
  BY DEF CleanupState, Types, RequestShape, RowShape,
     WithFlow, WithSubject, WithUser, tables, Request, Identity, UserSession,
     OAuthState, Bound, Taken
<1>3. RowShape'
  BY DEF CleanupState, Types, RowShape, RequestShape,
     WithFlow, WithSubject, WithUser, Taken, Bound, tables, Identity,
     UserSession, OAuthState, Request
<1>4. ASSUME ~ conf'.race  PROVE OneProcess'
  <2>0. ~ conf.race /\ OneProcess
    BY <1>4 DEF CleanupState, tables
  <2>1. Alone'
    BY <2>0 DEF OneProcess, CleanupState, Types, Alone, Turn,
       Awaits, tables
  <2>2. Checked'
    BY <2>0 DEF OneProcess, CleanupState, Types, Alone,
       Checked, RequestShape, WithFlow, WithSubject, WithUser, Turn, Awaits,
       tables, Bound, Taken, ActiveOf
  <2>3. Once'
    BY <2>0 DEF OneProcess, CleanupState, Types, Once, Alone,
       Checked, Past, RequestShape, WithFlow, Turn, Awaits, OAuthState, tables
  <2>4. Out'
    BY <2>0 DEF OneProcess, CleanupState, Types, Out, Alone,
       Checked, RequestShape, RowShape, WithFlow, WithSubject, WithUser, Turn,
       Awaits, Identity, UserSession, tables, Bound, Taken, ActiveOf,
       SessionsOf
  <2>5. Last'
    BY <2>0 DEF OneProcess, CleanupState, Types, Last, Alone,
       Checked, RequestShape, RowShape, WithFlow, WithSubject, WithUser, Turn,
       Awaits, Identity, tables, Bound, Taken, ActiveOf
  <2> QED  BY <2>1, <2>2, <2>3, <2>4, <2>5 DEF OneProcess
<1> QED  BY <1>1, <1>2, <1>3, <1>4

LEMMA LogoutKeeps ==
  ASSUME IInv, NEW t \in Tokens,
         Logout(t)
  PROVE  IInv'
<1> USE AccountsAssumption DEF IInv
<1>1. Types'
  BY DEF Logout, Revoke, Types, UserStatus, Identity,
     UserSession, OAuthState, Request, Awaits, Inside, tables
<1>2. RequestShape'
  BY DEF Logout, Revoke, Types, RequestShape, RowShape,
     WithFlow, WithSubject, WithUser, tables, Request, Identity, UserSession,
     OAuthState, Bound, Taken
<1>3. RowShape'
  BY DEF Logout, Revoke, Types, RowShape, RequestShape,
     WithFlow, WithSubject, WithUser, Taken, Bound, tables, Identity,
     UserSession, OAuthState, Request
<1>4. ASSUME ~ conf'.race  PROVE OneProcess'
  <2>0. ~ conf.race /\ OneProcess
    BY <1>4 DEF Logout, Revoke, tables
  <2>1. Alone'
    BY <2>0 DEF OneProcess, Logout, Revoke, Types, Alone, Turn,
       Awaits, tables
  <2>2. Checked'
    BY <2>0 DEF OneProcess, Logout, Revoke, Types, Alone,
       Checked, RequestShape, WithFlow, WithSubject, WithUser, Turn, Awaits,
       tables, Bound, Taken, ActiveOf
  <2>3. Once'
    BY <2>0 DEF OneProcess, Logout, Revoke, Types, Once, Alone,
       Checked, Past, RequestShape, WithFlow, Turn, Awaits, OAuthState, tables
  <2>4. Out'
    BY <2>0 DEF OneProcess, Logout, Revoke, Types, Out, Alone,
       Checked, RequestShape, RowShape, WithFlow, WithSubject, WithUser, Turn,
       Awaits, Identity, UserSession, tables, Bound, Taken, ActiveOf,
       SessionsOf
  <2>5. Last'
    BY <2>0 DEF OneProcess, Logout, Revoke, Types, Last, Alone,
       Checked, RequestShape, RowShape, WithFlow, WithSubject, WithUser, Turn,
       Awaits, Identity, tables, Bound, Taken, ActiveOf
  <2> QED  BY <2>1, <2>2, <2>3, <2>4, <2>5 DEF OneProcess
<1> QED  BY <1>1, <1>2, <1>3, <1>4

LEMMA SessionExpiresKeeps ==
  ASSUME IInv, NEW t \in Tokens,
         SessionExpires(t)
  PROVE  IInv'
<1> USE AccountsAssumption DEF IInv
<1>1. Types'
  BY DEF SessionExpires, Types, UserStatus, Identity,
     UserSession, OAuthState, Request, Awaits, Inside, tables
<1>2. RequestShape'
  BY DEF SessionExpires, Types, RequestShape, RowShape,
     WithFlow, WithSubject, WithUser, tables, Request, Identity, UserSession,
     OAuthState, Bound, Taken
<1>3. RowShape'
  BY DEF SessionExpires, Types, RowShape, RequestShape,
     WithFlow, WithSubject, WithUser, Taken, Bound, tables, Identity,
     UserSession, OAuthState, Request
<1>4. ASSUME ~ conf'.race  PROVE OneProcess'
  <2>0. ~ conf.race /\ OneProcess
    BY <1>4 DEF SessionExpires, tables
  <2>1. Alone'
    BY <2>0 DEF OneProcess, SessionExpires, Types, Alone, Turn,
       Awaits, tables
  <2>2. Checked'
    BY <2>0 DEF OneProcess, SessionExpires, Types, Alone,
       Checked, RequestShape, WithFlow, WithSubject, WithUser, Turn, Awaits,
       tables, Bound, Taken, ActiveOf
  <2>3. Once'
    BY <2>0 DEF OneProcess, SessionExpires, Types, Once, Alone,
       Checked, Past, RequestShape, WithFlow, Turn, Awaits, OAuthState, tables
  <2>4. Out'
    BY <2>0 DEF OneProcess, SessionExpires, Types, Out, Alone,
       Checked, RequestShape, RowShape, WithFlow, WithSubject, WithUser, Turn,
       Awaits, Identity, UserSession, tables, Bound, Taken, ActiveOf,
       SessionsOf
  <2>5. Last'
    BY <2>0 DEF OneProcess, SessionExpires, Types, Last, Alone,
       Checked, RequestShape, RowShape, WithFlow, WithSubject, WithUser, Turn,
       Awaits, Identity, tables, Bound, Taken, ActiveOf
  <2> QED  BY <2>1, <2>2, <2>3, <2>4, <2>5 DEF OneProcess
<1> QED  BY <1>1, <1>2, <1>3, <1>4

(***************************************************************************)
(* The invariant holds from the start.                                     *)
(***************************************************************************)
LEMMA InitIInv == Init => IInv
<1> SUFFICES ASSUME Init  PROVE IInv
  OBVIOUS
<1> USE AccountsAssumption
<1>1. PICK c \in Conf, s \in Subjects :
         /\ conf = c
         /\ users = [u \in Users |-> IF u \in c.admins THEN "active" ELSE "none"]
         /\ ident = [x \in Subjects |->
               IF x = s /\ c.admins # {}
               THEN [owner |-> CHOOSE u \in c.admins : TRUE, status |-> "active"]
               ELSE [owner |-> None, status |-> "none"]]
         /\ sess = [t \in Tokens |-> [user |-> None, state |-> "none"]]
         /\ flows = [f \in Flows |-> [purpose |-> "login", user |-> None, stage |-> "none"]]
         /\ req = [q \in Reqs |-> Idle]
         /\ uses = [f \in Flows |-> 0]
  BY DEF Init
<1>2. c.admins \subseteq Users /\ (c.admins # {} => (CHOOSE u \in c.admins : TRUE) \in c.admins)
  BY DEF Conf
<1> DEFINE first == CHOOSE u \in c.admins : TRUE
<1>3. /\ c.admins # {} => first \in c.admins /\ first \in Users
      /\ ident = [x \in Subjects |->
            IF x = s /\ c.admins # {} THEN [owner |-> first, status |-> "active"]
            ELSE [owner |-> None, status |-> "none"]]
  BY <1>1, <1>2
<1> HIDE DEF first
<1>4. Types
  <2>1. ident \in [Subjects -> Identity]
    BY <1>3 DEF Identity
  <2>2. sess \in [Tokens -> UserSession] /\ flows \in [Flows -> OAuthState]
    BY <1>1 DEF UserSession, OAuthState
  <2>3. req \in [Reqs -> Request]
    BY <1>1 DEF Request, Idle, Awaits
  <2>4. users \in [Users -> UserStatus] /\ uses \in [Flows -> Nat] /\ conf \in Conf
    BY <1>1 DEF UserStatus
  <2> QED  BY <2>1, <2>2, <2>3, <2>4 DEF Types
<1>5. RequestShape
  BY <1>1 DEF RequestShape, Idle, WithFlow, WithSubject, WithUser
<1>6. RowShape
  <2>1. \A x \in Subjects : /\ Bound(x) => Taken(x)
                            /\ Taken(x) => users[ident[x].owner] # "none"
    <3>1. SUFFICES ASSUME NEW x \in Subjects
                   PROVE  /\ Bound(x) => Taken(x)
                          /\ Taken(x) => users[ident[x].owner] # "none"
      OBVIOUS
    <3>2. CASE x = s /\ c.admins # {}
      <4>1. users[first] = "active" /\ ident[x].owner = first /\ first # None
        <5>1. first \in Users /\ first \in c.admins
          BY <1>3, <3>2
        <5>2. ident[x] = [owner |-> first, status |-> "active"]
          BY <1>3, <3>2
        <5> QED  BY <1>1, <5>1, <5>2
      <4> QED  BY <4>1 DEF Bound, Taken
    <3>3. CASE ~ (x = s /\ c.admins # {})
      <4>1. ident[x].owner = None /\ ident[x].status = "none"
        BY <1>3, <3>3
      <4> QED  BY <4>1 DEF Bound, Taken
    <3> QED  BY <3>2, <3>3
  <2>2. \A t \in Tokens : sess[t].state = "none"
    BY <1>1
  <2> QED  BY <2>1, <2>2 DEF RowShape
<1>7. OneProcess
  <2>1. Alone
    BY <1>1 DEF Alone, Idle, Awaits
  <2>2. Checked
    BY <1>1 DEF Checked, Idle
  <2>3. Once
    BY <1>1 DEF Once, Idle, Past
  <2>4. Out
    BY <1>1 DEF Out
  <2>5. Last
    BY <1>1, <1>3 DEF Last, Bound
  <2> QED  BY <2>1, <2>2, <2>3, <2>4, <2>5 DEF OneProcess
<1> QED  BY <1>4, <1>5, <1>6, <1>7 DEF IInv

(***************************************************************************)
(* Every step keeps it.                                                    *)
(***************************************************************************)
LEMMA NextIInv == IInv /\ [Next]_vars => IInv'
<1> SUFFICES ASSUME IInv, [Next]_vars  PROVE IInv'
  OBVIOUS
<1>1. CASE Environment
  <2>1. ASSUME NEW f \in Flows, ProviderLogin(f) \/ StateExpires(f) \/ CleanupState(f)
        PROVE  IInv'
    BY <2>1, ProviderLoginKeeps, StateExpiresKeeps, CleanupStateKeeps
  <2>2. ASSUME NEW t \in Tokens, Logout(t) \/ SessionExpires(t)  PROVE IInv'
    BY <2>2, LogoutKeeps, SessionExpiresKeeps
  <2> QED  BY <1>1, <2>1, <2>2 DEF Environment
<1>2. ASSUME NEW q \in Reqs, Begin(q)  PROVE IInv'
  <2>1. ASSUME NEW t \in Tokens \cup {None}, NEW f \in Flows, Callback(q, f, t)
        PROVE  IInv'
    BY <2>1, CallbackKeeps
  <2>2. ASSUME NEW t \in Tokens \cup {None},
               NEW pc \in {"unbind", "link", "logout_all", "admin"}, Required(q, pc, t)
        PROVE  IInv'
    BY <2>2, RequiredKeeps
  <2> QED  BY <1>2, <2>1, <2>2 DEF Begin
<1>3. ASSUME NEW q \in Reqs, CallbackStep(q)  PROVE IInv'
  <2>1. ASSUME ConsumeCheck(q) \/ Consume(q) \/ ExchangeFails(q) \/ BindCheck(q)
               \/ Bind(q) \/ Find(q) \/ SessionCheck(q) \/ OutOfIds(q)
        PROVE  IInv'
    BY <2>1, ConsumeCheckKeeps, ConsumeKeeps, ExchangeFailsKeeps, BindCheckKeeps,
       BindKeeps, FindKeeps, SessionCheckKeeps, OutOfIdsKeeps
  <2>2. ASSUME NEW s \in Subjects, Exchanged(q, s)  PROVE IInv'
    BY <2>2, ExchangedKeeps
  <2>3. ASSUME NEW u \in Users, Register(q, u)  PROVE IInv'
    BY <2>3, RegisterKeeps
  <2>4. ASSUME NEW t \in Tokens, CreateSession(q, t)  PROVE IInv'
    BY <2>4, CreateSessionKeeps
  <2> QED  BY <1>3, <2>1, <2>2, <2>3, <2>4 DEF CallbackStep
<1>4. ASSUME NEW q \in Reqs, OwnStep(q)  PROVE IInv'
  <2>1. ASSUME NEW f \in Flows, ProviderLink(q, f)  PROVE IInv'
    BY <2>1, ProviderLinkKeeps
  <2>2. ASSUME NEW s \in Subjects, UnbindCheck(q, s)  PROVE IInv'
    BY <2>2, UnbindCheckKeeps
  <2> QED  BY <1>4, <2>1, <2>2, UnbindKeeps, LogoutAllKeeps DEF OwnStep
<1>5. ASSUME NEW q \in Reqs, AdminStep(q)  PROVE IInv'
  <2>1. ASSUME NEW u \in Users,
               CreateUser(q, u) \/ DisableUser(q, u) \/ SoftDeleteUser(q, u)
        PROVE  IInv'
    BY <2>1, CreateUserKeeps, DisableUserKeeps, SoftDeleteUserKeeps
  <2> QED  BY <1>5, <2>1, NotAdminKeeps DEF AdminStep
<1>6. CASE UNCHANGED vars
  BY <1>6 DEF vars, tables, IInv, Types, RequestShape, RowShape, OneProcess, Alone,
     Checked, Once, Out, Last, Taken, Bound, ActiveOf
<1> QED  BY <1>1, <1>2, <1>3, <1>4, <1>5, <1>6 DEF Next

THEOREM AccountsInvariant == Spec => []IInv
BY InitIInv, NextIInv, PTL DEF Spec

(***************************************************************************)
(* What follows from it.                                                   *)
(***************************************************************************)
\* Every table and every request keeps its shape, and every row of an identity
\* or a session its user.
THEOREM TypeCorrect == Spec => []TypeOK
<1>1. IInv => TypeOK
  BY DEF IInv, Types, RowShape, TypeOK, Taken
<1> QED  BY <1>1, AccountsInvariant, PTL

\* Within one process an OAuth state is used once, for any number of callbacks
\* that carry it.
THEOREM StateUsedOnce == Spec => []StateOnce
<1>1. IInv => StateOnce
  BY DEF IInv, OneProcess, Once, StateOnce
<1> QED  BY <1>1, AccountsInvariant, PTL

\* Within one process a user that is disabled or deleted is out, whatever was
\* under way.
THEOREM InactiveUserIsOut == Spec => []InactiveIsOut
<1>1. IInv => InactiveIsOut
  BY DEF IInv, OneProcess, Out, InactiveIsOut, SessionsOf, ActiveOf
<1> QED  BY <1>1, AccountsInvariant, PTL

\* Within one process a user that ever had an identity keeps one to sign in with.
THEOREM LastIdentityStays == Spec => []LastIdentityKept
<1>1. IInv => LastIdentityKept
  BY DEF IInv, OneProcess, Last, LastIdentityKept, ActiveOf
<1> QED  BY <1>1, AccountsInvariant, PTL

(***************************************************************************)
(* An identity keeps its owner, in one process and in several.             *)
(***************************************************************************)
LEMMA IdentityStep ==
  ASSUME IInv, [Next]_vars
  PROVE  \/ UNCHANGED ident
         \/ \E q \in Reqs : Bind(q) \/ Unbind(q)
         \/ \E q \in Reqs, u \in Users : Register(q, u) \/ SoftDeleteUser(q, u)
BY DEF Next, vars, tables, Environment, Begin, CallbackStep, OwnStep, AdminStep,
   ProviderLogin, StateExpires, CleanupState, Logout, SessionExpires, Callback,
   Required, ConsumeCheck, Consume, ExchangeFails, Exchanged, BindCheck, Find,
   SessionCheck, CreateSession, OutOfIds, ProviderLink, UnbindCheck, LogoutAll,
   NotAdmin, CreateUser, DisableUser

\* The owner of an identity row never changes, whatever requests race.
THEOREM OwnerStays == Spec => OwnerKept
<1>1. IInv /\ [Next]_vars
        => [\A s \in Subjects : Taken(s) => ident'[s].owner = ident[s].owner]_vars
  <2> SUFFICES ASSUME IInv, [Next]_vars, NEW s \in Subjects, Taken(s)
               PROVE  ident'[s].owner = ident[s].owner
    OBVIOUS
  <2>0. ident[s] \in Identity
    BY DEF IInv, Types
  <2>1. ASSUME NEW q \in Reqs, Bind(q)  PROVE ident'[s].owner = ident[s].owner
    BY <2>1 DEF Bind, IInv, Types, Taken
  <2>2. ASSUME NEW q \in Reqs, Unbind(q)  PROVE ident'[s].owner = ident[s].owner
    BY <2>0, <2>2 DEF Unbind, IInv, Types, Identity
  <2>3. ASSUME NEW q \in Reqs, NEW u \in Users, Register(q, u)
        PROVE  ident'[s].owner = ident[s].owner
    BY <2>3 DEF Register, IInv, Types, Taken
  <2>4. ASSUME NEW q \in Reqs, NEW u \in Users, SoftDeleteUser(q, u)
        PROVE  ident'[s].owner = ident[s].owner
    BY <2>0, <2>4 DEF SoftDeleteUser, Identity
  <2> QED  BY <2>1, <2>2, <2>3, <2>4, IdentityStep
<1> QED  BY <1>1, AccountsInvariant, PTL DEF Spec, OwnerKept

\* A user that a callback makes owns the identity it signed in with.
THEOREM UserHasIdentity == Spec => SignedUpWithIdentity
<1>1. IInv /\ [Next]_vars =>
        [\A u \in Users \ {Dev} :
            /\ users[u] = "none" /\ users'[u] # "none"
            /\ \E q \in Reqs : req[q].pc = "register" /\ req'[q] # req[q]
            => \E s \in Subjects : ident'[s] = [owner |-> u, status |-> "active"]]_vars
  <2> SUFFICES ASSUME IInv, [Next]_vars, NEW u \in Users \ {Dev},
                      users[u] = "none", users'[u] # "none",
                      NEW q \in Reqs, req[q].pc = "register", req'[q] # req[q]
               PROVE  \E s \in Subjects : ident'[s] = [owner |-> u, status |-> "active"]
    OBVIOUS
  <2>0. users \in [Users -> UserStatus] /\ req \in [Reqs -> Request]
        /\ ident \in [Subjects -> Identity]
    BY DEF IInv, Types
  <2>1. CASE \E r \in Reqs, v \in Users : Register(r, v)
    <3>1. PICK r \in Reqs, v \in Users : Register(r, v)
      BY <2>1
    <3>2. req[r].subj \in Subjects
      BY <3>1 DEF Register, At, IInv, RequestShape, WithSubject
    <3>3. v = u /\ ident' = [ident EXCEPT ![req[r].subj] = [owner |-> v, status |-> "active"]]
      BY <2>0, <3>1 DEF Register
    <3> QED  BY <2>0, <3>2, <3>3
  <2>2. CASE \E r \in Reqs, v \in Users : CreateUser(r, v)
    BY <2>0, <2>2 DEF CreateUser, Admin, At, Done
  <2>3. CASE \E r \in Reqs, v \in Users : DisableUser(r, v) \/ SoftDeleteUser(r, v)
    BY <2>0, <2>3 DEF DisableUser, SoftDeleteUser
  <2>4. CASE \/ UNCHANGED users
             \/ \E r \in Reqs, s \in Subjects : Exchanged(r, s)
             \/ \E r \in Reqs, pc \in {"unbind", "link", "logout_all", "admin"},
                   t \in Tokens \cup {None} : Required(r, pc, t)
    BY <2>0, <2>4 DEF Exchanged, Required, EnsureDevUser
  <2> QED
    BY <2>1, <2>2, <2>3, <2>4 DEF Next, vars, tables, Environment, Begin, CallbackStep,
       OwnStep, AdminStep, ProviderLogin, StateExpires, CleanupState, Logout,
       SessionExpires, Callback, ConsumeCheck, Consume, ExchangeFails, BindCheck, Bind,
       Find, SessionCheck, CreateSession, OutOfIds, ProviderLink, UnbindCheck, Unbind,
       LogoutAll, NotAdmin
<1> QED  BY <1>1, AccountsInvariant, PTL DEF Spec, SignedUpWithIdentity
=============================================================================
