--------------------------- MODULE AccountsProofs ---------------------------
(***************************************************************************)
(* Proofs about Accounts for any number of accounts, names, identities and *)
(* requests in flight: type correctness, the uniqueness of names, and that *)
(* requests stay within the caller's own account.                          *)
(***************************************************************************)
EXTENDS Accounts, TLAPS

\* The row a request has found, and the values its later steps write.
WellFormed(r) ==
    /\ r.uid # None => r.uid \in Exists
    /\ r.pc \in {"load", "tier", "show", "link", "session"} => r.uid # None
    /\ r.pc = "write" /\ r.op \notin {"create", "google"} => r.uid # None
    /\ r.pc = "lookup" => r.uid = None
    /\ r.pc = "check" => r.op \in {"create", "update"} /\ (r.op = "update" => r.uid # None)
    /\ r.op = "create" => r.values.username # None /\ r.values.email # None
    /\ r.pc \in {"address", "candidate", "link"} => r.op = "google"
    /\ r.pc \in {"address", "candidate"} => r.values.email # None
    /\ r.pc = "write" /\ r.op = "google" => r.values.email # None /\ r.values.username # None
    /\ r.pc = "tier" => r.op = "tier"
    /\ r.pc = "write" /\ r.op = "tier" => r.tier \in Tier
    /\ r.pc = "session" => r.op \in {"login", "google"}

\* A regular user's request: while the name is still the one it was permitted for, it
\* is the name of its maker.
OwnRow(r) ==
    r.op \in {"update", "deactivate", "view"} /\ ~r.admin /\ ~r.moved =>
        /\ r.actor \in Exists /\ r.name \in Username
        /\ r.as = r.name => users[r.actor].username = r.name
        /\ r.op # "deactivate" => r.as = r.name
        /\ r.uid \in {None, r.actor}

Good(r) == WellFormed(r) /\ OwnRow(r)

RequestsGood == \A p \in Proc : Good(req[p])

IInv == TypeOK /\ NamesUnique /\ RequestsGood

-----------------------------------------------------------------------------
LEMMA InitIInv == ASSUME Init PROVE IInv
  <1>1. users \in [Uid -> Row \cup {None}] /\ Exists = DOMAIN Resident
    BY ResidentAssumption, RowAssumption DEF Init, Exists
  <1>2. Idle \in Request
    BY DEF Idle, Request, Values, Nothing
  <1>3. TypeOK
    BY <1>1, <1>2, BoundAssumption DEF Init, TypeOK
  <1>4. NamesUnique
    BY <1>1, ResidentAssumption DEF Init, NamesUnique
  <1>5. RequestsGood
    BY DEF Init, RequestsGood, Good, WellFormed, OwnRow, Idle
  <1>6. QED
    BY <1>3, <1>4, <1>5 DEF IInv

\* A request arrives, goes on or is answered, and the tables stay.
LEMMA Moves ==
  ASSUME IInv, NEW p \in Proc, NEW r \in Request, Good(r), req' = [req EXCEPT ![p] = r], Stay,
         started' \in 0..MaxRequests
  PROVE  IInv'
  <1>1. TypeOK' /\ NamesUnique'
    BY DEF IInv, TypeOK, NamesUnique, Stay, Exists
  <1>2. ASSUME NEW q \in Proc PROVE Good(req[q])'
    <2>1. Good(req'[q])
      BY DEF IInv, TypeOK, RequestsGood
    <2>2. QED
      BY <2>1 DEF Good, WellFormed, OwnRow, Stay, Exists
  <1>3. QED
    BY <1>1, <1>2 DEF IInv, RequestsGood

LEMMA IdleGood == Idle \in Request /\ Good(Idle)
  BY DEF Idle, Request, Values, Nothing, Good, WellFormed, OwnRow

LEMMA AnswerKeeps ==
  ASSUME IInv, NEW p \in Proc, Answer(p)
  PROVE  IInv'
  <1>1. req' = [req EXCEPT ![p] = Idle] /\ Stay /\ started' \in 0..MaxRequests
    BY DEF Answer, Advance, Goto, IInv, TypeOK
  <1>2. QED
    BY <1>1, Moves, IdleGood

LEMMA AdvanceKeeps ==
  ASSUME IInv, NEW p \in Proc, NEW r \in Request, Good(r), Advance(p, r)
  PROVE  IInv'
  <1>1. req' = [req EXCEPT ![p] = r] /\ Stay /\ started' \in 0..MaxRequests
    BY DEF Advance, Goto, IInv, TypeOK
  <1>2. QED
    BY <1>1, Moves

LEMMA BeginKeeps ==
  ASSUME IInv, NEW p \in Proc, NEW r \in Request, Good(r), Begin(p, r)
  PROVE  IInv'
  <1>1. req' = [req EXCEPT ![p] = r] /\ Stay /\ started' \in 0..MaxRequests
    BY BoundAssumption DEF Begin, IInv, TypeOK
  <1>2. QED
    BY <1>1, Moves

-----------------------------------------------------------------------------
(* Requests arrive.                                                        *)

\* A request of a signed-in account.
LEMMA ByGood ==
  ASSUME IInv, NEW op \in Op, NEW a \in Authentic
  PROVE  /\ By(op, a) \in Request /\ a \in Exists /\ users[a] \in Row
         /\ By(op, a).op = op /\ By(op, a).pc = "lookup" /\ By(op, a).actor = a
         /\ By(op, a).as = users[a].username /\ By(op, a).admin = users[a].admin
         /\ By(op, a).uid = None /\ By(op, a).values = Nothing
  <1>1. a \in Exists /\ users[a] \in Row
    BY DEF Authentic, Live, Exists, IInv, TypeOK
  <1>2. Idle \in Request
    BY IdleGood
  <1>3. a \in Uid \cup {None} /\ users[a].username \in Username \cup {None} /\ users[a].admin \in BOOLEAN
    BY <1>1 DEF Exists, Row
  <1>4. By(op, a) \in Request
    BY <1>2, <1>3 DEF By, Request
  <1>5. QED
    BY <1>1, <1>4 DEF By, Idle

LEMMA AskGood ==
  ASSUME IInv, NEW a \in Authentic, NEW r \in Request, r.pc = "lookup", r.actor = a,
         r.as = users[a].username, r.name \in Username, r.uid = None,
         r.op \in {"update", "deactivate", "erase", "tier", "view"},
         r.op \in {"update", "view"} => MayUpdate(r)
  PROVE  Good(r)
  <1>1. a \in Exists
    BY DEF Authentic, Live
  <1>2. WellFormed(r)
    BY <1>1 DEF WellFormed
  <1>3. OwnRow(r)
    BY <1>1 DEF OwnRow, MayUpdate
  <1>4. QED
    BY <1>2, <1>3 DEF Good

LEMMA AskKeeps ==
  ASSUME IInv, NEW p \in Proc, Ask(p)
  PROVE  IInv'
  <1>1. CASE AskCreate(p)
    <2>1. PICK v \in SignUp : Begin(p, [Idle EXCEPT !.op = "create", !.pc = "check", !.values = v,
                                                    !.todo = {"email", "name"}])
      BY <1>1 DEF AskCreate
    <2>. DEFINE r == [Idle EXCEPT !.op = "create", !.pc = "check", !.values = v,
                                  !.todo = {"email", "name"}]
    <2>2. r \in Request
      BY SignUpAssumption, IdleGood DEF Idle, Request, Op
    <2>3. Good(r)
      BY SignUpAssumption DEF Idle, Good, WellFormed, OwnRow
    <2>4. QED
      <3>. HIDE DEF r
      <3>. QED
        BY <2>1, <2>2, <2>3, BeginKeeps DEF r
  <1>2. CASE AskUpdate(p)
    <2>1. PICK a \in Authentic, n \in Username, v \in Update :
            LET r == [By("update", a) EXCEPT !.name = n, !.values = v]
            IN  MayUpdate(r) /\ Begin(p, r)
      BY <1>2 DEF AskUpdate
    <2>. DEFINE r == [By("update", a) EXCEPT !.name = n, !.values = v]
    <2>2. By("update", a) \in Request
      BY ByGood DEF Op
    <2>3. r \in Request /\ MayUpdate(r)
      BY <2>1, <2>2, UpdateAssumption DEF Request
    <2>4. Good(r)
      <3>1. /\ r.pc = "lookup" /\ r.actor = a /\ r.as = users[a].username /\ r.name \in Username
            /\ r.uid = None /\ r.op \in {"update", "view"}
        <4>. DEFINE b == By("update", a)
        <4>1. /\ b.op = "update" /\ b.pc = "lookup" /\ b.actor = a /\ b.as = users[a].username
              /\ b.uid = None
          BY ByGood DEF Op
        <4>2. b \in Request
          BY <2>2
        <4>3. r = [b EXCEPT !.name = n, !.values = v]
          OBVIOUS
        <4>. HIDE DEF b, r
        <4>. QED
          BY <4>1, <4>2, <4>3 DEF Request
      <3>. HIDE DEF r
      <3>. QED
        BY <2>3, <3>1, AskGood
    <2>5. QED
      <3>. HIDE DEF r
      <3>. QED
        BY <2>1, <2>3, <2>4, BeginKeeps DEF r
  <1>3. CASE AskDeactivate(p) \/ AskErase(p)
    <2>1. PICK op \in {"deactivate", "erase"}, a \in Authentic, n \in Username :
            Begin(p, [By(op, a) EXCEPT !.name = n])
      BY <1>3 DEF AskDeactivate, AskErase, Superusers
    <2>. DEFINE r == [By(op, a) EXCEPT !.name = n]
    <2>2. By(op, a) \in Request
      BY ByGood DEF Op
    <2>3. r \in Request
      BY <2>2 DEF Request
    <2>4. Good(r)
      <3>1. /\ r.pc = "lookup" /\ r.actor = a /\ r.as = users[a].username /\ r.name \in Username
            /\ r.uid = None /\ r.op \in {"deactivate", "erase", "tier"}
        <4>. DEFINE b == By(op, a)
        <4>1. /\ b.op = op /\ b.pc = "lookup" /\ b.actor = a /\ b.as = users[a].username
              /\ b.uid = None
          BY ByGood DEF Op
        <4>2. b \in Request
          BY <2>2
        <4>3. r = [b EXCEPT !.name = n]
          OBVIOUS
        <4>. HIDE DEF b, r
        <4>. QED
          BY <4>1, <4>2, <4>3 DEF Request
      <3>. HIDE DEF r
      <3>. QED
        BY <2>3, <3>1, AskGood
    <2>5. QED
      <3>. HIDE DEF r
      <3>. QED
        BY <2>1, <2>3, <2>4, BeginKeeps DEF r
  <1>4. CASE AskTier(p)
    <2>1. PICK a \in Authentic, n \in Username, t \in TierId :
            Begin(p, [By("tier", a) EXCEPT !.name = n, !.tier = t])
      BY <1>4 DEF AskTier, Superusers
    <2>. DEFINE r == [By("tier", a) EXCEPT !.name = n, !.tier = t]
    <2>2. By("tier", a) \in Request
      BY ByGood DEF Op
    <2>3. r \in Request
      BY <2>2 DEF Request
    <2>4. Good(r)
      <3>1. /\ r.pc = "lookup" /\ r.actor = a /\ r.as = users[a].username /\ r.name \in Username
            /\ r.uid = None /\ r.op \in {"deactivate", "erase", "tier"}
        <4>. DEFINE b == By("tier", a)
        <4>1. /\ b.op = "tier" /\ b.pc = "lookup" /\ b.actor = a /\ b.as = users[a].username
              /\ b.uid = None
          BY ByGood DEF Op
        <4>2. b \in Request
          BY <2>2
        <4>3. r = [b EXCEPT !.name = n, !.tier = t]
          OBVIOUS
        <4>. HIDE DEF b, r
        <4>. QED
          BY <4>1, <4>2, <4>3 DEF Request
      <3>. HIDE DEF r
      <3>. QED
        BY <2>3, <3>1, AskGood
    <2>5. QED
      <3>. HIDE DEF r
      <3>. QED
        BY <2>1, <2>3, <2>4, BeginKeeps DEF r
  <1>5. CASE AskView(p)
    <2>1. PICK a \in Authentic, n \in Username :
            LET r == [By("view", a) EXCEPT !.name = n]
            IN  MayUpdate(r) /\ Begin(p, r)
      BY <1>5 DEF AskView
    <2>. DEFINE r == [By("view", a) EXCEPT !.name = n]
    <2>2. By("view", a) \in Request
      BY ByGood DEF Op
    <2>3. r \in Request /\ MayUpdate(r)
      BY <2>1, <2>2 DEF Request
    <2>4. Good(r)
      <3>1. /\ r.pc = "lookup" /\ r.actor = a /\ r.as = users[a].username /\ r.name \in Username
            /\ r.uid = None /\ r.op \in {"update", "view"}
        <4>. DEFINE b == By("view", a)
        <4>1. /\ b.op = "view" /\ b.pc = "lookup" /\ b.actor = a /\ b.as = users[a].username
              /\ b.uid = None
          BY ByGood DEF Op
        <4>2. b \in Request
          BY <2>2
        <4>3. r = [b EXCEPT !.name = n]
          OBVIOUS
        <4>. HIDE DEF b, r
        <4>. QED
          BY <4>1, <4>2, <4>3 DEF Request
      <3>. HIDE DEF r
      <3>. QED
        BY <2>3, <3>1, AskGood
    <2>5. QED
      <3>. HIDE DEF r
      <3>. QED
        BY <2>1, <2>3, <2>4, BeginKeeps DEF r
  <1>6. CASE AskLogin(p)
    <2>1. PICK u \in Exists : Begin(p, [Idle EXCEPT !.op = "login", !.pc = "session", !.uid = u])
      BY <1>6 DEF AskLogin, FoundLive, FoundByEmail, Live
    <2>. DEFINE r == [Idle EXCEPT !.op = "login", !.pc = "session", !.uid = u]
    <2>2. r \in Request
      BY IdleGood DEF Idle, Request, Op, Exists
    <2>3. Good(r)
      BY NoneAssumption DEF Idle, Good, WellFormed, OwnRow, Exists
    <2>4. QED
      <3>. HIDE DEF r
      <3>. QED
        BY <2>1, <2>2, <2>3, BeginKeeps DEF r
  <1>7. CASE AskGoogle(p)
    <2>. PICK g \in Google :
            LET r == [Idle EXCEPT !.op = "google", !.values.google = g]
            IN  \/ \E u \in Exists : Begin(p, [r EXCEPT !.pc = "session", !.uid = u])
                \/ Room /\ Begin(p, [r EXCEPT !.pc = "address", !.values.email = EmailAt[g]])
      BY <1>7 DEF AskGoogle
    <2>. DEFINE r == [Idle EXCEPT !.op = "google", !.values.google = g]
    <2>1. CASE \E u \in Exists : Begin(p, [r EXCEPT !.pc = "session", !.uid = u])
      <3>1. PICK u \in Exists : Begin(p, [r EXCEPT !.pc = "session", !.uid = u])
        BY <2>1
      <3>. DEFINE s == [r EXCEPT !.pc = "session", !.uid = u]
      <3>2. s \in Request
        <4>1. Idle \in Request /\ [Idle.values EXCEPT !.google = g] \in Values
          BY IdleGood DEF Idle, Nothing, Values
        <4>2. u \in Uid
          BY DEF Exists
        <4>3. QED
          BY <4>1, <4>2 DEF Request, Op
      <3>3. Good(s)
        BY NoneAssumption DEF Idle, Good, WellFormed, OwnRow, Exists
      <3>4. QED
        <4>. HIDE DEF s
        <4>. QED
          BY <3>1, <3>2, <3>3, BeginKeeps DEF s
    <2>2. CASE Begin(p, [r EXCEPT !.pc = "address", !.values.email = EmailAt[g]])
      <3>. DEFINE s == [r EXCEPT !.pc = "address", !.values.email = EmailAt[g]]
      <3>0. EmailAt[g] \in Email /\ EmailAt[g] # None
        BY GoogleAssumption, NoneAssumption
      <3>2. s \in Request
        <4>1. Idle \in Request /\ [Idle.values EXCEPT !.google = g, !.email = EmailAt[g]] \in Values
          BY <3>0, IdleGood DEF Idle, Nothing, Values
        <4>2. s = [Idle EXCEPT !.op = "google", !.pc = "address",
                               !.values = [Idle.values EXCEPT !.google = g, !.email = EmailAt[g]]]
          BY DEF Idle, Nothing
        <4>3. QED
          BY <4>1, <4>2 DEF Request, Op
      <3>3. Good(s)
        BY <3>0, NoneAssumption DEF Idle, Nothing, Good, WellFormed, OwnRow, Exists
      <3>4. QED
        <4>. HIDE DEF s
        <4>. QED
          BY <2>2, <3>2, <3>3, BeginKeeps DEF s
    <2>3. QED
      BY <2>1, <2>2
  <1>8. QED
    BY <1>1, <1>2, <1>3, <1>4, <1>5, <1>6, <1>7 DEF Ask

-----------------------------------------------------------------------------
(* Steps that only read.                                                   *)

\* What is known of a request in flight.
LEMMA Facts ==
  ASSUME IInv, NEW p \in Proc
  PROVE  req[p] \in Request /\ Good(req[p])
  BY DEF IInv, TypeOK, RequestsGood

LEMMA CheckKeeps ==
  ASSUME IInv, NEW p \in Proc, CheckEmail(p) \/ CheckName(p)
  PROVE  IInv'
  <1>. PICK done \in {"email", "name"} : Answer(p) \/ Advance(p, NextCheck(req[p], done))
    BY DEF CheckEmail, CheckName
  <1>1. req[p].pc = "check"
    BY DEF CheckEmail, CheckName
  <1>2. CASE Answer(p)
    BY <1>2, AnswerKeeps
  <1>3. CASE Advance(p, NextCheck(req[p], done))
    <2>. DEFINE todo == req[p].todo \ {done}
                pc == IF req[p].todo = {done} THEN "write" ELSE "check"
                r == [req[p] EXCEPT !.todo = todo, !.pc = pc]
    <2>0. req[p] \in Request /\ Good(req[p])
      BY Facts
    <2>1. todo \in SUBSET {"email", "name"} /\ pc \in {"write", "check"} /\ NextCheck(req[p], done) = r
      <3>1. req[p].todo \in SUBSET {"email", "name"}
        BY <2>0 DEF Request
      <3>2. QED
        BY <3>1 DEF NextCheck
    <2>2. r \in Request /\ Good(r)
      <3>. HIDE DEF todo, pc
      <3>1. r \in Request
        BY <2>0, <2>1 DEF Request
      <3>2. /\ r.pc = pc /\ r.op = req[p].op /\ r.uid = req[p].uid /\ r.values = req[p].values
            /\ r.tier = req[p].tier
        BY <2>0 DEF Request
      <3>3. WellFormed(r)
        BY <1>1, <2>0, <2>1, <3>2 DEF Good, WellFormed
      <3>4. OwnRow(r)
        BY <2>0 DEF Request, Good, OwnRow
      <3>. QED
        BY <3>1, <3>3, <3>4 DEF Good
    <2>3. QED
      <3>. HIDE DEF r
      <3>1. Advance(p, r)
        BY <1>3, <2>1
      <3>. QED
        BY <3>1, <2>2, AdvanceKeeps
  <1>4. QED
    BY <1>2, <1>3

\* The row found by a name is the caller's, unless the caller is a superuser or the
\* name has moved.
LEMMA FoundGood ==
  ASSUME IInv, NEW p \in Proc, req[p].pc = "lookup", NEW u \in Exists, NEW pc \in {"load", "write"},
         users[u].username = req[p].name,
         req[p].op = "deactivate" => MayUpdate(req[p]),
         req[p].op \in {"update", "tier", "view", "deactivate", "erase"},
         pc = "load" \/ req[p].op \in {"deactivate", "erase"}
  PROVE  [req[p] EXCEPT !.uid = u, !.pc = pc] \in Request /\ Good([req[p] EXCEPT !.uid = u, !.pc = pc])
  <1>. DEFINE r == [req[p] EXCEPT !.uid = u, !.pc = pc]
  <1>1. /\ req[p] \in Request
        /\ WellFormed(req[p]) /\ OwnRow(req[p])
    BY Facts DEF Good
  <1>2. r \in Request
    BY <1>1 DEF Request, Exists
  <1>3. WellFormed(r)
    BY <1>1, NoneAssumption DEF Request, WellFormed, Exists
  <1>4. OwnRow(r)
    <2>. SUFFICES ASSUME r.op \in {"update", "deactivate", "view"}, ~r.admin, ~r.moved
                  PROVE  /\ r.actor \in Exists /\ r.name \in Username
                         /\ r.as = r.name => users[r.actor].username = r.name
                         /\ r.op # "deactivate" => r.as = r.name
                         /\ r.uid \in {None, r.actor}
      BY DEF OwnRow
    <2>1. r.op = req[p].op /\ r.admin = req[p].admin /\ r.moved = req[p].moved /\ r.actor = req[p].actor
            /\ r.name = req[p].name /\ r.as = req[p].as /\ r.uid = u
      BY <1>1 DEF Request
    <2>2. /\ r.actor \in Exists /\ r.name \in Username
          /\ r.as = r.name => users[r.actor].username = r.name
          /\ r.op # "deactivate" => r.as = r.name
      BY <1>1, <2>1 DEF OwnRow
    <2>3. r.as = r.name
      BY <2>1, <2>2 DEF MayUpdate
    <2>4. users[u].username = users[r.actor].username /\ users[u].username # None
      BY <2>1, <2>2, <2>3, NoneAssumption
    <2>5. u = r.actor
      BY <2>2, <2>4 DEF IInv, NamesUnique
    <2>6. QED
      BY <2>1, <2>2, <2>5
  <1>5. QED
    BY <1>2, <1>3, <1>4 DEF Good

LEMMA LookupKeeps ==
  ASSUME IInv, NEW p \in Proc, Lookup(p) \/ LookupDeactivate(p) \/ LookupErase(p)
  PROVE  IInv'
  <1>1. req[p].pc = "lookup"
    BY DEF Lookup, LookupDeactivate, LookupErase
  <1>2. CASE Answer(p)
    BY <1>2, AnswerKeeps
  <1>3. CASE ~Answer(p)
    <2>1. \E u \in Exists, pc \in {"load", "write"} :
            /\ users[u].username = req[p].name
            /\ req[p].op = "deactivate" => MayUpdate(req[p])
            /\ req[p].op \in {"update", "tier", "view", "deactivate", "erase"}
            /\ pc = "load" \/ req[p].op \in {"deactivate", "erase"}
            /\ Advance(p, [req[p] EXCEPT !.uid = u, !.pc = pc])
      <3>1. CASE Lookup(p)
        BY <1>3, <3>1 DEF Lookup, FoundLive, Live
      <3>2. CASE LookupDeactivate(p)
        BY <1>3, <3>2 DEF LookupDeactivate, FoundLive, Live
      <3>3. CASE LookupErase(p)
        BY <1>3, <3>3 DEF LookupErase, FoundAny
      <3>4. QED
        BY <3>1, <3>2, <3>3
    <2>2. PICK u \in Exists, pc \in {"load", "write"} :
            /\ users[u].username = req[p].name
            /\ req[p].op = "deactivate" => MayUpdate(req[p])
            /\ req[p].op \in {"update", "tier", "view", "deactivate", "erase"}
            /\ pc = "load" \/ req[p].op \in {"deactivate", "erase"}
            /\ Advance(p, [req[p] EXCEPT !.uid = u, !.pc = pc])
      BY <2>1
    <2>. DEFINE r == [req[p] EXCEPT !.uid = u, !.pc = pc]
    <2>3. r \in Request /\ Good(r)
      BY <1>1, <2>2, FoundGood
    <2>4. QED
      <3>. HIDE DEF r
      <3>. QED
        BY <2>2, <2>3, AdvanceKeeps DEF r
  <1>4. QED
    BY <1>2, <1>3

LEMMA LoadKeeps ==
  ASSUME IInv, NEW p \in Proc, LoadUpdate(p) \/ LoadTier(p) \/ CheckTier(p) \/ LoadView(p) \/ Show(p)
  PROVE  IInv'
  <1>1. CASE Answer(p)
    BY <1>1, AnswerKeeps
  <1>2. CASE ~Answer(p)
    <2>1. \E pc \in {"check", "write", "tier", "show"}, todo \in SUBSET {"email", "name"} :
            /\ Advance(p, [req[p] EXCEPT !.pc = pc, !.todo = todo])
            /\ req[p].uid # None
            /\ \/ req[p].op = "update" /\ pc \in {"check", "write"}
               \/ req[p].op = "tier" /\ (pc = "tier" \/ (pc = "write" /\ req[p].tier \in Tier))
               \/ req[p].op = "view" /\ pc = "show"
      <3>1. CASE LoadUpdate(p)
        <4>1. req[p].uid # None
          BY <3>1, Facts DEF LoadUpdate, Good, WellFormed
        <4>. DEFINE todo == {f \in {"email", "name"} :
                      IF f = "email" THEN req[p].values.email \notin {None, users[req[p].uid].email}
                      ELSE req[p].values.username \notin {None, users[req[p].uid].username}}
        <4>2. Advance(p, [req[p] EXCEPT !.todo = todo, !.pc = IF todo = {} THEN "write" ELSE "check"])
          BY <1>2, <3>1 DEF LoadUpdate
        <4>. DEFINE pc == IF todo = {} THEN "write" ELSE "check"
        <4>3. todo \in SUBSET {"email", "name"} /\ pc \in {"check", "write", "tier", "show"}
          OBVIOUS
        <4>4. Advance(p, [req[p] EXCEPT !.pc = pc, !.todo = todo])
          <5>1. [req[p] EXCEPT !.todo = todo, !.pc = pc] = [req[p] EXCEPT !.pc = pc, !.todo = todo]
            BY Facts DEF Request
          <5>2. QED
            BY <4>2, <5>1
        <4>5. req[p].op = "update" /\ pc \in {"check", "write"}
          BY <3>1 DEF LoadUpdate
        <4>. HIDE DEF todo, pc
        <4>6. QED
          BY <4>1, <4>3, <4>4, <4>5
      <3>2. CASE LoadTier(p) \/ CheckTier(p) \/ LoadView(p) \/ Show(p)
        <4>1. /\ req[p].uid # None
              /\ CheckTier(p) => req[p].op = "tier"
          BY <3>2, Facts DEF LoadTier, CheckTier, LoadView, Show, Good, WellFormed
        <4>2. PICK pc \in {"tier", "write", "show"} :
                /\ Advance(p, [req[p] EXCEPT !.pc = pc])
                /\ \/ req[p].op = "tier" /\ (pc = "tier" \/ (pc = "write" /\ req[p].tier \in Tier))
                   \/ req[p].op = "view" /\ pc = "show"
          BY <1>2, <3>2, <4>1 DEF LoadTier, CheckTier, LoadView, Show
        <4>3. /\ [req[p] EXCEPT !.pc = pc] = [req[p] EXCEPT !.pc = pc, !.todo = req[p].todo]
              /\ req[p].todo \in SUBSET {"email", "name"}
          BY Facts DEF Request
        <4>4. QED
          BY <4>1, <4>2, <4>3
      <3>3. QED
        BY <3>1, <3>2
    <2>2. PICK pc \in {"check", "write", "tier", "show"}, todo \in SUBSET {"email", "name"} :
            /\ Advance(p, [req[p] EXCEPT !.pc = pc, !.todo = todo])
            /\ req[p].uid # None
            /\ \/ req[p].op = "update" /\ pc \in {"check", "write"}
               \/ req[p].op = "tier" /\ (pc = "tier" \/ (pc = "write" /\ req[p].tier \in Tier))
               \/ req[p].op = "view" /\ pc = "show"
      BY <2>1
    <2>. DEFINE r == [req[p] EXCEPT !.pc = pc, !.todo = todo]
    <2>3. r \in Request
      <3>1. req[p] \in Request
        BY Facts
      <3>2. QED
        BY <3>1 DEF Request
    <2>4. Good(r)
      BY <2>2, Facts DEF Request, Good, WellFormed, OwnRow
    <2>5. QED
      <3>. HIDE DEF r
      <3>. QED
        BY <2>2, <2>3, <2>4, AdvanceKeeps DEF r
  <1>3. QED
    BY <1>1, <1>2

LEMMA GoogleReadsKeep ==
  ASSUME IInv, NEW p \in Proc, FindAddress(p) \/ PickName(p)
  PROVE  IInv'
  <1>0. CASE Answer(p)
    BY <1>0, AnswerKeeps
  <1>1. CASE FindAddress(p) /\ Advance(p, [req[p] EXCEPT !.pc = "candidate"])
    <2>. DEFINE r == [req[p] EXCEPT !.pc = "candidate"]
    <2>1. r \in Request
      BY Facts DEF Request
    <2>2. Good(r)
      <3>1. req[p].op = "google" /\ req[p].values.email # None
        BY <1>1, Facts DEF FindAddress, Good, WellFormed
      <3>2. QED
        BY <3>1, Facts DEF Request, Good, WellFormed, OwnRow
    <2>3. QED
      <3>. HIDE DEF r
      <3>. QED
        BY <1>1, <2>1, <2>2, AdvanceKeeps DEF r
  <1>2. CASE FindAddress(p) /\ \E u \in Exists : Advance(p, [req[p] EXCEPT !.uid = u, !.pc = "link"])
    <2>1. PICK u \in Exists : Advance(p, [req[p] EXCEPT !.uid = u, !.pc = "link"])
      BY <1>2
    <2>. DEFINE r == [req[p] EXCEPT !.uid = u, !.pc = "link"]
    <2>2. r \in Request
      <3>1. req[p] \in Request
        BY Facts
      <3>2. u \in Uid
        BY DEF Exists
      <3>3. QED
        BY <3>1, <3>2 DEF Request
    <2>3. Good(r)
      <3>1. req[p].op = "google" /\ u # None
        BY <1>2, Facts, NoneAssumption DEF FindAddress, Good, WellFormed, Exists
      <3>2. QED
        BY <3>1, Facts DEF Request, Good, WellFormed, OwnRow
    <2>4. QED
      <3>. HIDE DEF r
      <3>. QED
        BY <2>1, <2>2, <2>3, AdvanceKeeps DEF r
  <1>3. CASE PickName(p) /\ ~Answer(p)
    <2>1. PICK n \in Username : Advance(p, [req[p] EXCEPT !.values.username = n, !.pc = "write"])
      BY <1>3 DEF PickName
    <2>. DEFINE r == [req[p] EXCEPT !.values.username = n, !.pc = "write"]
    <2>0. req[p] \in Request /\ req[p].pc = "candidate" /\ req[p].op = "google" /\ req[p].values.email # None
            /\ (req[p].uid # None => req[p].uid \in Exists)
      BY <1>3, Facts DEF PickName, Good, WellFormed
    <2>. DEFINE v == [req[p].values EXCEPT !.username = n]
    <2>1a. v \in Values /\ v.username # None /\ v.email # None
      BY <2>0, NoneAssumption DEF Request, Values
    <2>1b. r = [req[p] EXCEPT !.values = v, !.pc = "write"]
      BY <2>0 DEF Request
    <2>2. r \in Request
      <3>. HIDE DEF v, r
      <3>. QED
        BY <2>0, <2>1a, <2>1b DEF Request
    <2>3. Good(r)
      <3>. HIDE DEF v, r
      <3>. QED
        BY <2>0, <2>1a, <2>1b DEF Request, Good, WellFormed, OwnRow
    <2>4. QED
      <3>. HIDE DEF r
      <3>. QED
        BY <2>1, <2>2, <2>3, AdvanceKeeps DEF r
  <1>4. QED
    BY <1>0, <1>1, <1>2, <1>3 DEF FindAddress

-----------------------------------------------------------------------------
(* Steps that write the table.                                             *)

\* The row is one that the unique indexes let in.
Distinct(u, row) == \A w \in Exists \ {u} :
    /\ row.username # None => row.username # users[w].username
    /\ row.email # users[w].email
    /\ row.google # None => row.google # users[w].google

\* The tables after row u was written.
LEMMA TablesKeep ==
  ASSUME IInv, NEW u \in Uid, NEW row \in Row, users' = [users EXCEPT ![u] = row], Distinct(u, row),
         UNCHANGED <<session, started>>, req' \in [Proc -> Request], RequestsGood'
  PROVE  IInv'
  <1>1. users \in [Uid -> Row \cup {None}]
    BY DEF IInv, TypeOK
  <1>2. /\ users' \in [Uid -> Row \cup {None}] /\ users'[u] = row
        /\ \A w \in Uid \ {u} : users'[w] = users[w]
    BY <1>1
  <1>3. Exists' = Exists \cup {u} /\ Exists \subseteq Uid
    BY <1>2, RowAssumption DEF Exists
  <1>4. TypeOK'
    BY <1>2, <1>3 DEF IInv, TypeOK
  <1>5. NamesUnique'
    <2>. SUFFICES ASSUME NEW v \in Exists', NEW w \in Exists', v # w
                  PROVE  /\ users'[v].username # None => users'[v].username # users'[w].username
                         /\ users'[v].email # users'[w].email
                         /\ users'[v].google # None => users'[v].google # users'[w].google
      BY DEF NamesUnique
    <2>1. CASE v = u
      BY <2>1, <1>2, <1>3 DEF Distinct
    <2>2. CASE w = u
      BY <2>2, <1>2, <1>3 DEF Distinct
    <2>3. CASE v # u /\ w # u
      BY <2>3, <1>2, <1>3 DEF IInv, NamesUnique
    <2>4. QED
      BY <2>1, <2>2, <2>3
  <1>6. QED
    BY <1>4, <1>5 DEF IInv

\* A request that knows whether its name and its row are still what they were, when row
\* u of the table has been written.
LEMMA GoodAfter ==
  ASSUME IInv, NEW u \in Uid, NEW row \in Row, users' = [users EXCEPT ![u] = row],
         NEW r \in Request, WellFormed(r), OwnRow(r),
         \/ r.moved \/ u \notin Exists \/ row.username = users[u].username
         \/ r.name # users[u].username \/ r.name = None
  PROVE  Good(r)'
  <1>1. /\ users'[u] = row /\ \A w \in Uid \ {u} : users'[w] = users[w]
        /\ Exists \subseteq Exists'
    BY RowAssumption DEF IInv, TypeOK, Exists
  <1>2. WellFormed(r)'
    BY <1>1 DEF WellFormed
  <1>3. OwnRow(r)'
    BY <1>1, NoneAssumption DEF OwnRow, Exists
  <1>4. QED
    BY <1>2, <1>3 DEF Good

\* A free row is taken, and no other request can be about it.
LEMMA NewcomerKeeps ==
  ASSUME IInv, NEW p \in Proc, NEW u \in Uid \ Exists, NEW v \in Values, NEW known \in BOOLEAN,
         v.username # None, v.email # None, ~Conflict(v, u),
         users' = [users EXCEPT ![u] = NewRow(v, known)],
         NEW r \in Request, req' = [req EXCEPT ![p] = r], Good(r)',
         UNCHANGED <<session, started>>
  PROVE  IInv'
  <1>. DEFINE row == NewRow(v, known)
  <1>1. row \in Row /\ row.username = v.username /\ row.email = v.email /\ row.google = v.google
    BY DEF NewRow, Row, Values
  <1>2. Distinct(u, row)
    BY <1>1 DEF Distinct, Conflict
  <1>3. req' \in [Proc -> Request]
    BY DEF IInv, TypeOK
  <1>. HIDE DEF row
  <1>4. RequestsGood'
    <2>. SUFFICES ASSUME NEW q \in Proc PROVE Good(req[q])'
      BY DEF RequestsGood
    <2>1. CASE q = p
      BY <2>1 DEF IInv, TypeOK
    <2>2. CASE q # p
      <3>1. req'[q] = req[q]
        BY <2>2 DEF IInv, TypeOK
      <3>2. req[q] \in Request /\ Good(req[q])
        BY Facts
      <3>3. /\ WellFormed(req[q]) /\ OwnRow(req[q])
        BY <3>1, <3>2 DEF Good
      <3>4. QED
        BY <3>1, <3>2, <3>3, <1>1, GoodAfter DEF row
    <2>3. QED
      BY <2>1, <2>2
  <1>5. QED
    BY <1>1, <1>2, <1>3, <1>4, TablesKeep DEF row

\* A row that exists is written by request p, which goes on as r.
LEMMA HolderKeeps ==
  ASSUME IInv, NEW p \in Proc, NEW u \in Exists, NEW row \in Row, Distinct(u, row),
         users' = [users EXCEPT ![u] = row],
         row.username = users[u].username,
         NEW r \in Request, req' = [req EXCEPT ![p] = r], Good(r),
         UNCHANGED <<session, started>>
  PROVE  IInv'
  <1>1. req' \in [Proc -> Request] /\ u \in Uid
    BY DEF IInv, TypeOK, Exists
  <1>2. RequestsGood'
    <2>. SUFFICES ASSUME NEW q \in Proc PROVE Good(req[q])'
      BY DEF RequestsGood
    <2>1. req'[q] \in Request /\ Good(req'[q])
      BY Facts DEF IInv, TypeOK
    <2>2. /\ WellFormed(req'[q]) /\ OwnRow(req'[q])
      BY <2>1 DEF Good
    <2>3. QED
      BY <1>1, <2>1, <2>2, GoodAfter
  <1>3. QED
    BY <1>1, <1>2, TablesKeep

\* A row as it was is let in by the indexes.
LEMMA SameDistinct ==
  ASSUME IInv, NEW u \in Exists, NEW row \in Row, row.email = users[u].email,
         row.username \in {None, users[u].username}, row.google \in {None, users[u].google}
  PROVE  Distinct(u, row)
  BY DEF IInv, NamesUnique, Distinct

\* Every request learns of a change of row u, and the one that made it is answered.
LEMMA NoticeGood ==
  ASSUME IInv, NEW p \in Proc, NEW u \in Exists, NEW row \in Row,
         users' = [users EXCEPT ![u] = row], Notice(u, row, p)
  PROVE  req' \in [Proc -> Request] /\ RequestsGood'
  <1>. DEFINE moved(q) == req[q].moved \/ (/\ users[u].username # None
                                           /\ req[q].name = users[u].username
                                           /\ row.username # users[u].username)
              after(q) == [req[q] EXCEPT !.moved = moved(q)]
  <1>1. /\ req' \in [Proc -> Request]
        /\ \A q \in Proc : req'[q] = IF q = p THEN Idle ELSE after(q)
    <2>1. req' = [q \in Proc |-> IF q = p THEN Idle ELSE after(q)]
      <3>1. ASSUME NEW q \in Proc
            PROVE  [req[q] EXCEPT
                      !.moved = @ \/ (/\ users[u].username # None
                                      /\ req[q].name = users[u].username
                                      /\ row.username # users[u].username)] = after(q)
        OBVIOUS
      <3>2. QED
        BY <3>1 DEF Notice
    <2>2. ASSUME NEW q \in Proc PROVE after(q) \in Request
      <3>1. req[q] \in Request
        BY Facts
      <3>2. moved(q) \in BOOLEAN
        BY <3>1 DEF Request
      <3>. HIDE DEF moved
      <3>3. QED
        BY <3>1, <3>2 DEF Request
    <2>. HIDE DEF after
    <2>3. QED
      BY <2>1, <2>2, IdleGood
  <1>2. ASSUME NEW q \in Proc PROVE Good(req[q])'
    <2>0. u \in Uid /\ u # None
      BY NoneAssumption DEF Exists
    <2>1. CASE q = p
      <3>1. req'[q] = Idle
        BY <2>1, <1>1
      <3>2. QED
        BY <2>0, <3>1 DEF Idle, Good, WellFormed, OwnRow
    <2>2. CASE q # p
      <3>1. req'[q] = after(q) /\ req'[q] \in Request
        BY <2>2, <1>1
      <3>2. /\ req[q] \in Request
            /\ WellFormed(req[q]) /\ OwnRow(req[q])
        BY Facts DEF Good
      <3>3. /\ req'[q].op = req[q].op /\ req'[q].pc = req[q].pc /\ req'[q].actor = req[q].actor /\ req'[q].as = req[q].as
            /\ req'[q].admin = req[q].admin /\ req'[q].name = req[q].name /\ req'[q].uid = req[q].uid
            /\ req'[q].values = req[q].values /\ req'[q].tier = req[q].tier
        BY <3>1, <3>2 DEF Request
      <3>4. req'[q].moved = moved(q)
        <4>. HIDE DEF moved
        <4>. QED
          BY <3>1, <3>2 DEF Request
      <3>. HIDE DEF after
      <3>5. WellFormed(req'[q])
        BY <3>2, <3>3 DEF WellFormed
      <3>6. OwnRow(req'[q])
        BY <3>2, <3>3, <3>4 DEF OwnRow
      <3>7. \/ req'[q].moved \/ row.username = users[u].username
            \/ req'[q].name # users[u].username \/ req'[q].name = None
        BY <3>3, <3>4
      <3>8. QED
        BY <2>0, <3>1, <3>5, <3>6, <3>7, GoodAfter
    <2>3. QED
      BY <2>1, <2>2
  <1>3. QED
    BY <1>1, <1>2 DEF RequestsGood

\* A request that has found a row.
LEMMA Found ==
  ASSUME IInv, NEW p \in Proc, req[p].uid # None
  PROVE  req[p].uid \in Exists /\ req[p].uid \in Uid /\ users[req[p].uid] \in Row
  BY Facts DEF Good, WellFormed, Exists, IInv, TypeOK

LEMMA InsertUserKeeps ==
  ASSUME IInv, NEW p \in Proc, InsertUser(p)
  PROVE  IInv'
  <1>1. PICK u \in Uid \ Exists :
          IF Conflict(req[p].values, u) THEN Answer(p)
          ELSE /\ users' = [users EXCEPT ![u] = NewRow(req[p].values, TRUE)]
               /\ Goto(p, Idle)
               /\ UNCHANGED <<session, started>>
    BY DEF InsertUser
  <1>2. req[p].values \in Values /\ req[p].values.username # None /\ req[p].values.email # None
    BY Facts DEF InsertUser, Request, Good, WellFormed
  <1>3. Idle \in Request /\ Good(Idle)'
    BY IdleGood DEF Idle, Good, WellFormed, OwnRow
  <1>4. CASE Conflict(req[p].values, u)
    BY <1>1, <1>4, AnswerKeeps
  <1>5. CASE ~Conflict(req[p].values, u)
    BY <1>1, <1>2, <1>3, <1>5, NewcomerKeeps DEF Goto
  <1>6. QED
    BY <1>4, <1>5

LEMMA InsertGoogleKeeps ==
  ASSUME IInv, NEW p \in Proc, InsertGoogle(p)
  PROVE  IInv'
  <1>1. PICK u \in Uid \ Exists :
          IF Conflict(req[p].values, u) THEN Answer(p)
          ELSE /\ users' = [users EXCEPT ![u] = NewRow(req[p].values, FALSE)]
               /\ Goto(p, [req[p] EXCEPT !.uid = u, !.pc = "session"])
               /\ UNCHANGED <<session, started>>
    BY DEF InsertGoogle
  <1>2. /\ req[p] \in Request /\ req[p].op = "google"
        /\ req[p].values \in Values /\ req[p].values.username # None /\ req[p].values.email # None
    BY Facts DEF InsertGoogle, Request, Good, WellFormed
  <1>3. CASE Conflict(req[p].values, u)
    BY <1>1, <1>3, AnswerKeeps
  <1>4. CASE ~Conflict(req[p].values, u)
    <2>1. [req[p] EXCEPT !.uid = u, !.pc = "session"] \in Request
      BY <1>2 DEF Request
    <2>2. PICK r \in Request : r = [req[p] EXCEPT !.uid = u, !.pc = "session"]
      BY <2>1
    <2>3. r.op = "google" /\ r.pc = "session" /\ r.uid = u
      BY <1>2, <2>2 DEF Request
    <2>4. NewRow(req[p].values, FALSE) # None
      <3>1. NewRow(req[p].values, FALSE) \in Row
        BY <1>2 DEF NewRow, Row, Values
      <3>2. QED
        BY <3>1, RowAssumption
    <2>5. u \in Exists'
      <3>1. users' = [users EXCEPT ![u] = NewRow(req[p].values, FALSE)] /\ users \in [Uid -> Row \cup {None}]
        BY <1>1, <1>4 DEF IInv, TypeOK
      <3>2. users'[u] = NewRow(req[p].values, FALSE)
        BY <3>1
      <3>3. QED
        BY <2>4, <3>2 DEF Exists
    <2>6. Good(r)'
      <3>1. WellFormed(r)'
        BY <2>3, <2>5, NoneAssumption DEF WellFormed
      <3>2. OwnRow(r)'
        BY <2>3 DEF OwnRow
      <3>3. QED
        BY <3>1, <3>2 DEF Good
    <2>7. req' = [req EXCEPT ![p] = r]
      BY <1>1, <1>4, <2>2 DEF Goto
    <2>8. QED
      BY <1>1, <1>2, <1>4, <2>6, <2>7, NewcomerKeeps
  <1>5. QED
    BY <1>3, <1>4

LEMMA WriteUpdateKeeps ==
  ASSUME IInv, NEW p \in Proc, WriteUpdate(p)
  PROVE  IInv'
  <1>. DEFINE u == req[p].uid
              v == req[p].values
              row == Changed(users[u], v)
  <1>1. u \in Exists /\ u \in Uid /\ users[u] \in Row /\ v \in Values
    BY Facts, Found DEF WriteUpdate, Request, Good, WellFormed
  <1>3. /\ row \in Row /\ row.deleted = users[u].deleted
        /\ row.username = (IF v.username = None THEN users[u].username ELSE v.username)
        /\ row.email = (IF v.email = None THEN users[u].email ELSE v.email)
        /\ row.google \in {None, users[u].google, v.google}
    BY <1>1 DEF Changed, Row, Values
  <1>4. CASE Conflict(v, u)
    BY <1>4, AnswerKeeps DEF WriteUpdate
  <1>5. CASE ~Conflict(v, u)
    <2>1. /\ users' = [users EXCEPT ![u] = row]
          /\ Notice(u, row, p)
          /\ UNCHANGED <<session, started>>
      BY <1>5 DEF WriteUpdate
    <2>2. Distinct(u, row)
      BY <1>1, <1>3, <1>5 DEF Conflict, Distinct, IInv, NamesUnique
    <2>. HIDE DEF u, v, row
    <2>3. req' \in [Proc -> Request] /\ RequestsGood'
      BY <1>1, <1>3, <2>1, NoticeGood
    <2>4. QED
      BY <1>1, <1>3, <2>1, <2>2, <2>3, TablesKeep
  <1>6. QED
    BY <1>4, <1>5

LEMMA EraseKeeps ==
  ASSUME IInv, NEW p \in Proc, Erase(p)
  PROVE  IInv'
  <1>. DEFINE u == req[p].uid
              row == Anonymous(users[u])
  <1>1. u \in Exists /\ u \in Uid /\ users[u] \in Row
    BY Facts, Found DEF Erase, Good, WellFormed
  <1>2. /\ row \in Row /\ row.username = None /\ row.google = None /\ row.email = users[u].email
    BY <1>1 DEF Anonymous, Row
  <1>3. /\ users' = [users EXCEPT ![u] = row]
        /\ Notice(u, row, p)
        /\ UNCHANGED <<session, started>>
    BY <1>1 DEF Erase, IInv, TypeOK
  <1>. HIDE DEF u, row
  <1>4. Distinct(u, row)
    BY <1>1, <1>2, SameDistinct
  <1>5. req' \in [Proc -> Request] /\ RequestsGood'
    BY <1>1, <1>2, <1>3, NoticeGood
  <1>6. QED
    BY <1>1, <1>2, <1>3, <1>4, <1>5, TablesKeep

LEMMA HolderStepsKeep ==
  ASSUME IInv, NEW p \in Proc, Deactivate(p) \/ WriteTier(p)
  PROVE  IInv'
  <1>. DEFINE u == req[p].uid
  <1>1. u \in Exists /\ u \in Uid /\ users[u] \in Row /\ req[p] \in Request
    BY Facts, Found DEF Deactivate, WriteTier, Good, WellFormed
  <1>2. users \in [Uid -> Row \cup {None}]
    BY DEF IInv, TypeOK
  <1>3. CASE Deactivate(p)
    <2>. DEFINE row == [users[u] EXCEPT !.deleted = TRUE]
    <2>1. row \in Row /\ row.username = users[u].username /\ row.email = users[u].email /\ row.google = users[u].google
      BY <1>1 DEF Row
    <2>2. /\ users' = [users EXCEPT ![u] = row] /\ req' = [req EXCEPT ![p] = Idle]
          /\ UNCHANGED <<session, started>>
      BY <1>1, <1>2, <1>3 DEF Deactivate, Goto
    <2>. HIDE DEF row, u
    <2>3. Distinct(u, row)
      BY <1>1, <2>1, SameDistinct
    <2>4. QED
      BY <1>1, <2>1, <2>2, <2>3, IdleGood, HolderKeeps
  <1>4. CASE WriteTier(p)
    <2>. DEFINE row == [users[u] EXCEPT !.tier = req[p].tier]
    <2>0. req[p].tier \in Tier
      BY <1>4, Facts DEF WriteTier, Good, WellFormed
    <2>1. row \in Row /\ row.username = users[u].username /\ row.email = users[u].email /\ row.google = users[u].google
      BY <1>1, <2>0 DEF Row
    <2>2. /\ users' = [users EXCEPT ![u] = row] /\ req' = [req EXCEPT ![p] = Idle]
          /\ UNCHANGED <<session, started>>
      BY <1>1, <1>2, <1>4 DEF WriteTier, Goto
    <2>. HIDE DEF row, u
    <2>3. Distinct(u, row)
      BY <1>1, <2>1, SameDistinct
    <2>4. QED
      BY <1>1, <2>1, <2>2, <2>3, IdleGood, HolderKeeps
  <1>5. QED
    BY <1>3, <1>4

\* The identity goes to some row, if the index lets it.
LEMMA LinkKeeps ==
  ASSUME IInv, NEW p \in Proc, LinkGoogle(p)
  PROVE  IInv'
  <1>1. CASE Answer(p)
    BY <1>1, AnswerKeeps
  <1>2. CASE ~Answer(p)
    <2>. DEFINE g == req[p].values.google
                v == [Nothing EXCEPT !.google = g]
    <2>1. PICK u \in Exists : /\ ~Conflict(v, u)
                              /\ users' = [users EXCEPT ![u].google = g]
                              /\ Goto(p, Idle)
                              /\ UNCHANGED <<session, started>>
      BY <1>2 DEF LinkGoogle
    <2>. DEFINE row == [users[u] EXCEPT !.google = g]
    <2>2. u \in Uid /\ users[u] \in Row /\ users \in [Uid -> Row \cup {None}]
      BY DEF IInv, TypeOK, Exists
    <2>3. v.google = g /\ g \in Google \cup {None}
      BY Facts DEF Nothing, Request, Values
    <2>4. /\ row \in Row /\ row.username = users[u].username /\ row.email = users[u].email
          /\ row.google = g
      BY <2>2, <2>3 DEF Row
    <2>5. Distinct(u, row)
      BY <2>1, <2>2, <2>3, <2>4 DEF Conflict, Distinct, IInv, NamesUnique
    <2>6. users' = [users EXCEPT ![u] = row] /\ req' = [req EXCEPT ![p] = Idle]
      BY <2>1, <2>2 DEF Goto
    <2>. HIDE DEF row, g
    <2>7. QED
      BY <2>1, <2>4, <2>5, <2>6, IdleGood, HolderKeeps
  <1>3. QED
    BY <1>1, <1>2

LEMMA SessionsKeep ==
  ASSUME IInv, (\E p \in Proc : OpenSession(p)) \/ (\E u \in Uid : EndSession(u))
  PROVE  IInv'
  <1>1. /\ session' \subseteq Exists /\ UNCHANGED <<users, started>>
        /\ \/ req' = req
           \/ \E p \in Proc : req' = [req EXCEPT ![p] = Idle]
    <2>1. ASSUME NEW p \in Proc, OpenSession(p)
          PROVE  session' \subseteq Exists /\ req' = [req EXCEPT ![p] = Idle]
      <3>1. req[p].uid \in Exists
        BY <2>1, Facts DEF OpenSession, Good, WellFormed
      <3>2. QED
        BY <2>1, <3>1 DEF OpenSession, Goto, IInv, TypeOK
    <2>2. ASSUME NEW u \in Uid, EndSession(u) PROVE session' \subseteq Exists /\ req' = req
      BY <2>2 DEF EndSession, IInv, TypeOK
    <2>3. QED
      BY <2>1, <2>2 DEF OpenSession, EndSession
  <1>2. \A q \in Proc : req'[q] \in Request /\ Good(req'[q])
    BY <1>1, Facts, IdleGood DEF IInv, TypeOK
  <1>3. TypeOK'
    BY <1>1, IdleGood DEF IInv, TypeOK, Exists
  <1>4. NamesUnique'
    BY <1>1 DEF IInv, NamesUnique, Exists
  <1>5. RequestsGood'
    BY <1>1, <1>2 DEF RequestsGood, Good, WellFormed, OwnRow, Exists
  <1>6. QED
    BY <1>3, <1>4, <1>5 DEF IInv

-----------------------------------------------------------------------------
LEMMA NextIInv == ASSUME IInv, [Next]_vars PROVE IInv'
  <1>1. CASE UNCHANGED vars
    BY <1>1 DEF vars, IInv, TypeOK, NamesUnique, RequestsGood, Good, WellFormed, OwnRow, Exists
  <1>2. ASSUME NEW p \in Proc, Step(p) PROVE IInv'
    <2>1. CASE CheckEmail(p) \/ CheckName(p)
      BY <2>1, CheckKeeps
    <2>2. CASE Lookup(p) \/ LookupDeactivate(p) \/ LookupErase(p)
      BY <2>2, LookupKeeps
    <2>3. CASE LoadUpdate(p) \/ LoadTier(p) \/ CheckTier(p) \/ LoadView(p) \/ Show(p)
      BY <2>3, LoadKeeps
    <2>4. CASE FindAddress(p) \/ PickName(p)
      BY <2>4, GoogleReadsKeep
    <2>5. CASE InsertUser(p)
      BY <2>5, InsertUserKeeps
    <2>6. CASE InsertGoogle(p)
      BY <2>6, InsertGoogleKeeps
    <2>7. CASE WriteUpdate(p)
      BY <2>7, WriteUpdateKeeps
    <2>8. CASE Erase(p)
      BY <2>8, EraseKeeps
    <2>9. CASE Deactivate(p) \/ WriteTier(p)
      BY <2>9, HolderStepsKeep
    <2>10. CASE LinkGoogle(p)
      BY <2>10, LinkKeeps
    <2>11. CASE OpenSession(p)
      BY <2>11, SessionsKeep
    <2>12. QED
      BY <1>2, <2>1, <2>2, <2>3, <2>4, <2>5, <2>6, <2>7, <2>8, <2>9, <2>10, <2>11 DEF Step
  <1>3. CASE \E u \in Uid : EndSession(u)
    BY <1>3, SessionsKeep
  <1>4. QED
    BY <1>1, <1>2, <1>3, AskKeeps DEF Next, Quiet

THEOREM Invariance == Spec => []IInv
  BY InitIInv, NextIInv, PTL DEF Spec

\* Every variable keeps its type, whoever signs up, renames or deletes.
THEOREM TypeCorrect == Spec => []TypeOK
  <1>1. IInv => TypeOK
    BY DEF IInv
  <1>2. QED
    BY <1>1, Invariance, PTL

\* Names, addresses and identities stay unique, although each is tested in one await and
\* written in another.
THEOREM Uniqueness == Spec => []NamesUnique
  <1>1. IInv => NamesUnique
    BY DEF IInv
  <1>2. QED
    BY <1>1, Invariance, PTL

\* A regular user's request works on that user's row only, while the name is not given up.
THEOREM OwnProfile == Spec => []OwnProfileOnly
  <1>1. IInv => OwnProfileOnly
    BY DEF IInv, RequestsGood, Good, OwnRow, OwnProfileOnly
  <1>2. QED
    BY <1>1, Invariance, PTL
=============================================================================
