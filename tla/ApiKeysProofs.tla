--------------------------- MODULE ApiKeysProofs ----------------------------
(***************************************************************************)
(* Proofs about ApiKeys for any number of users, keys, permission rows and *)
(* requests in flight: type correctness, that a revoked key is refused,    *)
(* that the rows looked for one at a time give the answer of the most      *)
(* specific row, and that the figures of the report on the use of a key    *)
(* agree.                                                                  *)
(***************************************************************************)
EXTENDS ApiKeys, FiniteSetTheorems, FunctionTheorems, TLAPS

\* What the rows looked for, in this order, answer: the first that is there decides.
Verdict(k, todo) ==
    \E i \in DOMAIN todo : /\ \A j \in 1..(i-1) : RowsAt(k, todo[j]) = {}
                           /\ \E x \in RowsAt(k, todo[i]) : x.allowed

\* The program counter and what it implies for the locals.
WellFormed(r) ==
    /\ r.pc \in {"identify", "probe", "touch", "answered"} <=> r.op = "validate"
    /\ r.pc \in {"load", "write"} => r.op \in Manage /\ r.key \in KeyId
    /\ r.pc = "write" => r.key \in Exists
    /\ r.op = "validate" => r.text \in Text /\ r.text.secret \in Exists \cup {None}
    /\ r.pc \in {"identify", "probe"} => r.todo # <<>>
    /\ r.pc \in {"probe", "touch"} => r.key \in Its(r.text)
    /\ r.valid => r.pc = "answered" /\ r.key \in Exists /\ keys[r.key].used # None

\* A validation that began with an unusable key never gets past identification.
Stopped(r) ==
    r.dead => /\ r.pc = "identify" => \A k \in Its(r.text) : ~InForce(k)
              /\ r.pc \notin {"probe", "touch"} /\ ~r.valid

\* As long as nothing changes, the rest of a validation gives the answer owed.
OnCourse(r) ==
    r.owed # "open" =>
        /\ r.pc = "identify" =>
              (r.owed = "valid" <=> \E k \in Its(r.text) : InForce(k) /\ Verdict(k, r.todo))
        /\ r.pc = "probe" => (r.owed = "valid" <=> Verdict(r.key, r.todo))
        /\ r.pc = "touch" => r.owed = "valid"
        /\ r.pc = "answered" => (r.valid <=> r.owed = "valid")

Good(r) == WellFormed(r) /\ Stopped(r) /\ OnCourse(r)

RequestsGood == \A p \in Proc : Good(req[p])

Use == [key : KeyId, status : Status, endpoint : Endpoint, amount : Amount \cup {None}, day : Time]

IInv == TypeOK /\ RequestsGood /\ usage \in Seq(Use)

-----------------------------------------------------------------------------
LEMMA IdleGood == Idle \in Request /\ Good(Idle)
  <1>1. <<>> \in Seq(Cell)
    OBVIOUS
  <1>2. Idle \in Request
    BY <1>1 DEF Idle, Request, Values, Keep
  <1>3. Good(Idle)
    BY DEF Idle, Good, WellFormed, Stopped, OnCourse, Manage
  <1>4. QED
    BY <1>2, <1>3

LEMMA InitIInv == ASSUME Init PROVE IInv
  <1>1. keys \in [KeyId -> Row \cup {None}] /\ Exists = DOMAIN Resident
    BY ResidentAssumption, NoneAssumption DEF Init, Exists
  <1>2. TypeOK
    <2>1. now \in Time /\ started \in 0..MaxRequests /\ grants \in 0..MaxGrants
      BY BoundAssumption DEF Init, Time
    <2>2. req \in [Proc -> Request] /\ \A p \in Proc : req[p].pc = "idle"
      BY IdleGood DEF Init, Idle
    <2>3. usage = <<>> /\ perms \in Granted
      BY DEF Init
    <2>4. perms \subseteq Permission /\ OnePerCell(perms) /\ \A x \in perms : x.key \in Exists
      BY <1>1, <2>3, GrantedAssumption
    <2>6. QED
      BY <1>1, <2>1, <2>2, <2>3, <2>4 DEF TypeOK
  <1>3. RequestsGood
    <2>1. \A p \in Proc : req[p] = Idle
      BY DEF Init
    <2>2. QED
      BY <2>1, IdleGood DEF RequestsGood
  <1>4. usage \in Seq(Use)
    BY DEF Init
  <1>5. QED
    BY <1>2, <1>3, <1>4 DEF IInv

\* A request arrives, goes on or is answered, and the tables stay.
LEMMA Moves ==
  ASSUME IInv, NEW p \in Proc, NEW r \in Request, Good(r), req' = [req EXCEPT ![p] = r],
         UNCHANGED <<keys, perms, usage, now, grants>>, started' \in 0..MaxRequests
  PROVE  IInv'
  <1>1. ASSUME NEW q \in Proc PROVE req'[q] \in Request /\ Good(req[q])'
    <2>1. req'[q] \in Request /\ Good(req'[q])
      BY DEF IInv, TypeOK, RequestsGood
    <2>2. QED
      BY <2>1 DEF Good, WellFormed, Stopped, OnCourse, Exists, Its, TextOf, InForce, Verdict, RowsAt
  <1>2. TypeOK'
    <2>1. \A q \in Proc : req'[q].pc \in {"probe", "touch"} => req'[q].key \in Exists
      BY <1>1 DEF Good, WellFormed, Its, Exists
    <2>2. QED
      BY <2>1 DEF IInv, TypeOK, Exists
  <1>3. QED
    BY <1>1, <1>2 DEF IInv, RequestsGood

-----------------------------------------------------------------------------
(* The order in which _check_permission looks for rows.                    *)

LEMMA Known ==
  ASSUME NEW r \in Resource \cup {Wild, Unknown}, NEW a \in Action \cup {Wild, Unknown}
  PROVE  /\ r \in Resource \cup {Wild} <=> r # Unknown
         /\ a \in Action \cup {Wild} <=> a # Unknown
  BY WordAssumption

\* A word outside the enumerations is not looked for.
LEMMA ProbesAre ==
  ASSUME NEW r \in Resource \cup {Wild, Unknown}, NEW a \in Action \cup {Wild, Unknown}
  PROVE  LET cell(x, y) == [resource |-> x, action |-> y]
         IN Probes(r, a) =
              IF r # Unknown
              THEN IF a # Unknown
                   THEN <<cell(r, a), cell(Wild, a), cell(r, Wild), cell(Wild, Wild)>>
                   ELSE <<cell(r, Wild), cell(Wild, Wild)>>
              ELSE IF a # Unknown THEN <<cell(Wild, a), cell(Wild, Wild)>> ELSE <<cell(Wild, Wild)>>
  BY Known DEF Probes

LEMMA ProbesType ==
  ASSUME NEW r \in Resource \cup {Wild, Unknown}, NEW a \in Action \cup {Wild, Unknown}
  PROVE  Probes(r, a) \in Seq(Cell) /\ Probes(r, a) # <<>>
  <1>1. ASSUME NEW w \in Cell, NEW x \in Cell, NEW y \in Cell, NEW z \in Cell
        PROVE  /\ <<w, x, y, z>> \in Seq(Cell) /\ <<w, x, y, z>> # <<>>
               /\ <<y, z>> \in Seq(Cell) /\ <<y, z>> # <<>>
               /\ <<z>> \in Seq(Cell) /\ <<z>> # <<>>
    OBVIOUS
  <1>2. /\ r # Unknown => r \in Resource \cup {Wild}
        /\ a # Unknown => a \in Action \cup {Wild}
    OBVIOUS
  <1>. DEFINE cell(x, y) == [resource |-> x, action |-> y]
  <1>3. /\ r # Unknown /\ a # Unknown => cell(r, a) \in Cell
        /\ r # Unknown => cell(r, Wild) \in Cell
        /\ a # Unknown => cell(Wild, a) \in Cell
        /\ cell(Wild, Wild) \in Cell
    BY <1>2 DEF Cell
  <1>4. Probes(r, a) =
              IF r # Unknown
              THEN IF a # Unknown
                   THEN <<cell(r, a), cell(Wild, a), cell(r, Wild), cell(Wild, Wild)>>
                   ELSE <<cell(r, Wild), cell(Wild, Wild)>>
              ELSE IF a # Unknown THEN <<cell(Wild, a), cell(Wild, Wild)>> ELSE <<cell(Wild, Wild)>>
    BY ProbesAre
  <1>. HIDE DEF cell
  <1>5. QED
    BY <1>1, <1>3, <1>4

\* The first row looked for decides if it is there, else the rest does.
LEMMA VerdictStep ==
  ASSUME NEW k, NEW todo \in Seq(Cell), todo # <<>>
  PROVE  Verdict(k, todo) <=> \/ \E x \in RowsAt(k, Head(todo)) : x.allowed
                              \/ RowsAt(k, Head(todo)) = {} /\ Verdict(k, Tail(todo))
  <1>. DEFINE first == RowsAt(k, Head(todo))
              rest  == Tail(todo)
  <1>0. /\ Len(todo) \in Nat \ {0} /\ DOMAIN todo = 1..Len(todo) /\ Head(todo) = todo[1]
        /\ rest \in Seq(Cell) /\ DOMAIN rest = 1..(Len(todo) - 1)
        /\ \A i \in 1..(Len(todo) - 1) : rest[i] = todo[i + 1]
    OBVIOUS
  <1>1. ASSUME Verdict(k, todo), first # {}
        PROVE  \E x \in first : x.allowed
    <2>1. PICK i \in DOMAIN todo : /\ \A j \in 1..(i-1) : RowsAt(k, todo[j]) = {}
                                   /\ \E x \in RowsAt(k, todo[i]) : x.allowed
      BY <1>1 DEF Verdict
    <2>2. i = 1
      <3>. SUFFICES ASSUME i # 1 PROVE FALSE
        OBVIOUS
      <3>1. 1 \in 1..(i-1)
        BY <1>0
      <3>. QED
        BY <2>1, <3>1, <1>0, <1>1
    <2>. QED
      BY <2>1, <2>2, <1>0
  <1>2. ASSUME Verdict(k, todo), first = {}
        PROVE  Verdict(k, rest)
    <2>1. PICK i \in DOMAIN todo : /\ \A j \in 1..(i-1) : RowsAt(k, todo[j]) = {}
                                   /\ \E x \in RowsAt(k, todo[i]) : x.allowed
      BY <1>2 DEF Verdict
    <2>2. i \in 2..Len(todo)
      BY <2>1, <1>0, <1>2
    <2>3. i - 1 \in DOMAIN rest /\ rest[i - 1] = todo[i]
      BY <2>2, <1>0
    <2>4. ASSUME NEW j \in 1..(i - 1 - 1) PROVE RowsAt(k, rest[j]) = {}
      <3>1. j + 1 \in 1..(i-1) /\ rest[j] = todo[j + 1]
        BY <2>2, <1>0
      <3>. QED
        BY <3>1, <2>1
    <2>. HIDE DEF rest
    <2>. QED
      BY <2>1, <2>3, <2>4 DEF Verdict
  <1>3. ASSUME \E x \in first : x.allowed PROVE Verdict(k, todo)
    <2>1. 1 \in DOMAIN todo /\ 1..(1-1) = {}
      BY <1>0
    <2>. QED
      BY <1>0, <1>3, <2>1 DEF Verdict
  <1>4. ASSUME first = {}, Verdict(k, rest) PROVE Verdict(k, todo)
    <2>1. PICK i \in DOMAIN rest : /\ \A j \in 1..(i-1) : RowsAt(k, rest[j]) = {}
                                   /\ \E x \in RowsAt(k, rest[i]) : x.allowed
      BY <1>4 DEF Verdict
    <2>2. i + 1 \in DOMAIN todo /\ rest[i] = todo[i + 1]
      BY <1>0
    <2>3. ASSUME NEW j \in 1..i PROVE RowsAt(k, todo[j]) = {}
      <3>1. CASE j = 1
        BY <3>1, <1>0, <1>4
      <3>2. CASE j # 1
        <4>1. j - 1 \in 1..(i-1) /\ rest[j - 1] = todo[j]
          BY <3>2, <1>0, <2>2
        <4>. QED
          BY <4>1, <2>1
      <3>. QED
        BY <3>1, <3>2
    <2>4. \E x \in RowsAt(k, todo[i + 1]) : x.allowed
      BY <2>1, <2>2
    <2>5. PICK n \in DOMAIN todo : n = i + 1
      BY <2>2
    <2>6. /\ \A j \in 1..(n-1) : RowsAt(k, todo[j]) = {}
          /\ \E x \in RowsAt(k, todo[n]) : x.allowed
      <3>1. 1..(n-1) = 1..i
        BY <1>0, <2>5
      <3>2. \A j \in 1..i : RowsAt(k, todo[j]) = {}
        BY <2>3
      <3>. QED
        BY <3>1, <3>2, <2>4, <2>5
    <2>. QED
      BY <2>6 DEF Verdict
  <1>5. QED
    BY <1>1, <1>2, <1>3, <1>4

LEMMA VerdictNone == \A k : ~Verdict(k, <<>>)
  BY DEF Verdict

\* The rows looked for one at a time give the answer of the most specific row.
LEMMA ProbesDecide ==
  ASSUME TypeOK, NEW k \in KeyId,
         NEW r \in Resource \cup {Wild, Unknown}, NEW a \in Action \cup {Wild, Unknown}
  PROVE  Verdict(k, Probes(r, a)) <=> Allowed(k, r, a)
  <1>. DEFINE cell(x, y) == [resource |-> x, action |-> y]
              c1 == cell(r, a)
              c2 == cell(Wild, a)
              c3 == cell(r, Wild)
              c4 == cell(Wild, Wild)
              W == RowsAt(k, c1)
              X == RowsAt(k, c2)
              Y == RowsAt(k, c3)
              Z == RowsAt(k, c4)
              Says(S) == \E x \in S : x.allowed
  <1>1. /\ \A x \in perms : x.resource # Unknown /\ x.action # Unknown
        /\ r = Unknown => W = {} /\ Y = {}
        /\ a = Unknown => W = {} /\ X = {}
    <2>1. \A x \in perms : x.resource # Unknown /\ x.action # Unknown
      BY WordAssumption DEF TypeOK, Permission
    <2>2. QED
      BY <2>1 DEF RowsAt
  <1>2. Verdict(k, Probes(r, a)) <=> \/ Says(W)
                                     \/ W = {} /\ (\/ Says(X)
                                                   \/ X = {} /\ (Says(Y) \/ (Y = {} /\ Says(Z))))
    <2>1. /\ r # Unknown /\ a # Unknown => c1 \in Cell
          /\ a # Unknown => c2 \in Cell
          /\ r # Unknown => c3 \in Cell
          /\ c4 \in Cell
      BY DEF Cell
    <2>2. Verdict(k, <<c4>>) <=> Says(Z)
      <3>1. <<c4>> \in Seq(Cell) /\ Head(<<c4>>) = c4 /\ Tail(<<c4>>) = <<>> /\ <<c4>> # <<>>
        BY <2>1
      <3>. HIDE DEF c4
      <3>. QED
        BY <3>1, VerdictStep, VerdictNone
    <2>3. r # Unknown => (Verdict(k, <<c3, c4>>) <=> Says(Y) \/ (Y = {} /\ Says(Z)))
      <3>. HAVE r # Unknown
      <3>. DEFINE todo == <<c3, c4>>
                  rest == <<c4>>
      <3>1. todo \in Seq(Cell) /\ Head(todo) = c3 /\ Tail(todo) = rest /\ todo # <<>>
        BY <2>1
      <3>2. Verdict(k, todo) <=> Says(Y) \/ (Y = {} /\ Says(Z))
        <4>1. Verdict(k, rest) <=> Says(Z)
          BY <2>2
        <4>. HIDE DEF todo, rest, c3, c4
        <4>. QED
          BY <3>1, <4>1, VerdictStep
      <3>. QED
        BY <3>2
    <2>4. a # Unknown => (Verdict(k, <<c2, c4>>) <=> Says(X) \/ (X = {} /\ Says(Z)))
      <3>. HAVE a # Unknown
      <3>. DEFINE todo == <<c2, c4>>
                  rest == <<c4>>
      <3>1. todo \in Seq(Cell) /\ Head(todo) = c2 /\ Tail(todo) = rest /\ todo # <<>>
        BY <2>1
      <3>2. Verdict(k, todo) <=> Says(X) \/ (X = {} /\ Says(Z))
        <4>1. Verdict(k, rest) <=> Says(Z)
          BY <2>2
        <4>. HIDE DEF todo, rest, c2, c4
        <4>. QED
          BY <3>1, <4>1, VerdictStep
      <3>. QED
        BY <3>2
    <2>5. r # Unknown /\ a # Unknown =>
            (Verdict(k, <<c2, c3, c4>>) <=> Says(X) \/ (X = {} /\ (Says(Y) \/ (Y = {} /\ Says(Z)))))
      <3>. HAVE r # Unknown /\ a # Unknown
      <3>. DEFINE todo == <<c2, c3, c4>>
                  rest == <<c3, c4>>
      <3>1. todo \in Seq(Cell) /\ Head(todo) = c2 /\ Tail(todo) = rest /\ todo # <<>>
        BY <2>1
      <3>2. Verdict(k, todo) <=> Says(X) \/ (X = {} /\ (Says(Y) \/ (Y = {} /\ Says(Z))))
        <4>1. Verdict(k, rest) <=> Says(Y) \/ (Y = {} /\ Says(Z))
          BY <2>3
        <4>. HIDE DEF todo, rest, c2, c3, c4
        <4>. QED
          BY <3>1, <4>1, VerdictStep
      <3>. QED
        BY <3>2
    <2>6. r # Unknown /\ a # Unknown =>
            (Verdict(k, <<c1, c2, c3, c4>>) <=>
                Says(W) \/ (W = {} /\ (Says(X) \/ (X = {} /\ (Says(Y) \/ (Y = {} /\ Says(Z)))))))
      <3>. HAVE r # Unknown /\ a # Unknown
      <3>. DEFINE todo == <<c1, c2, c3, c4>>
                  rest == <<c2, c3, c4>>
      <3>1. todo \in Seq(Cell) /\ Head(todo) = c1 /\ Tail(todo) = rest /\ todo # <<>>
        BY <2>1
      <3>2. Verdict(k, todo) <=> Says(W) \/ (W = {} /\ (Says(X) \/ (X = {} /\ (Says(Y) \/ (Y = {} /\ Says(Z))))))
        <4>1. Verdict(k, rest) <=> Says(X) \/ (X = {} /\ (Says(Y) \/ (Y = {} /\ Says(Z))))
          BY <2>5
        <4>. HIDE DEF todo, rest, c1, c2, c3, c4
        <4>. QED
          BY <3>1, <4>1, VerdictStep
      <3>. QED
        BY <3>2
    <2>7. Probes(r, a) = IF r # Unknown
              THEN IF a # Unknown THEN <<c1, c2, c3, c4>> ELSE <<c3, c4>>
              ELSE IF a # Unknown THEN <<c2, c4>> ELSE <<c4>>
      BY ProbesAre
    <2>. HIDE DEF c1, c2, c3, c4, W, X, Y, Z
    <2>8. QED
      BY <1>1, <2>2, <2>3, <2>4, <2>6, <2>7
  <1>. DEFINE wild(x) == (IF x.action = Wild /\ a # Wild THEN 2 ELSE 0) + (IF x.resource = Wild /\ r # Wild THEN 1 ELSE 0)
              covers == {x \in perms : x.key = k /\ x.resource \in {r, Wild} /\ x.action \in {a, Wild}}
              w == IF r # Wild THEN 1 ELSE 0
              v == IF a # Wild THEN 2 ELSE 0
  <1>3. covers = W \cup X \cup Y \cup Z
    BY DEF RowsAt
  <1>4. /\ \A x \in W : wild(x) = 0
        /\ \A x \in X : wild(x) = w
        /\ \A x \in Y : wild(x) = v
        /\ \A x \in Z : wild(x) = v + w
    BY DEF RowsAt
  <1>5. /\ \A x, y \in W : x = y
        /\ \A x, y \in X : x = y
        /\ \A x, y \in Y : x = y
        /\ \A x, y \in Z : x = y
    BY DEF RowsAt, TypeOK, OnePerCell
  <1>6. (r = Wild => X = W /\ Z = Y) /\ (a = Wild => Y = W /\ Z = X)
    BY DEF RowsAt
  <1>7. Allowed(k, r, a) <=> \E x \in covers : x.allowed /\ \A y \in covers : wild(x) <= wild(y)
    BY DEF Allowed
  <1>8. Allowed(k, r, a) <=> \/ Says(W)
                             \/ W = {} /\ (\/ Says(X)
                                           \/ X = {} /\ (Says(Y) \/ (Y = {} /\ Says(Z))))
    <2>. HIDE DEF W, X, Y, Z, covers, wild
    <2>1. CASE W # {}
      BY <2>1, <1>3, <1>4, <1>5, <1>6, <1>7
    <2>2. CASE W = {} /\ X # {}
      BY <2>2, <1>3, <1>4, <1>5, <1>6, <1>7
    <2>3. CASE W = {} /\ X = {}
      BY <2>3, <1>3, <1>4, <1>5, <1>6, <1>7
    <2>. QED
      BY <2>1, <2>2, <2>3
  <1>9. QED
    BY <1>2, <1>8

-----------------------------------------------------------------------------
(* Requests arrive, and steps that only read.                              *)

\* What is known of a request in flight.
LEMMA Facts ==
  ASSUME IInv, NEW p \in Proc
  PROVE  \E r \in Request : r = req[p] /\ Good(r)
  BY DEF IInv, TypeOK, RequestsGood

LEMMA EndKeeps ==
  ASSUME IInv, NEW p \in Proc, End(p), UNCHANGED <<keys, perms, usage, now, started, grants>>
  PROVE  IInv'
  <1>1. req' = [req EXCEPT ![p] = Idle] /\ started' \in 0..MaxRequests
    BY DEF End, IInv, TypeOK
  <1>2. QED
    BY <1>1, Moves, IdleGood

LEMMA BeginKeeps ==
  ASSUME IInv, NEW p \in Proc, NEW r \in Request, Good(r), Begin(p, r)
  PROVE  IInv'
  <1>1. req' = [req EXCEPT ![p] = r] /\ started' \in 0..MaxRequests
    BY BoundAssumption DEF Begin, IInv, TypeOK
  <1>2. QED
    BY <1>1, Moves DEF Begin

\* Usable, of an existing key, is InForce.
LEMMA UsableInForce ==
  ASSUME TypeOK, NEW k \in Exists
  PROVE  Usable(keys[k]) <=> InForce(k)
  <1>1. keys[k] \in Row /\ now \in Nat
    BY BoundAssumption DEF TypeOK, Exists, Time
  <1>2. keys[k].expires \in Time \/ keys[k].expires = Never
    BY <1>1 DEF Row
  <1>3. CASE keys[k].expires \in Time
    <2>1. keys[k].expires # Never /\ keys[k].expires \in Nat
      BY <1>3, NoneAssumption, BoundAssumption DEF Time
    <2>2. QED
      BY <1>1, <1>3, <2>1 DEF Usable, Expired, InForce
  <1>4. CASE keys[k].expires = Never
    BY <1>1, <1>4, NoneAssumption DEF Usable, Expired, InForce
  <1>5. QED
    BY <1>2, <1>3, <1>4

\* A presented text is a key's when its prefix finds the row and its hash matches.
LEMMA BearsIts ==
  ASSUME TypeOK, NEW t \in Text, NEW k \in Exists
  PROVE  Bears(t, k) <=> k \in Its(t)
  <1>1. t \in [good : BOOLEAN, prefix : Prefix, secret : KeyId \cup {None}]
    BY TextAssumption
  <1>2. Bears(t, k) <=> t = TextOf(k)
    BY <1>1 DEF Bears, TextOf
  <1>3. QED
    BY <1>2 DEF Its

LEMMA OneKey == \A t : \A k, l \in Its(t) : k = l
  BY DEF Its, TextOf

LEMMA AskManageKeeps ==
  ASSUME IInv, NEW p \in Proc, AskManage(p)
  PROVE  IInv'
  <1>1. PICK op \in Manage, u \in User, k \in KeyId, v \in Update :
          Begin(p, [Idle EXCEPT !.op = op, !.pc = "load", !.user = u, !.key = k, !.values = v])
    BY DEF AskManage
  <1>. DEFINE r == [Idle EXCEPT !.op = op, !.pc = "load", !.user = u, !.key = k, !.values = v]
  <1>2. r \in Request
    BY UpdateAssumption, IdleGood DEF Idle, Request
  <1>3. Good(r)
    BY DEF Idle, Good, WellFormed, Stopped, OnCourse, Manage
  <1>4. QED
    <2>. HIDE DEF r
    <2>. QED
      BY <1>1, <1>2, <1>3, BeginKeeps DEF r

LEMMA AskValidateKeeps ==
  ASSUME IInv, NEW p \in Proc, AskValidate(p)
  PROVE  IInv'
  <1>1. PICK t \in Text, c \in Asked :
          LET right == \E k \in Its(t) : InForce(k) /\ Allowed(k, c.resource, c.action)
          IN /\ t.secret # None => t.secret \in Exists
             /\ Begin(p, [Idle EXCEPT !.op = "validate", !.pc = "identify", !.text = t,
                                      !.todo = Probes(c.resource, c.action),
                                      !.owed = IF right THEN "valid" ELSE "refused",
                                      !.dead = \A k \in Its(t) : ~InForce(k)])
    BY DEF AskValidate
  <1>. DEFINE right == \E k \in Its(t) : InForce(k) /\ Allowed(k, c.resource, c.action)
              todo == Probes(c.resource, c.action)
              none == \A k \in Its(t) : ~InForce(k)
  <1>2. PICK owed \in {"valid", "refused"} : owed = IF right THEN "valid" ELSE "refused"
    OBVIOUS
  <1>3. PICK dead \in BOOLEAN : dead = none
    OBVIOUS
  <1>4. todo \in Seq(Cell) /\ todo # <<>>
    BY AskedAssumption, ProbesType
  <1>5. owed = "valid" <=> \E k \in Its(t) : InForce(k) /\ Verdict(k, todo)
    <2>1. \A k \in Its(t) : Verdict(k, todo) <=> Allowed(k, c.resource, c.action)
      BY AskedAssumption, ProbesDecide DEF IInv, Its, Exists
    <2>2. owed = "valid" <=> right
      BY <1>2
    <2>3. QED
      BY <2>1, <2>2
  <1>. DEFINE r == [Idle EXCEPT !.op = "validate", !.pc = "identify", !.text = t,
                                !.todo = todo, !.owed = owed, !.dead = dead]
  <1>6. Begin(p, r)
    BY <1>1, <1>2, <1>3
  <1>7. r \in Request
    <2>. HIDE DEF todo
    <2>. QED
      BY <1>4, IdleGood DEF Idle, Request
  <1>8. /\ r.op = "validate" /\ r.pc = "identify" /\ r.text = t /\ r.todo = todo
        /\ r.owed = owed /\ r.dead = dead /\ ~r.valid
    BY DEF Idle
  <1>9. Good(r)
    <2>. HIDE DEF r, todo
    <2>1. WellFormed(r)
      BY <1>1, <1>4, <1>8 DEF WellFormed
    <2>2. Stopped(r)
      BY <1>3, <1>8 DEF Stopped
    <2>3. OnCourse(r)
      BY <1>5, <1>8 DEF OnCourse
    <2>4. QED
      BY <2>1, <2>2, <2>3 DEF Good
  <1>10. QED
    <2>. HIDE DEF r
    <2>. QED
      BY <1>6, <1>7, <1>9, BeginKeeps

LEMMA LoadKeeps ==
  ASSUME IInv, NEW p \in Proc, Load(p)
  PROVE  IInv'
  <1>1. PICK r \in Request : r = req[p] /\ Good(r)
    BY Facts
  <1>2. CASE OwnedBy(p, r.key)
    <2>. DEFINE s == [r EXCEPT !.pc = "write"]
    <2>1. s \in Request /\ req' = [req EXCEPT ![p] = s]
      BY <1>1, <1>2 DEF Load, Request
    <2>2. Good(s)
      BY <1>1, <1>2 DEF Load, OwnedBy, Request, Good, WellFormed, Stopped, OnCourse, Manage, Exists
    <2>3. started' \in 0..MaxRequests
      BY DEF Load, IInv, TypeOK
    <2>4. QED
      <3>. HIDE DEF s
      <3>. QED
        BY <2>1, <2>2, <2>3, Moves DEF Load
  <1>3. CASE ~OwnedBy(p, r.key)
    BY <1>1, <1>3, EndKeeps DEF Load
  <1>4. QED
    BY <1>2, <1>3

\* A validation is answered: refused, when nothing or not "valid" is owed.
LEMMA RefuseKeeps ==
  ASSUME IInv, NEW p \in Proc, NEW r \in Request, r = req[p], Good(r),
         r.op = "validate", ~r.valid, r.owed # "valid", Answer(p, FALSE),
         UNCHANGED <<keys, perms, usage, now, started, grants>>
  PROVE  IInv'
  <1>. DEFINE s == [r EXCEPT !.pc = "answered", !.valid = FALSE]
  <1>1. s \in Request /\ req' = [req EXCEPT ![p] = s]
    BY DEF Answer, Request
  <1>2. Good(s)
    BY DEF Request, Good, WellFormed, Stopped, OnCourse, Manage
  <1>3. started' \in 0..MaxRequests
    BY DEF IInv, TypeOK
  <1>4. QED
    <2>. HIDE DEF s
    <2>. QED
      BY <1>1, <1>2, <1>3, Moves

LEMMA IdentifyKeeps ==
  ASSUME IInv, NEW p \in Proc, Identify(p)
  PROVE  IInv'
  <1>1. PICK r \in Request : r = req[p] /\ Good(r)
    BY Facts
  <1>2. r.pc = "identify" /\ r.op = "validate" /\ ~r.valid /\ r.text \in Text /\ r.todo # <<>>
    BY <1>1 DEF Identify, Good, WellFormed
  <1>3. \A k \in Exists : Bears(r.text, k) <=> k \in Its(r.text)
    BY <1>2, BearsIts DEF IInv
  <1>4. \A k \in Its(r.text) : k \in Exists /\ (Usable(keys[k]) <=> InForce(k))
    BY UsableInForce DEF IInv, Its
  <1>5. CASE Answer(p, FALSE) /\ \A k \in Its(r.text) : ~InForce(k)
    <2>1. r.owed # "valid"
      BY <1>1, <1>2, <1>5 DEF Good, OnCourse
    <2>2. QED
      BY <1>1, <1>2, <1>5, <2>1, RefuseKeeps DEF Identify
  <1>6. CASE \E k \in Its(r.text) : InForce(k) /\ req' = [req EXCEPT ![p].pc = "probe", ![p].key = k]
    <2>1. PICK k \in Its(r.text) : InForce(k) /\ req' = [req EXCEPT ![p].pc = "probe", ![p].key = k]
      BY <1>6
    <2>2. k \in KeyId
      BY DEF Its, Exists
    <2>. DEFINE s == [r EXCEPT !.pc = "probe", !.key = k]
    <2>3. s \in Request /\ req' = [req EXCEPT ![p] = s]
      BY <1>1, <2>1, <2>2 DEF Request
    <2>4. s.op = r.op /\ s.pc = "probe" /\ s.key = k /\ s.text = r.text /\ s.todo = r.todo
          /\ s.owed = r.owed /\ s.dead = r.dead /\ s.valid = r.valid
      BY DEF Request
    <2>5. ~r.dead
      BY <1>1, <1>2, <2>1 DEF Good, Stopped
    <2>6. r.owed # "open" => (r.owed = "valid" <=> Verdict(k, r.todo))
      BY <1>1, <1>2, <2>1, OneKey DEF Good, OnCourse
    <2>7. Good(s)
      <3>. HIDE DEF s
      <3>1. WellFormed(s)
        BY <1>1, <1>2, <2>4 DEF Good, WellFormed
      <3>2. Stopped(s)
        BY <2>4, <2>5 DEF Stopped
      <3>3. OnCourse(s)
        BY <2>4, <2>6 DEF OnCourse
      <3>4. QED
        BY <3>1, <3>2, <3>3 DEF Good
    <2>8. started' \in 0..MaxRequests
      BY DEF Identify, IInv, TypeOK
    <2>9. QED
      <3>. HIDE DEF s
      <3>. QED
        BY <2>3, <2>7, <2>8, Moves DEF Identify
  <1>7. QED
    BY <1>1, <1>3, <1>4, <1>5, <1>6, OneKey DEF Identify, Its

LEMMA ProbeKeeps ==
  ASSUME IInv, NEW p \in Proc, Probe(p)
  PROVE  IInv'
  <1>1. PICK r \in Request : r = req[p] /\ Good(r)
    BY Facts
  <1>. DEFINE rows == RowsAt(r.key, Head(r.todo))
              rest == Tail(r.todo)
  <1>2. r.pc = "probe" /\ r.op = "validate" /\ ~r.valid /\ r.todo # <<>> /\ r.todo \in Seq(Cell)
    BY <1>1 DEF Probe, Good, WellFormed, Request
  <1>3. ~r.dead
    BY <1>1, <1>2 DEF Good, Stopped
  <1>4. Verdict(r.key, r.todo) <=> (\E x \in rows : x.allowed) \/ (rows = {} /\ Verdict(r.key, rest))
    BY <1>2, VerdictStep
  <1>5. \A x, y \in rows : x = y
    BY DEF RowsAt, IInv, TypeOK, OnePerCell
  <1>6. started' \in 0..MaxRequests
    BY DEF Probe, IInv, TypeOK
  <1>7. CASE rows = {} /\ rest # <<>> /\ req' = [req EXCEPT ![p].todo = rest]
    <2>. DEFINE s == [r EXCEPT !.todo = rest]
    <2>1. rest \in Seq(Cell)
      BY <1>2
    <2>2. s \in Request /\ req' = [req EXCEPT ![p] = s]
      <3>. HIDE DEF rest
      <3>. QED
        BY <1>1, <1>7, <2>1 DEF Request
    <2>3. s.op = r.op /\ s.pc = r.pc /\ s.key = r.key /\ s.text = r.text /\ s.todo = rest
          /\ s.owed = r.owed /\ s.dead = r.dead /\ s.valid = r.valid
      BY DEF Request
    <2>4. Verdict(r.key, r.todo) <=> Verdict(r.key, rest)
      BY <1>4, <1>7
    <2>5. Good(s)
      <3>. HIDE DEF s, rest
      <3>1. WellFormed(s)
        BY <1>1, <1>2, <1>7, <2>3 DEF Good, WellFormed
      <3>2. Stopped(s)
        BY <1>3, <2>3 DEF Stopped
      <3>3. OnCourse(s)
        BY <1>1, <1>2, <2>3, <2>4 DEF Good, OnCourse
      <3>4. QED
        BY <3>1, <3>2, <3>3 DEF Good
    <2>6. QED
      <3>. HIDE DEF s
      <3>. QED
        BY <2>2, <2>5, <1>6, Moves DEF Probe
  <1>8. CASE Answer(p, FALSE) /\ ~Verdict(r.key, r.todo)
    <2>1. r.owed # "valid"
      BY <1>1, <1>2, <1>8 DEF Good, OnCourse
    <2>2. QED
      BY <1>1, <1>2, <1>8, <2>1, RefuseKeeps DEF Probe
  <1>9. CASE Verdict(r.key, r.todo) /\ req' = [req EXCEPT ![p].pc = "touch"]
    <2>. DEFINE s == [r EXCEPT !.pc = "touch"]
    <2>1. s \in Request /\ req' = [req EXCEPT ![p] = s]
      BY <1>1, <1>9 DEF Request
    <2>2. s.op = r.op /\ s.pc = "touch" /\ s.key = r.key /\ s.text = r.text /\ s.todo = r.todo
          /\ s.owed = r.owed /\ s.dead = r.dead /\ s.valid = r.valid
      BY DEF Request
    <2>3. Good(s)
      <3>. HIDE DEF s
      <3>1. WellFormed(s)
        BY <1>1, <1>2, <2>2 DEF Good, WellFormed
      <3>2. Stopped(s)
        BY <1>3, <2>2 DEF Stopped
      <3>3. OnCourse(s)
        BY <1>1, <1>2, <1>9, <2>2 DEF Good, OnCourse
      <3>4. QED
        BY <3>1, <3>2, <3>3 DEF Good
    <2>4. QED
      <3>. HIDE DEF s
      <3>. QED
        BY <2>1, <2>3, <1>6, Moves DEF Probe
  <1>10. CASE rows = {}
    <2>1. IF rest = <<>> THEN Answer(p, FALSE) ELSE req' = [req EXCEPT ![p].todo = rest]
      BY <1>1, <1>10 DEF Probe
    <2>2. CASE rest = <<>>
      BY <2>1, <2>2, <1>4, <1>8, <1>10, VerdictNone
    <2>3. CASE rest # <<>>
      BY <2>1, <2>3, <1>7, <1>10
    <2>4. QED
      BY <2>2, <2>3
  <1>11. CASE rows # {}
    <2>1. PICK x \in rows : IF x.allowed THEN req' = [req EXCEPT ![p].pc = "touch"] ELSE Answer(p, FALSE)
      BY <1>1, <1>11 DEF Probe
    <2>2. Verdict(r.key, r.todo) <=> x.allowed
      BY <1>4, <1>5
    <2>3. QED
      BY <2>1, <2>2, <1>8, <1>9
  <1>12. QED
    BY <1>10, <1>11

-----------------------------------------------------------------------------
(* Steps that change a table or the clock.                                 *)

\* No row vanishes, or changes its owner or its prefix, or was never used again.
KeysKept ==
    \A k \in Exists : /\ keys'[k] # None
                      /\ keys'[k].owner = keys[k].owner
                      /\ keys'[k].prefix = keys[k].prefix
                      /\ keys[k].used # None => keys'[k].used # None

LEMMA ExistsKept ==
  ASSUME KeysKept
  PROVE  Exists \subseteq Exists' /\ \A k \in Exists : TextOf(k)' = TextOf(k)
  BY DEF KeysKept, Exists, TextOf

LEMMA ItsKept ==
  ASSUME KeysKept, NEW t \in Text, t.secret \in Exists \cup {None}
  PROVE  Its(t)' = Its(t)
  <1>1. ASSUME NEW k \in Exists', t = TextOf(k)' PROVE k \in Exists
    <2>1. t.secret = k /\ k \in KeyId
      BY <1>1 DEF TextOf, Exists
    <2>2. QED
      BY <2>1, NoneAssumption
  <1>2. QED
    BY <1>1, ExistsKept DEF Its

LEMMA VerdictKept ==
  ASSUME NEW k, \A c : RowsAt(k, c)' = RowsAt(k, c)
  PROVE  \A todo : Verdict(k, todo)' <=> Verdict(k, todo)
  BY DEF Verdict

\* The history of a request may change, the request itself does not.
Differs(s, r) == s = [r EXCEPT !.owed = s.owed, !.dead = s.dead]

\* A request that another's step does not answer stays good, with what it is owed left
\* open or still right, and it is dead only if no key of its own became usable.
LEMMA Carries ==
  ASSUME IInv, KeysKept, NEW r \in Request, Good(r), NEW s \in Request,
         Differs(s, r),
         s.owed # "open" =>
            /\ s.owed = r.owed
            /\ r.op = "validate" /\ r.pc # "answered" =>
                  \A k \in Its(r.text) : /\ InForce(k)' <=> InForce(k)
                                         /\ \A c : RowsAt(k, c)' = RowsAt(k, c),
         s.dead => /\ r.dead
                   /\ r.pc = "identify" => \A k \in Its(r.text) : InForce(k)' => InForce(k)
  PROVE  Good(s)'
  <1>1. /\ s.op = r.op /\ s.pc = r.pc /\ s.key = r.key /\ s.text = r.text /\ s.todo = r.todo
        /\ s.valid = r.valid
    BY DEF Differs, Request
  <1>2. r.op = "validate" => Its(r.text)' = Its(r.text)
    BY ItsKept DEF Good, WellFormed
  <1>3. WellFormed(s)'
    <2>1. Exists \subseteq Exists'
      BY ExistsKept
    <2>2. r.valid => keys'[r.key].used # None
      BY DEF KeysKept, Good, WellFormed
    <2>3. WellFormed(r)
      BY DEF Good
    <2>4. QED
      BY <1>1, <1>2, <2>1, <2>2, <2>3 DEF WellFormed
  <1>4. Stopped(s)'
    BY <1>1, <1>2 DEF Stopped, Good, WellFormed
  <1>5. OnCourse(s)'
    <2>. SUFFICES ASSUME s.owed # "open" PROVE OnCourse(s)'
      BY DEF OnCourse
    <2>1. OnCourse(r) /\ s.owed = r.owed
      BY DEF Good
    <2>2. r.op = "validate" /\ r.pc # "answered" =>
             \A k \in Its(r.text) : \A todo : Verdict(k, todo)' <=> Verdict(k, todo)
      BY VerdictKept
    <2>3. r.pc = "identify" => (s.owed = "valid" <=> \E k \in Its(r.text)' : InForce(k)' /\ Verdict(k, s.todo)')
      BY <1>1, <1>2, <2>1, <2>2 DEF OnCourse, Good, WellFormed
    <2>4. r.pc = "probe" => (s.owed = "valid" <=> Verdict(s.key, s.todo)')
      BY <1>1, <2>1, <2>2 DEF OnCourse, Good, WellFormed
    <2>5. /\ r.pc = "touch" => s.owed = "valid"
          /\ r.pc = "answered" => (s.valid <=> s.owed = "valid")
      BY <1>1, <2>1 DEF OnCourse
    <2>6. QED
      BY <1>1, <2>3, <2>4, <2>5 DEF OnCourse
  <1>6. QED
    BY <1>3, <1>4, <1>5 DEF Good

\* The invariant after a step that records no use.
LEMMA Finish ==
  ASSUME IInv, TypeOK', KeysKept, \A q \in Proc : Good(req[q])', usage' = usage
  PROVE  IInv'
  BY DEF IInv, RequestsGood

LEMMA UnsettledIs ==
  ASSUME NEW r0 \in [Proc -> Request], NEW k, NEW b \in BOOLEAN, NEW q \in Proc
  PROVE  \E s \in Request :
           /\ s = Unsettled(r0, k, b)[q]
           /\ Differs(s, r0[q])
           /\ IF r0[q].op = "validate" /\ r0[q].pc # "answered" /\ k \in Its(r0[q].text)
              THEN s.owed = "open" /\ (s.dead => r0[q].dead /\ ~b)
              ELSE s = r0[q]
  <1>1. PICK r \in Request : r = r0[q]
    OBVIOUS
  <1>2. CASE r.op = "validate" /\ r.pc # "answered" /\ k \in Its(r.text)
    <2>1. PICK d \in BOOLEAN : d <=> (r.dead /\ ~b)
      BY DEF Request
    <2>. DEFINE s == [r EXCEPT !.owed = "open", !.dead = d]
    <2>2. s \in Request
      BY DEF Request
    <2>3. s.owed = "open" /\ s.dead = d
      BY DEF Request
    <2>4. (r.dead /\ ~b) = d
      BY <2>1 DEF Request
    <2>5. Unsettled(r0, k, b)[q] = s
      BY <1>1, <1>2, <2>4, Zenon DEF Unsettled
    <2>6. Differs(s, r)
      BY <2>3, Zenon DEF Differs
    <2>7. QED
      <3>. HIDE DEF s
      <3>. QED
        BY <1>1, <1>2, <2>1, <2>2, <2>3, <2>5, <2>6
  <1>3. CASE ~(r.op = "validate" /\ r.pc # "answered" /\ k \in Its(r.text))
    <2>1. Unsettled(r0, k, b)[q] = r
      BY <1>1, <1>3 DEF Unsettled
    <2>2. Differs(r, r)
      BY DEF Differs, Request
    <2>3. QED
      BY <1>1, <1>3, <2>1, <2>2
  <1>4. QED
    BY <1>2, <1>3

LEMMA IdleNext == Good(Idle)'
  BY DEF Idle, Good, WellFormed, Stopped, OnCourse, Manage

\* A request that this step leaves as it is.
LEMMA Untouched ==
  ASSUME IInv, KeysKept, NEW q \in Proc, req'[q] = req[q],
         \A k \in Exists : /\ InForce(k)' <=> InForce(k)
                           /\ \A c : RowsAt(k, c)' = RowsAt(k, c)
  PROVE  req'[q] \in Request /\ Good(req[q])'
  <1>1. PICK r \in Request : r = req[q] /\ Good(r)
    BY Facts
  <1>2. Differs(r, r)
    BY DEF Differs, Request
  <1>3. \A k \in Its(r.text) : k \in Exists
    BY DEF Its
  <1>4. Good(r)'
    BY <1>1, <1>2, <1>3, Carries
  <1>5. req'[q] = r
    BY <1>1
  <1>6. Good(req[q])' <=> Good(r)'
    BY <1>5 DEF Good, WellFormed, Stopped, OnCourse, Its, TextOf, InForce, Verdict, RowsAt, Exists
  <1>7. QED
    BY <1>1, <1>4, <1>5, <1>6

\* Requests are well formed, so their keys exist.
LEMMA ReqTypes ==
  ASSUME IInv, req' \in [Proc -> Request], \A q \in Proc : Good(req[q])'
  PROVE  \A q \in Proc : req'[q].pc \in {"probe", "touch"} => req'[q].key \in Exists'
  BY DEF Good, WellFormed, Its, Exists

LEMMA CreateKeeps ==
  ASSUME IInv, NEW p \in Proc, Create(p)
  PROVE  IInv'
  <1>1. PICK u \in User, k \in KeyId \ Exists, f \in Prefix, e \in Expiry :
          keys' = [keys EXCEPT ![k] = [owner |-> u, prefix |-> f, active |-> TRUE,
                                       expires |-> e, used |-> None]]
    BY DEF Create
  <1>. DEFINE row == [owner |-> u, prefix |-> f, active |-> TRUE, expires |-> e, used |-> None]
  <1>2. row \in Row
    BY ExpiryAssumption DEF Row
  <1>3. keys' \in [KeyId -> Row \cup {None}] /\ \A x \in Exists : keys'[x] = keys[x]
    <2>1. keys' = [keys EXCEPT ![k] = row]
      BY <1>1
    <2>. HIDE DEF row
    <2>. QED
      BY <1>2, <2>1 DEF IInv, TypeOK, Exists
  <1>4. KeysKept
    BY <1>3 DEF KeysKept, Exists
  <1>5. \A x \in Exists : InForce(x)' <=> InForce(x)
    BY <1>3 DEF InForce, Create
  <1>6. \A x \in Exists : \A c : RowsAt(x, c)' = RowsAt(x, c)
    BY DEF RowsAt, Create
  <1>7. \A q \in Proc : req'[q] \in Request /\ Good(req[q])'
    BY <1>4, <1>5, <1>6, Untouched DEF Create
  <1>8. TypeOK'
    <2>1. Exists \subseteq Exists'
      BY <1>4, ExistsKept
    <2>2. started' \in 0..MaxRequests
      BY BoundAssumption DEF Create, IInv, TypeOK
    <2>3. req' \in [Proc -> Request]
      BY DEF Create, IInv, TypeOK
    <2>4. \A q \in Proc : req'[q].pc \in {"probe", "touch"} => req'[q].key \in Exists'
      BY <1>7, <2>3, ReqTypes
    <2>5. QED
      BY <1>3, <2>1, <2>2, <2>3, <2>4 DEF Create, IInv, TypeOK
  <1>9. QED
    BY <1>4, <1>7, <1>8, Finish DEF Create

LEMMA TouchKeeps ==
  ASSUME IInv, NEW p \in Proc, Touch(p)
  PROVE  IInv'
  <1>1. PICK r \in Request : r = req[p] /\ Good(r)
    BY Facts
  <1>2. PICK k \in Exists : k = r.key
    BY <1>1 DEF Touch, Good, WellFormed, Its
  <1>. DEFINE row == [keys[k] EXCEPT !.used = now]
  <1>3. row \in Row /\ row.used = now /\ now # None /\ keys[k] \in Row
    BY NoneAssumption DEF IInv, TypeOK, Exists, Row
  <1>4. /\ row.owner = keys[k].owner /\ row.prefix = keys[k].prefix
        /\ row.active = keys[k].active /\ row.expires = keys[k].expires
    BY <1>3 DEF Row
  <1>5. /\ keys' \in [KeyId -> Row \cup {None}] /\ keys'[k] = row
        /\ \A x \in Exists \ {k} : keys'[x] = keys[x]
    <2>1. keys' = [keys EXCEPT ![k] = row]
      BY <1>1, <1>2 DEF Touch
    <2>. HIDE DEF row
    <2>. QED
      BY <1>3, <2>1 DEF IInv, TypeOK, Exists
  <1>. HIDE DEF row
  <1>6. KeysKept /\ row # None
    BY <1>3, <1>4, <1>5, NoneAssumption DEF KeysKept, Exists
  <1>7. \A x \in Exists : InForce(x)' <=> InForce(x)
    BY <1>4, <1>5 DEF InForce, Touch
  <1>8. \A x \in Exists : \A c : RowsAt(x, c)' = RowsAt(x, c)
    BY DEF RowsAt, Touch
  <1>. DEFINE s == [r EXCEPT !.pc = "answered", !.valid = TRUE]
  <1>9. s \in Request /\ req' = [req EXCEPT ![p] = s]
    BY <1>1 DEF Touch, Answer, Request
  <1>10. Good(s)'
    <2>1. s.op = "validate" /\ s.pc = "answered" /\ s.valid /\ s.key = k /\ s.text = r.text
          /\ s.owed = r.owed /\ s.dead = r.dead
      BY <1>1, <1>2 DEF Touch, Good, WellFormed, Request
    <2>. HIDE DEF s
    <2>2. WellFormed(s)'
      <3>1. k \in Exists' /\ keys'[k].used # None
        BY <1>3, <1>5, <1>6 DEF Exists
      <3>2. s.text \in Text /\ s.text.secret \in Exists' \cup {None}
        BY <1>1, <1>6, <2>1, ExistsKept DEF Touch, Good, WellFormed
      <3>3. QED
        BY <2>1, <3>1, <3>2 DEF WellFormed
    <2>3. Stopped(s)' /\ OnCourse(s)'
      BY <1>1, <2>1 DEF Touch, Good, Stopped, OnCourse
    <2>4. QED
      BY <2>2, <2>3 DEF Good
  <1>11. ASSUME NEW q \in Proc PROVE Good(req[q])'
    <2>1. CASE q = p
      <3>. HIDE DEF s
      <3>1. req'[q] = s
        BY <1>9, <2>1 DEF IInv, TypeOK
      <3>2. QED
        BY <1>10, <3>1 DEF Good, WellFormed, Stopped, OnCourse, Its, TextOf, InForce, Verdict, RowsAt, Exists
    <2>2. CASE q # p
      <3>1. req'[q] = req[q]
        BY <1>9, <2>2 DEF IInv, TypeOK
      <3>2. QED
        BY <3>1, <1>6, <1>7, <1>8, Untouched
    <2>3. QED
      BY <2>1, <2>2
  <1>12. TypeOK'
    <2>1. Exists \subseteq Exists'
      BY <1>6, ExistsKept
    <2>2. req' \in [Proc -> Request]
      <3>. HIDE DEF s
      <3>. QED
        BY <1>9 DEF IInv, TypeOK
    <2>3. \A q \in Proc : req'[q].pc \in {"probe", "touch"} => req'[q].key \in Exists'
      BY <1>11, <2>2, ReqTypes
    <2>4. QED
      BY <1>5, <2>1, <2>2, <2>3 DEF Touch, IInv, TypeOK
  <1>13. QED
    BY <1>6, <1>11, <1>12, Finish DEF Touch

LEMMA WriteKeeps ==
  ASSUME IInv, NEW p \in Proc, Write(p)
  PROVE  IInv'
  <1>1. PICK r \in Request : r = req[p] /\ Good(r)
    BY Facts
  <1>2. PICK k \in Exists : k = r.key
    BY <1>1 DEF Write, Good, WellFormed
  <1>3. PICK revived \in BOOLEAN : revived = (r.values.active = TRUE \/ r.values.expires # None)
    OBVIOUS
  <1>4. PICK row : row = Changed(keys[k], r.op, r.values)
    OBVIOUS
  <1>5. keys[k] \in Row /\ r.values \in Values
    BY DEF IInv, TypeOK, Exists, Request
  <1>6. /\ row \in Row /\ row.owner = keys[k].owner /\ row.prefix = keys[k].prefix
        /\ row.used = keys[k].used
    BY <1>4, <1>5 DEF Changed, Row, Values
  <1>7. ~revived => (row.active => keys[k].active) /\ row.expires = keys[k].expires
    BY <1>3, <1>4, <1>5 DEF Changed, Row, Values
  <1>8. /\ keys' \in [KeyId -> Row \cup {None}] /\ keys'[k] = row
        /\ \A x \in Exists \ {k} : keys'[x] = keys[x]
    BY <1>1, <1>2, <1>4, <1>6 DEF Write, IInv, TypeOK, Exists
  <1>9. KeysKept
    BY <1>6, <1>8, NoneAssumption DEF KeysKept, Exists
  <1>10. /\ \A x \in Exists \ {k} : InForce(x)' <=> InForce(x)
         /\ ~revived => (InForce(k)' => InForce(k))
    BY <1>7, <1>8 DEF InForce, Write
  <1>11. \A x : \A c : RowsAt(x, c)' = RowsAt(x, c)
    BY DEF RowsAt, Write
  <1>12. PICK r0 \in [Proc -> Request] : r0 = [req EXCEPT ![p] = Idle]
    BY IdleGood DEF IInv, TypeOK
  <1>13. req' = Unsettled(r0, k, revived)
    BY <1>1, <1>2, <1>3, <1>12 DEF Write
  <1>14. ASSUME NEW q \in Proc PROVE req'[q] \in Request /\ Good(req[q])'
    <2>1. PICK o \in Request : o = req[q] /\ Good(o)
      BY Facts
    <2>2. PICK s \in Request :
             /\ s = Unsettled(r0, k, revived)[q]
             /\ Differs(s, r0[q])
             /\ IF r0[q].op = "validate" /\ r0[q].pc # "answered" /\ k \in Its(r0[q].text)
                THEN s.owed = "open" /\ (s.dead => r0[q].dead /\ ~revived)
                ELSE s = r0[q]
      BY UnsettledIs
    <2>3. s = req'[q]
      BY <2>2, <1>13
    <2>4. Good(s)'
      <3>1. CASE q = p
        <4>1. r0[q] = Idle /\ Idle.op = "none"
          BY <1>12, <3>1 DEF IInv, TypeOK, Idle
        <4>2. s = Idle
          BY <2>2, <4>1
        <4>3. QED
          BY <4>2, IdleNext DEF Good, WellFormed, Stopped, OnCourse, Its, TextOf, InForce, Verdict, RowsAt, Exists
      <3>2. CASE q # p
        <4>1. r0[q] = o
          BY <1>12, <2>1, <3>2 DEF IInv, TypeOK
        <4>2. \A x \in Its(o.text) : x \in Exists
          BY DEF Its
        <4>3. Differs(o, o)
          BY DEF Differs, Request
        <4>4. CASE o.op = "validate" /\ o.pc # "answered" /\ k \in Its(o.text)
          <5>1. s.owed = "open" /\ (s.dead => o.dead /\ ~revived)
            BY <2>2, <4>1, <4>4
          <5>2. Differs(s, o)
            BY <2>2, <4>1
          <5>3. s.dead => \A x \in Its(o.text) : InForce(x)' => InForce(x)
            BY <5>1, <4>2, <1>10
          <5>4. QED
            BY <2>1, <1>9, <5>1, <5>2, <5>3, Carries
        <4>5. CASE ~(o.op = "validate" /\ o.pc # "answered" /\ k \in Its(o.text))
          <5>1. s = o
            BY <2>2, <4>1, <4>5
          <5>2. o.op = "validate" /\ o.pc # "answered" =>
                   \A x \in Its(o.text) : InForce(x)' <=> InForce(x)
            BY <4>2, <4>5, <1>10
          <5>3. o.pc = "identify" => o.op = "validate"
            BY <2>1 DEF Good, WellFormed
          <5>4. QED
            BY <2>1, <1>9, <1>11, <4>3, <5>1, <5>2, <5>3, Carries
        <4>6. QED
          BY <4>4, <4>5
      <3>3. QED
        BY <3>1, <3>2
    <2>5. QED
      BY <2>3, <2>4 DEF Good, WellFormed, Stopped, OnCourse, Its, TextOf, InForce, Verdict, RowsAt, Exists
  <1>15. TypeOK'
    <2>1. Exists \subseteq Exists'
      BY <1>9, ExistsKept
    <2>2. req' \in [Proc -> Request]
      BY <1>13, <1>14 DEF Unsettled
    <2>3. \A q \in Proc : req'[q].pc \in {"probe", "touch"} => req'[q].key \in Exists'
      BY <1>14, <2>2, ReqTypes
    <2>4. QED
      BY <1>8, <2>1, <2>2, <2>3 DEF Write, IInv, TypeOK
  <1>16. QED
    BY <1>9, <1>14, <1>15, Finish DEF Write

LEMMA GrantKeeps ==
  ASSUME IInv, Grant
  PROVE  IInv'
  <1>1. PICK k \in Exists, rs \in Resource \cup {Wild}, a \in Action \cup {Wild} :
          LET old == RowsAt(k, [resource |-> rs, action |-> a])
          IN /\ grants' = grants + 1 /\ grants < MaxGrants
             /\ \/ \E ok \in BOOLEAN : perms' = (perms \ old) \cup
                      {[key |-> k, resource |-> rs, action |-> a, allowed |-> ok]}
                \/ old # {} /\ perms' = perms \ old
             /\ req' = Unsettled(req, k, FALSE)
    BY DEF Grant
  <1>. DEFINE old == RowsAt(k, [resource |-> rs, action |-> a])
  <1>2. PICK new \in SUBSET Permission :
             /\ perms' = (perms \ old) \cup new
             /\ \A x \in new : x.key = k /\ x.resource = rs /\ x.action = a
             /\ \A x, y \in new : x = y
    <2>1. CASE \E ok \in BOOLEAN : perms' = (perms \ old) \cup
                  {[key |-> k, resource |-> rs, action |-> a, allowed |-> ok]}
      <3>1. PICK ok \in BOOLEAN : perms' = (perms \ old) \cup
                  {[key |-> k, resource |-> rs, action |-> a, allowed |-> ok]}
        BY <2>1
      <3>. DEFINE n == {[key |-> k, resource |-> rs, action |-> a, allowed |-> ok]}
      <3>2. /\ n \in SUBSET Permission
            /\ \A x \in n : x.key = k /\ x.resource = rs /\ x.action = a
            /\ \A x, y \in n : x = y
        BY DEF Permission, Exists
      <3>3. perms' = (perms \ old) \cup n
        BY <3>1
      <3>. HIDE DEF n, old
      <3>4. QED
        BY <3>2, <3>3
    <2>2. CASE perms' = perms \ old
      <3>1. {} \in SUBSET Permission /\ perms' = (perms \ old) \cup {}
        BY <2>2
      <3>. HIDE DEF old
      <3>2. QED
        BY <3>1
    <2>3. QED
      BY <1>1, <2>1, <2>2
  <1>3. \A x \in perms : x \notin old => ~(x.key = k /\ x.resource = rs /\ x.action = a)
    BY DEF RowsAt
  <1>4. perms' \subseteq Permission /\ OnePerCell(perms') /\ \A x \in perms' : x.key \in Exists
    <2>. HIDE DEF old
    <2>. QED
      BY <1>2, <1>3 DEF IInv, TypeOK, OnePerCell
  <1>5. \A x \in Exists \ {k} : \A c : RowsAt(x, c)' = RowsAt(x, c)
    <2>1. \A x \in Exists \ {k} : \A t : (t \in perms' /\ t.key = x) <=> (t \in perms /\ t.key = x)
      BY <1>2 DEF RowsAt
    <2>2. QED
      BY <2>1 DEF RowsAt
  <1>6. KeysKept /\ \A x \in Exists : InForce(x)' <=> InForce(x)
    BY DEF Grant, KeysKept, Exists, InForce
  <1>7. req \in [Proc -> Request]
    BY DEF IInv, TypeOK
  <1>8. ASSUME NEW q \in Proc PROVE req'[q] \in Request /\ Good(req[q])'
    <2>1. PICK o \in Request : o = req[q] /\ Good(o)
      BY Facts
    <2>2. PICK s \in Request :
             /\ s = Unsettled(req, k, FALSE)[q]
             /\ Differs(s, req[q])
             /\ IF req[q].op = "validate" /\ req[q].pc # "answered" /\ k \in Its(req[q].text)
                THEN s.owed = "open" /\ (s.dead => req[q].dead /\ ~FALSE)
                ELSE s = req[q]
      BY <1>7, UnsettledIs
    <2>3. s = req'[q]
      BY <2>2, <1>1
    <2>4. Good(s)'
      <3>1. \A x \in Its(o.text) : x \in Exists
        BY DEF Its
      <3>2. o.op = "validate" /\ o.pc # "answered" /\ s.owed # "open" => k \notin Its(o.text) /\ s = o
        BY <2>1, <2>2
      <3>3. s.owed # "open" => s.owed = o.owed
        BY <2>1, <2>2
      <3>4. s.dead => o.dead
        BY <2>1, <2>2
      <3>5. Differs(s, o)
        BY <2>1, <2>2
      <3>6. QED
        BY <1>5, <1>6, <2>1, <3>1, <3>2, <3>3, <3>4, <3>5, Carries
    <2>5. QED
      BY <2>3, <2>4 DEF Good, WellFormed, Stopped, OnCourse, Its, TextOf, InForce, Verdict, RowsAt, Exists
  <1>9. TypeOK'
    <2>1. req' \in [Proc -> Request]
      BY <1>1, <1>8 DEF Unsettled
    <2>2. \A q \in Proc : req'[q].pc \in {"probe", "touch"} => req'[q].key \in Exists'
      BY <1>8, <2>1, ReqTypes
    <2>3. grants' \in 0..MaxGrants
      BY <1>1, BoundAssumption DEF IInv, TypeOK
    <2>4. Exists' = Exists
      BY DEF Grant, Exists
    <2>5. QED
      BY <1>4, <2>1, <2>2, <2>3, <2>4 DEF Grant, IInv, TypeOK
  <1>10. QED
    BY <1>6, <1>8, <1>9, Finish DEF Grant

LEMMA TickKeeps ==
  ASSUME IInv, Tick
  PROVE  IInv'
  <1>1. now \in Nat /\ now' = now + 1 /\ now' \in Time
    BY BoundAssumption DEF Tick, IInv, TypeOK, Time
  <1>2. KeysKept
    BY DEF Tick, KeysKept, Exists
  <1>3. \A k \in Exists : InForce(k)' => InForce(k)
    <2>1. \A k \in Exists : keys[k].expires \in Time => keys[k].expires \in Nat
      BY BoundAssumption DEF Time
    <2>2. QED
      BY <1>1, <2>1 DEF Tick, InForce
  <1>4. ASSUME NEW q \in Proc PROVE req'[q] \in Request /\ Good(req[q])'
    <2>1. PICK o \in Request : o = req[q] /\ Good(o)
      BY Facts
    <2>. DEFINE s == [o EXCEPT !.owed = "open"]
    <2>2. s \in Request /\ s.owed = "open" /\ s.dead = o.dead
          /\ Differs(s, o)
      BY DEF Differs, Request
    <2>3. req'[q] = s
      BY <2>1 DEF Tick
    <2>4. \A k \in Its(o.text) : k \in Exists
      BY DEF Its
    <2>. HIDE DEF s
    <2>5. Good(s)'
      BY <1>2, <1>3, <2>1, <2>2, <2>4, Carries
    <2>6. QED
      BY <2>2, <2>3, <2>5 DEF Good, WellFormed, Stopped, OnCourse, Its, TextOf, InForce, Verdict, RowsAt, Exists
  <1>5. TypeOK'
    <2>1. req' \in [Proc -> Request]
      BY <1>4 DEF Tick
    <2>2. \A q \in Proc : req'[q].pc \in {"probe", "touch"} => req'[q].key \in Exists'
      BY <1>4, <2>1, ReqTypes
    <2>3. Exists' = Exists
      BY DEF Tick, Exists
    <2>4. QED
      BY <1>1, <2>1, <2>2, <2>3 DEF Tick, IInv, TypeOK
  <1>6. QED
    BY <1>2, <1>4, <1>5, Finish DEF Tick

LEMMA RecordKeeps ==
  ASSUME IInv, NEW p \in Proc, RecordUsage(p)
  PROVE  IInv'
  <1>1. PICK r \in Request : r = req[p] /\ Good(r)
    BY Facts
  <1>2. PICK s \in Spent, k \in Exists :
          usage' = Append(usage, [key |-> k, status |-> s.status, endpoint |-> s.endpoint,
                                  amount |-> s.amount, day |-> now])
    BY <1>1 DEF RecordUsage
  <1>4. PICK u \in Use : u = [key |-> k, status |-> s.status, endpoint |-> s.endpoint,
                              amount |-> s.amount, day |-> now]
    BY SpentAssumption DEF Use, Exists, Usage, IInv, TypeOK
  <1>5. u.key \in Exists /\ u.day \in Time
    BY <1>4 DEF Use
  <1>6. usage' = Append(usage, u) /\ usage' \in Seq(Use) /\ usage \in Seq(Use)
    BY <1>2, <1>4 DEF IInv
  <1>7. \A i \in DOMAIN usage' : (i \in DOMAIN usage /\ usage'[i] = usage[i]) \/ usage'[i] = u
    BY <1>6
  <1>8. keys' = keys /\ Exists' = Exists
    BY DEF RecordUsage, Exists
  <1>10. \A i \in DOMAIN usage' : usage'[i].key \in Exists' /\ usage'[i].day \in Time
    BY <1>5, <1>7, <1>8 DEF IInv, TypeOK
  <1>11. req' = [req EXCEPT ![p] = Idle] /\ req' \in [Proc -> Request]
    BY IdleGood DEF RecordUsage, End, IInv, TypeOK
  <1>12. KeysKept /\ (\A x \in Exists : InForce(x)' <=> InForce(x))
         /\ \A x \in Exists : \A c : RowsAt(x, c)' = RowsAt(x, c)
    BY DEF RecordUsage, KeysKept, Exists, InForce, RowsAt
  <1>13. ASSUME NEW q \in Proc PROVE Good(req[q])'
    <2>1. CASE q = p
      <3>1. req'[q] = Idle
        BY <1>11, <2>1 DEF IInv, TypeOK
      <3>2. QED
        BY <3>1, IdleNext DEF Good, WellFormed, Stopped, OnCourse, Its, TextOf, InForce, Verdict, RowsAt, Exists
    <2>2. CASE q # p
      <3>1. req'[q] = req[q]
        BY <1>11, <2>2 DEF IInv, TypeOK
      <3>2. QED
        BY <3>1, <1>12, Untouched
    <2>3. QED
      BY <2>1, <2>2
  <1>14. TypeOK'
    <2>1. \A q \in Proc : req'[q].pc \in {"probe", "touch"} => req'[q].key \in Exists'
      BY <1>11, <1>13, ReqTypes
    <2>2. QED
      BY <1>8, <1>10, <1>11, <2>1 DEF RecordUsage, IInv, TypeOK
  <1>15. QED
    BY <1>6, <1>13, <1>14 DEF IInv, RequestsGood

-----------------------------------------------------------------------------
LEMMA Inductive ==
  ASSUME IInv, [Next]_vars
  PROVE  IInv'
  <1>1. ASSUME NEW p \in Proc, Create(p) \/ AskManage(p) \/ AskValidate(p) PROVE IInv'
    BY <1>1, CreateKeeps, AskManageKeeps, AskValidateKeeps
  <1>2. ASSUME NEW p \in Proc, Load(p) \/ Write(p) PROVE IInv'
    BY <1>2, LoadKeeps, WriteKeeps
  <1>3. ASSUME NEW p \in Proc, Identify(p) \/ Probe(p) \/ Touch(p) PROVE IInv'
    BY <1>3, IdentifyKeeps, ProbeKeeps, TouchKeeps
  <1>4. ASSUME NEW p \in Proc, RecordUsage(p) PROVE IInv'
    BY <1>4, RecordKeeps
  <1>5. ASSUME NEW p \in Proc, Forget(p) PROVE IInv'
    BY <1>5, EndKeeps DEF Forget
  <1>6. CASE Grant \/ Tick
    BY <1>6, GrantKeeps, TickKeeps
  <1>7. CASE UNCHANGED vars
    <2>1. /\ keys' = keys /\ perms' = perms /\ usage' = usage /\ now' = now
          /\ req' = req /\ started' = started /\ grants' = grants
      BY <1>7 DEF vars
    <2>2. TypeOK'
      BY <2>1 DEF IInv, TypeOK, Exists
    <2>3. KeysKept /\ \A k \in Exists : (InForce(k)' <=> InForce(k)) /\ \A c : RowsAt(k, c)' = RowsAt(k, c)
      BY <2>1 DEF KeysKept, Exists, InForce, RowsAt
    <2>4. \A q \in Proc : Good(req[q])'
      BY <2>1, <2>3, Untouched
    <2>5. QED
      BY <2>1, <2>2, <2>3, <2>4, Finish
  <1>8. QED
    BY <1>1, <1>2, <1>3, <1>4, <1>5, <1>6, <1>7 DEF Next, Rest

LEMMA Invariance == Spec => []IInv
  BY InitIInv, Inductive, PTL DEF Spec

\* Every variable keeps its type, rows refer to keys there are, and there is one
\* permission row per key and cell, whatever the interleaving of requests.
THEOREM TypeCorrect == Spec => []TypeOK
  <1>1. IInv => TypeOK
    BY DEF IInv
  <1>2. QED
    BY <1>1, Invariance, PTL

\* validate_api_key accepts no key that was unusable when the validation began and that
\* nobody made usable since.
THEOREM Refused == Spec => []RevokedKeyIsRefused
  <1>1. IInv => RevokedKeyIsRefused
    BY DEF IInv, RequestsGood, Good, Stopped, RevokedKeyIsRefused
  <1>2. QED
    BY <1>1, Invariance, PTL

\* _check_permission, with awaits between its lookups, answers as the most specific row
\* when nothing changed meanwhile, for any enumerations of resources and actions.
THEOREM MostSpecific == Spec => []MostSpecificRowDecides
  <1>1. IInv => MostSpecificRowDecides
    BY DEF IInv, RequestsGood, Good, OnCourse, MostSpecificRowDecides
  <1>2. QED
    BY <1>1, Invariance, PTL

-----------------------------------------------------------------------------
(* The report on the use of a key.  A sum is the size of a set of pairs,   *)
(* so that the parts of a set add up to it is shown by a bijection.        *)

LEMMA Matches ==
  ASSUME NEW S, NEW T, NEW b \in Bijection(S, T)
  PROVE  /\ \A n \in S : b[n] \in T
         /\ \A m, n \in S : b[m] = b[n] => m = n
         /\ \A i \in T : \E n \in S : b[n] = i
  BY DEF Bijection, Injection, IsInjective, Surjection

\* The parts of a finite set, by the value of a function, add up to the set.
LEMMA AddedParts ==
  ASSUME NEW S, NEW D, IsFiniteSet(S), NEW g \in [S -> D]
  PROVE  Added([d \in D |-> Cardinality({i \in S : g[i] = d})]) = Cardinality(S)
  <1>. DEFINE Part(d) == {i \in S : g[i] = d}
              f == [d \in D |-> Cardinality(Part(d))]
              B == [d \in D |-> CHOOSE b : b \in Bijection(1..f[d], Part(d))]
              h == [e \in Pairs(f) |-> B[e[1]][e[2]]]
  <1>1. ASSUME NEW d \in D PROVE f[d] \in Nat /\ B[d] \in Bijection(1..f[d], Part(d))
    <2>1. IsFiniteSet(Part(d))
      BY FS_Subset
    <2>2. Cardinality(Part(d)) \in Nat /\ ExistsBijection(1..Cardinality(Part(d)), Part(d))
      BY <2>1, FS_CardinalityType
    <2>3. f[d] = Cardinality(Part(d))
      OBVIOUS
    <2>. HIDE DEF Part
    <2>4. \E b : b \in Bijection(1..f[d], Part(d))
      BY <2>2, <2>3 DEF ExistsBijection
    <2>5. QED
      BY <2>2, <2>3, <2>4
  <1>2. DOMAIN f = D
    OBVIOUS
  <1>. HIDE DEF f, B
  <1>3. \A e : e \in Pairs(f) <=> \E d \in D : e \in {d} \X (1..f[d])
    BY <1>2 DEF Pairs
  <1>4. \A d : \A e : e \in {d} \X (1..f[d]) <=> \E n \in 1..f[d] : e = <<d, n>>
    OBVIOUS
  <1>5. \A d \in D : \A n \in 1..f[d] : <<d, n>> \in Pairs(f) /\ h[<<d, n>>] = B[d][n]
    BY <1>3, <1>4
  <1>6. ASSUME NEW d \in D
        PROVE  /\ \A n \in 1..f[d] : B[d][n] \in S /\ g[B[d][n]] = d
               /\ \A m, n \in 1..f[d] : B[d][m] = B[d][n] => m = n
               /\ \A i \in Part(d) : \E n \in 1..f[d] : B[d][n] = i
    <2>1. B[d] \in Bijection(1..f[d], Part(d))
      BY <1>1
    <2>. DEFINE b == B[d]
                I == 1..f[d]
                P == Part(d)
    <2>2. b \in Bijection(I, P)
      BY <2>1
    <2>. HIDE DEF Part, b, I, P
    <2>3. /\ \A n \in I : b[n] \in P
          /\ \A m, n \in I : b[m] = b[n] => m = n
          /\ \A i \in P : \E n \in I : b[n] = i
      BY <2>2, Matches
    <2>4. /\ \A n \in 1..f[d] : B[d][n] \in Part(d)
          /\ \A m, n \in 1..f[d] : B[d][m] = B[d][n] => m = n
          /\ \A i \in Part(d) : \E n \in 1..f[d] : B[d][n] = i
      BY <2>3 DEF b, I, P
    <2>5. QED
      BY <2>4 DEF Part
  <1>7. h \in [Pairs(f) -> S]
    <2>1. \A e \in Pairs(f) : h[e] \in S
      BY <1>5, <1>6, <1>3, <1>4
    <2>2. QED
      BY <2>1
  <1>8. ASSUME NEW a \in Pairs(f), NEW b \in Pairs(f), h[a] = h[b] PROVE a = b
    <2>1. PICK c \in D : \E m \in 1..f[c] : a = <<c, m>>
      BY <1>3, <1>4
    <2>2. PICK m \in 1..f[c] : a = <<c, m>>
      BY <2>1
    <2>3. PICK d \in D : \E n \in 1..f[d] : b = <<d, n>>
      BY <1>3, <1>4
    <2>4. PICK n \in 1..f[d] : b = <<d, n>>
      BY <2>3
    <2>5. B[c][m] = B[d][n]
      BY <1>5, <1>8, <2>2, <2>4
    <2>6. c = d
      BY <1>6, <2>5
    <2>7. QED
      BY <1>6, <2>2, <2>4, <2>5, <2>6
  <1>9. ASSUME NEW i \in S PROVE \E a \in Pairs(f) : h[a] = i
    <2>1. g[i] \in D /\ i \in Part(g[i])
      OBVIOUS
    <2>2. PICK n \in 1..f[g[i]] : B[g[i]][n] = i
      BY <1>6, <2>1
    <2>3. QED
      BY <1>5, <2>1, <2>2
  <1>. HIDE DEF h
  <1>10. h \in Bijection(Pairs(f), S)
    BY <1>7, <1>8, <1>9, Fun_IsBij
  <1>11. ExistsBijection(S, Pairs(f))
    BY <1>10, Fun_ExistsBijSymmetric DEF ExistsBijection
  <1>12. Cardinality(Pairs(f)) = Cardinality(S)
    BY <1>11, FS_Bijection
  <1>13. QED
    BY <1>12 DEF Added, f

\* What is added up is a number of pairs.
LEMMA PairsFinite ==
  ASSUME NEW D, IsFiniteSet(D), NEW f \in [D -> Nat]
  PROVE  IsFiniteSet(Pairs(f)) /\ Added(f) \in Nat
  <1>. DEFINE g == [x \in D |-> {x} \X (1..f[x])]
              T == {g[x] : x \in D}
  <1>1. ASSUME NEW x \in D PROVE IsFiniteSet(g[x])
    <2>1. 1 \in Int /\ f[x] \in Int
      OBVIOUS
    <2>2. IsFiniteSet({x})
      BY FS_Singleton
    <2>3. IsFiniteSet(1..f[x])
      BY <2>1, FS_Interval
    <2>4. IsFiniteSet({x} \X (1..f[x]))
      BY <2>2, <2>3, FS_Product
    <2>5. QED
      BY <2>4
  <1>2. Pairs(f) = UNION T
    BY DEF Pairs
  <1>. HIDE DEF g
  <1>3. g \in [D -> T]
    BY DEF g
  <1>4. g \in Surjection(D, T)
    BY <1>3, Fun_IsSurj
  <1>5. IsFiniteSet(T)
    BY <1>4, FS_Surjection
  <1>6. IsFiniteSet(Pairs(f))
    BY <1>1, <1>2, <1>5, FS_UNION
  <1>7. QED
    BY <1>6, FS_CardinalityType DEF Added

\* The records that were read: finitely many, each amount a natural number or missing.
Readable(rows) == /\ DOMAIN rows \subseteq Nat /\ IsFiniteSet(DOMAIN rows)
                  /\ \A i \in DOMAIN rows : rows[i].amount # None => rows[i].amount \in Nat

LEMMA DaysAdd ==
  ASSUME NEW rows, Readable(rows), NEW T \in SUBSET DOMAIN rows
  PROVE  Added([d \in {rows[i].day : i \in DOMAIN rows} |-> Cardinality({i \in T : rows[i].day = d})])
             = Cardinality(T)
  <1>. DEFINE D == {rows[i].day : i \in DOMAIN rows}
              g == [i \in T |-> rows[i].day]
  <1>1. IsFiniteSet(T)
    BY FS_Subset DEF Readable
  <1>2. g \in [T -> D]
    OBVIOUS
  <1>3. \A d : {i \in T : rows[i].day = d} = {i \in T : g[i] = d}
    OBVIOUS
  <1>. HIDE DEF D, g
  <1>4. Added([d \in D |-> Cardinality({i \in T : g[i] = d})]) = Cardinality(T)
    BY <1>1, <1>2, AddedParts
  <1>5. Added([d \in D |-> Cardinality({i \in T : rows[i].day = d})]) = Cardinality(T)
    BY <1>3, <1>4
  <1>6. QED
    BY <1>5 DEF D

\* The amounts recorded on each day, added up, are the total amount.
LEMMA AmountsAdd ==
  ASSUME NEW rows, Readable(rows)
  PROVE  Added([d \in {rows[i].day : i \in DOMAIN rows} |->
                   Total([i \in {j \in DOMAIN rows : rows[j].day = d} |-> rows[i]])]) = Total(rows)
  <1>. DEFINE D == {rows[i].day : i \in DOMAIN rows}
              A == {i \in DOMAIN rows : rows[i].amount # None}
              a == [i \in A |-> rows[i].amount]
              That(d) == {j \in DOMAIN rows : rows[j].day = d}
              Paid(d) == {i \in That(d) : rows[i].amount # None}
              b(d) == [i \in Paid(d) |-> rows[i].amount]
              P == Pairs(a)
              g == [q \in P |-> rows[q[1]].day]
  <1>1. IsFiniteSet(P)
    <2>1. IsFiniteSet(A) /\ a \in [A -> Nat]
      BY FS_Subset DEF Readable
    <2>. HIDE DEF A, a
    <2>2. QED
      BY <2>1, PairsFinite
  <1>2. Total(rows) = Cardinality(P)
    BY DEF Total, Added
  <1>3. \A q : q \in P <=> \E i \in A : q \in {i} \X (1..rows[i].amount)
    BY DEF Pairs
  <1>4. g \in [P -> D]
    BY <1>3
  <1>5. ASSUME NEW d PROVE Total([i \in That(d) |-> rows[i]]) = Cardinality({q \in P : g[q] = d})
    <2>1. Total([i \in That(d) |-> rows[i]]) = Added(b(d))
      <3>1. {j \in DOMAIN [i \in That(d) |-> rows[i]] : [i \in That(d) |-> rows[i]][j].amount # None} = Paid(d)
        OBVIOUS
      <3>2. QED
        BY <3>1 DEF Total
    <2>2. \A q : q \in Pairs(b(d)) <=> \E i \in Paid(d) : q \in {i} \X (1..rows[i].amount)
      BY DEF Pairs
    <2>3. Pairs(b(d)) = {q \in P : g[q] = d}
      <3>1. \A i \in Paid(d) : i \in A /\ rows[i].day = d
        OBVIOUS
      <3>2. \A i \in A : rows[i].day = d => i \in Paid(d)
        OBVIOUS
      <3>3. \A q \in P : g[q] = rows[q[1]].day
        OBVIOUS
      <3>. HIDE DEF A, Paid, P, g, b
      <3>4. QED
        BY <1>3, <2>2, <3>1, <3>2, <3>3
    <2>4. QED
      BY <2>1, <2>3 DEF Added
  <1>. HIDE DEF D, g, P
  <1>6. Added([d \in D |-> Cardinality({q \in P : g[q] = d})]) = Cardinality(P)
    BY <1>1, <1>4, AddedParts
  <1>7. Added([d \in D |-> Total([i \in That(d) |-> rows[i]])]) = Cardinality(P)
    BY <1>5, <1>6
  <1>8. QED
    BY <1>2, <1>7 DEF D

LEMMA Without ==
  ASSUME NEW S, IsFiniteSet(S), NEW T \in SUBSET S
  PROVE  Cardinality(S \ T) = Cardinality(S) - Cardinality(T)
  <1>1. S \cap T = T
    OBVIOUS
  <1>2. Cardinality(S \ T) = Cardinality(S) - Cardinality(S \cap T)
    BY FS_Difference
  <1>3. QED
    BY <1>1, <1>2

\* Every error is counted under its status, and none of them is a success.
LEMMA ErrorsAreFailures ==
  ASSUME NEW rows, Readable(rows)
  PROVE  Added(ErrorBreakdown(rows)) <= BasicMetrics(rows).failed
  <1>. DEFINE D == {rows[i].status : i \in DOMAIN rows} \ (0..399)
              T == {i \in DOMAIN rows : rows[i].status \in D}
              G == {i \in DOMAIN rows : rows[i].status \in 200..299}
              g == [i \in T |-> rows[i].status]
  <1>1. T \subseteq DOMAIN rows \ G
    OBVIOUS
  <1>2. IsFiniteSet(DOMAIN rows) /\ IsFiniteSet(DOMAIN rows \ G) /\ IsFiniteSet(T) /\ IsFiniteSet(G)
    BY FS_Subset DEF Readable
  <1>3. Cardinality(T) <= Cardinality(DOMAIN rows \ G)
    BY <1>1, <1>2, FS_Subset
  <1>4. Cardinality(DOMAIN rows \ G) = Cardinality(DOMAIN rows) - Cardinality(G)
    BY <1>2, Without
  <1>5. g \in [T -> D]
    OBVIOUS
  <1>6. \A s \in D : {i \in DOMAIN rows : rows[i].status = s} = {i \in T : g[i] = s}
    <2>1. \A i \in T : i \in DOMAIN rows /\ g[i] = rows[i].status
      OBVIOUS
    <2>2. \A i \in DOMAIN rows : rows[i].status \in D => i \in T
      OBVIOUS
    <2>. HIDE DEF D, T, g
    <2>3. QED
      BY <2>1, <2>2
  <1>7. ErrorBreakdown(rows) = [s \in D |-> Cardinality({i \in T : g[i] = s})]
    BY <1>6 DEF ErrorBreakdown
  <1>8. BasicMetrics(rows).failed = Cardinality(DOMAIN rows) - Cardinality(G)
    BY DEF BasicMetrics
  <1>. HIDE DEF D, T, g
  <1>9. Added(ErrorBreakdown(rows)) = Cardinality(T)
    BY <1>2, <1>5, <1>7, AddedParts
  <1>10. QED
    BY <1>3, <1>4, <1>8, <1>9

Calls(rows, e)     == {i \in DOMAIN rows : rows[i].endpoint = e}
Endpoints(rows)    == {rows[i].endpoint : i \in DOMAIN rows}
Before(rows, e, f) ==
    \/ Cardinality(Calls(rows, e)) > Cardinality(Calls(rows, f))
    \/ /\ Cardinality(Calls(rows, e)) = Cardinality(Calls(rows, f))
       /\ \E i \in Calls(rows, e) : \A j \in Calls(rows, f) : i < j
Ahead(rows, e)     == {f \in Endpoints(rows) : Before(rows, f, e)}
Listed(rows, n)    == {e \in Endpoints(rows) : Cardinality(Ahead(rows, e)) < n}

LEMMA TopIs ==
  ASSUME NEW rows, NEW n
  PROVE  EndpointUsage(rows, n) = [e \in Listed(rows, n) |-> Cardinality(Calls(rows, e))]
  BY DEF EndpointUsage, Listed, Ahead, Before, Endpoints, Calls

LEMMA EndpointsFinite ==
  ASSUME NEW rows, Readable(rows) PROVE IsFiniteSet(Endpoints(rows))
  <1>. DEFINE g == [i \in DOMAIN rows |-> rows[i].endpoint]
  <1>1. g \in Surjection(DOMAIN rows, Endpoints(rows))
    BY DEF Surjection, Endpoints
  <1>. HIDE DEF g
  <1>2. QED
    BY <1>1, FS_Surjection DEF Readable

\* The end points listed have no more calls than there are, and all when all are listed.
LEMMA TopAdds ==
  ASSUME NEW rows, Readable(rows), NEW n \in Nat
  PROVE  /\ Added(EndpointUsage(rows, n)) <= Cardinality(DOMAIN rows)
         /\ Cardinality(Endpoints(rows)) <= n =>
                Added(EndpointUsage(rows, n)) = Cardinality(DOMAIN rows)
  <1>. DEFINE D == Listed(rows, n)
              T == {i \in DOMAIN rows : rows[i].endpoint \in D}
              g == [i \in T |-> rows[i].endpoint]
  <1>1. IsFiniteSet(DOMAIN rows) /\ IsFiniteSet(T) /\ Cardinality(T) <= Cardinality(DOMAIN rows)
    BY FS_Subset DEF Readable
  <1>2. g \in [T -> D]
    OBVIOUS
  <1>3. \A e \in D : Calls(rows, e) = {i \in T : g[i] = e}
    BY DEF Calls
  <1>4. EndpointUsage(rows, n) = [e \in D |-> Cardinality({i \in T : g[i] = e})]
    BY <1>3, TopIs
  <1>5. ASSUME Cardinality(Endpoints(rows)) <= n PROVE T = DOMAIN rows
    <2>1. SUFFICES ASSUME NEW i \in DOMAIN rows PROVE rows[i].endpoint \in D
      OBVIOUS
    <2>. DEFINE e == rows[i].endpoint
    <2>2. e \in Endpoints(rows) /\ e \notin Ahead(rows, e)
      <3>1. Cardinality(Calls(rows, e)) \in Nat
        BY FS_Subset, FS_CardinalityType DEF Readable, Calls
      <3>3. ~ \E k \in Calls(rows, e) : \A j \in Calls(rows, e) : k < j
        BY DEF Calls, Readable
      <3>4. QED
        BY <3>1, <3>3 DEF Ahead, Before, Endpoints
    <2>3. Ahead(rows, e) \subseteq Endpoints(rows) \ {e}
      BY <2>2 DEF Ahead
    <2>4. Cardinality(Ahead(rows, e)) < n
      BY <1>5, <2>2, <2>3, EndpointsFinite, FS_Subset, FS_RemoveElement, FS_CardinalityType
    <2>5. QED
      BY <2>2, <2>4 DEF Listed
  <1>. HIDE DEF D, T, g
  <1>6. Added(EndpointUsage(rows, n)) = Cardinality(T)
    BY <1>1, <1>2, <1>4, AddedParts
  <1>7. QED
    BY <1>1, <1>5, <1>6

\* An end point that is left out has no more calls than one that is listed.
LEMMA TopIsTop ==
  ASSUME NEW rows, Readable(rows), NEW n \in Nat, NEW e \in Endpoints(rows) \ Listed(rows, n),
         NEW f \in Listed(rows, n)
  PROVE  Cardinality(Calls(rows, e)) <= Cardinality(Calls(rows, f))
  <1>1. \A x : Cardinality(Calls(rows, x)) \in Nat
    BY FS_Subset, FS_CardinalityType DEF Readable, Calls
  <1>2. SUFFICES ASSUME Cardinality(Calls(rows, e)) > Cardinality(Calls(rows, f)) PROVE FALSE
    BY <1>1
  <1>3. Ahead(rows, e) \subseteq Ahead(rows, f)
    BY <1>1, <1>2 DEF Ahead, Before
  <1>4. IsFiniteSet(Ahead(rows, f))
    BY EndpointsFinite, FS_Subset DEF Ahead
  <1>5. Cardinality(Ahead(rows, e)) <= Cardinality(Ahead(rows, f))
    BY <1>3, <1>4, FS_Subset
  <1>6. Cardinality(Ahead(rows, e)) \in Nat /\ Cardinality(Ahead(rows, f)) \in Nat
    BY <1>3, <1>4, FS_Subset, FS_CardinalityType
  <1>7. QED
    BY <1>5, <1>6 DEF Listed

\* The figures of the report agree, whatever records were read and in whatever order.
LEMMA ReportAgrees ==
  ASSUME NEW rows, Readable(rows), NEW n \in Nat PROVE Agree(rows, n)
  <1>. DEFINE S == DOMAIN rows
              D == {rows[i].day : i \in S}
              G == {i \in S : rows[i].status \in 200..299}
              On(d, T) == {i \in T : rows[i].day = d}
              daily == DailyUsage(rows)
              basic == BasicMetrics(rows)
              top == EndpointUsage(rows, n)
  <1>1. /\ basic.requests = Cardinality(S) /\ basic.succeeded = Cardinality(G)
        /\ basic.failed = Cardinality(S \ G) /\ basic.amount = Total(rows)
    <2>1. IsFiniteSet(S) /\ G \in SUBSET S
      BY DEF Readable
    <2>2. Cardinality(S \ G) = Cardinality(S) - Cardinality(G)
      BY <2>1, Without
    <2>3. QED
      BY <2>2 DEF BasicMetrics
  <1>2. DOMAIN daily = D
    BY DEF DailyUsage
  <1>3. ASSUME NEW d \in D
        PROVE  /\ daily[d].requests = Cardinality(On(d, S)) /\ daily[d].succeeded = Cardinality(On(d, G))
               /\ daily[d].failed = Cardinality(On(d, S \ G)) /\ daily[d].amount = Total([i \in On(d, S) |-> rows[i]])
    <2>1. {i \in On(d, S) : Succeeded(rows[i])} = On(d, G)
      BY DEF Succeeded
    <2>2. On(d, S) \ On(d, G) = On(d, S \ G)
      OBVIOUS
    <2>3. daily[d] = [requests |-> Cardinality(On(d, S)), succeeded |-> Cardinality(On(d, G)),
                      failed |-> Cardinality(On(d, S) \ On(d, G)),
                      amount |-> Total([i \in On(d, S) |-> rows[i]])]
      BY <2>1 DEF DailyUsage
    <2>. HIDE DEF S, G, On, daily
    <2>4. QED
      BY <2>2, <2>3
  <1>4. /\ Added([d \in D |-> Cardinality(On(d, S))]) = Cardinality(S)
        /\ Added([d \in D |-> Cardinality(On(d, G))]) = Cardinality(G)
        /\ Added([d \in D |-> Cardinality(On(d, S \ G))]) = Cardinality(S \ G)
    BY DaysAdd
  <1>5. Added([d \in D |-> Total([i \in On(d, S) |-> rows[i]])]) = Total(rows)
    BY AmountsAdd
  <1>6. /\ Added([d \in D |-> daily[d].requests]) = basic.requests
        /\ Added([d \in D |-> daily[d].succeeded]) = basic.succeeded
        /\ Added([d \in D |-> daily[d].failed]) = basic.failed
        /\ Added([d \in D |-> daily[d].amount]) = basic.amount
    <2>. HIDE DEF S, D, G, On, daily, basic
    <2>1. /\ [d \in D |-> daily[d].requests] = [d \in D |-> Cardinality(On(d, S))]
          /\ [d \in D |-> daily[d].succeeded] = [d \in D |-> Cardinality(On(d, G))]
          /\ [d \in D |-> daily[d].failed] = [d \in D |-> Cardinality(On(d, S \ G))]
          /\ [d \in D |-> daily[d].amount] = [d \in D |-> Total([i \in On(d, S) |-> rows[i]])]
      BY <1>3
    <2>2. QED
      BY <1>1, <1>4, <1>5, <2>1
  <1>7. Added(ErrorBreakdown(rows)) <= basic.failed
    BY ErrorsAreFailures
  <1>8. /\ Added(top) <= basic.requests
        /\ Cardinality({rows[i].endpoint : i \in S}) <= n => Added(top) = basic.requests
    BY <1>1, TopAdds DEF Endpoints
  <1>9. ASSUME NEW i \in S, rows[i].endpoint \notin DOMAIN top, NEW e \in DOMAIN top
        PROVE  Cardinality({j \in S : rows[j].endpoint = rows[i].endpoint}) <= top[e]
    <2>1. DOMAIN top = Listed(rows, n) /\ top[e] = Cardinality(Calls(rows, e))
      BY <1>9, TopIs
    <2>2. rows[i].endpoint \in Endpoints(rows) \ Listed(rows, n)
      BY <1>9, <2>1 DEF Endpoints
    <2>3. Cardinality(Calls(rows, rows[i].endpoint)) <= Cardinality(Calls(rows, e))
      BY <1>9, <2>1, <2>2, TopIsTop
    <2>4. QED
      BY <2>1, <2>3 DEF Calls
  <1>10. QED
    BY <1>2, <1>6, <1>7, <1>8, <1>9 DEF Agree

\* get_usage_analytics: for every number of records, days, end points and limits, the days
\* of the report add up to its totals, no error is a success, and the end points it lists
\* are the most used.
THEOREM ReportsAgree == Spec => []AnalyticsAgree
  <1>1. IInv => AnalyticsAgree
    <2>1. SUFFICES ASSUME IInv, NEW k \in Exists, NEW s \in Page(k)
                   PROVE  Agree([i \in s |-> usage[i]], TopEndpoints)
      BY DEF AnalyticsAgree
    <2>2. DOMAIN usage = 1..Len(usage) /\ Len(usage) \in Nat /\ \A i \in DOMAIN usage : usage[i] \in Use
      BY <2>1 DEF IInv
    <2>3. s \subseteq 1..Len(usage)
      BY <2>2 DEF Page
    <2>4. IsFiniteSet(s)
      <3>1. 1 \in Int /\ Len(usage) \in Int
        BY <2>2
      <3>2. IsFiniteSet(1..Len(usage))
        BY <3>1, FS_Interval
      <3>3. QED
        BY <2>3, <3>2, FS_Subset
    <2>5. \A i \in s : usage[i].amount # None => usage[i].amount \in Nat
      BY <2>2, <2>3, AmountAssumption DEF Use
    <2>6. Readable([i \in s |-> usage[i]])
      BY <2>3, <2>4, <2>5 DEF Readable
    <2>7. TopEndpoints \in Nat
      BY BoundAssumption
    <2>8. QED
      BY <2>6, <2>7, ReportAgrees
  <1>2. QED
    BY <1>1, Invariance, PTL
=============================================================================
