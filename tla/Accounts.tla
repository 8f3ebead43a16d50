------------------------------ MODULE Accounts ------------------------------
(***************************************************************************)
(* User accounts: the user table (models/user.py), UserService             *)
(* (services/user.py) behind the routes of api/v1/users.py, and the two    *)
(* ways to sign in, by password (api/v1/auth.py, session/dependencies.py)  *)
(* and through Google (oauth/services.py).  Every await on the database is *)
(* a step, so that requests check, look up and write with other requests   *)
(* in between.                                                             *)
(***************************************************************************)
EXTENDS Naturals, FiniteSets

CONSTANTS
    Uid, Username, Email,  \* ids of rows, user names and addresses
    Google, EmailAt,       \* Google identities and the address Google gives for each
    Tier, TierId,          \* the tiers there are, and the ids a request may name
    Resident,              \* rows of accounts made earlier: the first superuser's, others
    SignUp, Update,        \* what a sign-up, or a profile update, may ask for
    Proc,                  \* requests that may be in flight at once
    None,                  \* no value, no row, or a field an update leaves out
    MaxRequests            \* bound: requests in a behaviour

ASSUME NoneAssumption   == None \notin Uid \cup Username \cup Email \cup Google \cup TierId
ASSUME GoogleAssumption == EmailAt \in [Google -> Email]
ASSUME TierAssumption   == Tier \subseteq TierId
ASSUME BoundAssumption  == MaxRequests \in Nat

\* username: None once it is a pseudonym no request can bear; password: whether its
\* owner knows one.
Row == [username : Username \cup {None}, email : Email, google : Google \cup {None},
        tier : Tier \cup {None}, admin : BOOLEAN, deleted : BOOLEAN, password : BOOLEAN]

ASSUME RowAssumption == None \notin Row

\* unlink: the Google identity is given as an explicit null.
Values == [username : Username \cup {None}, email : Email \cup {None}, google : Google \cup {None},
           unlink : BOOLEAN]

ASSUME SignUpAssumption == SignUp \subseteq {v \in Values : v.username # None /\ v.email # None}
ASSUME UpdateAssumption == Update \subseteq Values

\* Their rows agree with the unique indexes.
ASSUME ResidentAssumption ==
    /\ DOMAIN Resident \subseteq Uid
    /\ \A u \in DOMAIN Resident : Resident[u] \in Row
    /\ \A u, w \in DOMAIN Resident : u # w =>
          /\ Resident[u].username # None => Resident[u].username # Resident[w].username
          /\ Resident[u].email # Resident[w].email
          /\ Resident[u].google # None => Resident[u].google # Resident[w].google

VARIABLES
    users,     \* users[u]: the row with id u, or None
    session,   \* accounts that have a live session
    req,       \* req[p]: the request in slot p
    started    \* requests so far

vars == <<users, session, req, started>>

-----------------------------------------------------------------------------
\* "view" stands for the two routes that show an account's tier or rate limits.
Op == {"create", "update", "deactivate", "erase", "tier", "view", "login", "google"}

\* actor, as, admin: who makes the request, as read when it was authenticated; name:
\* the user name it is about; uid: the row it found; todo: checks still to be made.
\* moved: history, somebody gave up the name since it began.
Request == [op : Op \cup {"none"},
            pc : {"idle", "check", "lookup", "load", "tier", "write", "show",
                  "address", "link", "candidate", "session"},
            actor : Uid \cup {None}, as : Username \cup {None}, admin : BOOLEAN,
            name : Username \cup {None}, uid : Uid \cup {None}, values : Values,
            tier : TierId \cup {None}, todo : SUBSET {"email", "name"},
            moved : BOOLEAN]

Nothing == [username |-> None, email |-> None, google |-> None, unlink |-> FALSE]

Idle == [op |-> "none", pc |-> "idle", actor |-> None, as |-> None, admin |-> FALSE,
         name |-> None, uid |-> None, values |-> Nothing, tier |-> None, todo |-> {},
         moved |-> FALSE]

-----------------------------------------------------------------------------
(* The table.                                                              *)

\* All rows; the rows get_paginated lists, and every query with is_deleted=False sees.
Exists == {u \in Uid : users[u] # None}
Live   == {u \in Exists : ~users[u].deleted}

\* crud_users.exists: deleted rows hold their name and address too.
NameTaken(n)  == \E u \in Exists : users[u].username = n
EmailTaken(e) == \E u \in Exists : users[u].email = e

\* get_by_username, and get_active_and_inactive_by_username; get_by_email.
FoundLive(n)    == {u \in Live : users[u].username = n}
FoundAny(n)     == {u \in Exists : users[u].username = n}
FoundByEmail(e) == {u \in Live : users[u].email = e}

\* Mutant: no unique indexes.
ConflictNever(v, u) == FALSE

\* The unique indexes of the table: v cannot be stored in row u.
Conflict(v, u) == \E w \in Exists \ {u} :
    \/ v.username # None /\ users[w].username = v.username
    \/ v.email # None /\ users[w].email = v.email
    \/ v.google # None /\ users[w].google = v.google

\* Mutant: anybody may write any profile.
MayUpdateAnyone(r) == TRUE

\* check_update_permission: a superuser, or the user the path names.
MayUpdate(r) == r.admin \/ r.as = r.name

\* A fresh row; the ones OAuth and sign-up create differ in the password only.
NewRow(v, known) == [username |-> v.username, email |-> v.email, google |-> v.google,
                     tier |-> None, admin |-> FALSE, deleted |-> FALSE, password |-> known]

\* Mutant: an update also writes the fields it was not given.
ChangedAll(row, v) == [row EXCEPT !.username = v.username, !.email = v.email, !.google = v.google]

\* model_dump(exclude_unset=True): only the fields an update gives are written.  (The
\* other columns refuse an explicit null, which changes nothing.)
Changed(row, v) ==
    [row EXCEPT !.username = IF v.username = None THEN @ ELSE v.username,
                !.email    = IF v.email = None THEN @ ELSE v.email,
                !.google   = IF v.unlink THEN None ELSE IF v.google = None THEN @ ELSE v.google]

\* UserAnonymize, and the soft delete in the same transaction; the address stays.
Anonymous(row) == [row EXCEPT !.username = None, !.google = None, !.tier = None,
                              !.admin = FALSE, !.deleted = TRUE, !.password = FALSE]

-----------------------------------------------------------------------------
(* Requests.                                                               *)

Init ==
    /\ users = [u \in Uid |-> IF u \in DOMAIN Resident THEN Resident[u] ELSE None]
    /\ session = DOMAIN Resident
    /\ req = [p \in Proc |-> Idle]
    /\ started = 0

Stay == UNCHANGED <<users, session>>

\* Request r arrives in slot p.
Begin(p, r) ==
    /\ req[p] = Idle
    /\ started < MaxRequests
    /\ started' = started + 1
    /\ req' = [req EXCEPT ![p] = r]
    /\ Stay

Goto(p, r)  == req' = [req EXCEPT ![p] = r]
Advance(p, r) == Goto(p, r) /\ Stay /\ UNCHANGED started
\* The answer, whatever its code.
Answer(p)   == Advance(p, Idle)

\* The route's user (get_current_user): a session whose account is live, as it is now.
\* Everybody else gets 401 at once.
By(op, a) == [Idle EXCEPT !.op = op, !.pc = "lookup", !.actor = a,
                          !.as = users[a].username, !.admin = users[a].admin]
Authentic  == session \cap Live
\* get_current_superuser: everybody else gets 403 at once.
Superusers == {a \in Authentic : users[a].admin}

\* Bound: there is a free row for each request in flight that may insert one.
Room == Cardinality({p \in Proc : req[p].op \in {"create", "google"}})
            < Cardinality(Uid \ Exists)

\* create_user.
AskCreate(p) == \E v \in SignUp :
    /\ Room
    /\ Begin(p, [Idle EXCEPT !.op = "create", !.pc = "check", !.values = v,
                              !.todo = {"email", "name"}])

\* update_user_profile: the permission is checked before the name is looked up.
AskUpdate(p) == \E a \in Authentic, n \in Username, v \in Update :
    LET r == [By("update", a) EXCEPT !.name = n, !.values = v]
    IN  MayUpdate(r) /\ Begin(p, r)

\* delete_user_account: the name is looked up before the permission is checked.
AskDeactivate(p) == \E a \in Authentic, n \in Username :
    Begin(p, [By("deactivate", a) EXCEPT !.name = n])

\* gdpr_delete_user.
AskErase(p) == \E a \in Superusers, n \in Username :
    Begin(p, [By("erase", a) EXCEPT !.name = n])

\* update_user_tier.
AskTier(p) == \E a \in Superusers, n \in Username, t \in TierId :
    Begin(p, [By("tier", a) EXCEPT !.name = n, !.tier = t])

\* get_user_rate_limits and get_user_tier.
AskView(p) == \E a \in Authentic, n \in Username :
    LET r == [By("view", a) EXCEPT !.name = n]
    IN  MayUpdate(r) /\ Begin(p, r)

\* login: authenticate_user, by name or address, finds live rows only.
AskLogin(p) ==
    \E u \in (UNION {FoundLive(n) : n \in Username}) \cup (UNION {FoundByEmail(e) : e \in Email}) :
        /\ users[u].password
        /\ Begin(p, [Idle EXCEPT !.op = "login", !.pc = "session", !.uid = u])

\* get_or_create_user, its first query.  It, and the queries that follow, give the row they
\* want as filter_by= or object_id=, which name no column: what the library makes of them
\* is open.  A query refuses, finds nothing, or finds any row, the one that was meant or not.
AskGoogle(p) == \E g \in Google :
    LET r == [Idle EXCEPT !.op = "google", !.values.google = g]
    IN  \/ \E u \in Exists : Begin(p, [r EXCEPT !.pc = "session", !.uid = u])
        \/ Room /\ Begin(p, [r EXCEPT !.pc = "address", !.values.email = EmailAt[g]])

-----------------------------------------------------------------------------
(* The steps of a request.                                                 *)

\* The two existence checks, of sign-up and of an update that changes the field: the
\* address first.
NextCheck(r, done) == [r EXCEPT !.todo = @ \ {done},
                                !.pc = IF r.todo = {done} THEN "write" ELSE "check"]

CheckEmail(p) ==
    /\ req[p].pc = "check" /\ "email" \in req[p].todo
    /\ IF EmailTaken(req[p].values.email) THEN Answer(p)
       ELSE Advance(p, NextCheck(req[p], "email"))

CheckName(p) ==
    /\ req[p].pc = "check" /\ req[p].todo = {"name"}
    /\ IF NameTaken(req[p].values.username) THEN Answer(p)
       ELSE Advance(p, NextCheck(req[p], "name"))

\* create: insert the row, or fail on a unique index.
InsertUser(p) ==
    /\ req[p].pc = "write" /\ req[p].op = "create"
    /\ \E u \in Uid \ Exists :
           IF Conflict(req[p].values, u) THEN Answer(p)
           ELSE /\ users' = [users EXCEPT ![u] = NewRow(req[p].values, TRUE)]
                /\ Goto(p, Idle)
                /\ UNCHANGED <<session, started>>

\* get_by_username in a route: the row of that name.
Lookup(p) ==
    /\ req[p].pc = "lookup" /\ req[p].op \in {"update", "tier", "view"}
    /\ \/ FoundLive(req[p].name) = {} /\ Answer(p)
       \/ \E u \in FoundLive(req[p].name) :
              Advance(p, [req[p] EXCEPT !.uid = u, !.pc = "load"])

LookupDeactivate(p) ==
    /\ req[p].pc = "lookup" /\ req[p].op = "deactivate"
    /\ \/ (FoundLive(req[p].name) = {} \/ ~MayUpdate(req[p])) /\ Answer(p)
       \/ /\ MayUpdate(req[p])
          /\ \E u \in FoundLive(req[p].name) :
                 Advance(p, [req[p] EXCEPT !.uid = u, !.pc = "write"])

LookupErase(p) ==
    /\ req[p].pc = "lookup" /\ req[p].op = "erase"
    /\ \/ FoundAny(req[p].name) = {} /\ Answer(p)
       \/ \E u \in FoundAny(req[p].name) :
              Advance(p, [req[p] EXCEPT !.uid = u, !.pc = "write"])

\* update, its first half: load the row again, see which checks the change calls for.
LoadUpdate(p) ==
    /\ req[p].pc = "load" /\ req[p].op = "update"
    /\ LET r    == req[p]
           todo == {f \in {"email", "name"} :
                      IF f = "email" THEN r.values.email \notin {None, users[r.uid].email}
                      ELSE r.values.username \notin {None, users[r.uid].username}}
       IN  IF r.uid \notin Live THEN Answer(p)
           ELSE Advance(p, [r EXCEPT !.todo = todo, !.pc = IF todo = {} THEN "write" ELSE "check"])

\* What a change of row u means for the other requests in flight.
Notice(u, row, p) ==
    req' = [q \in Proc |-> IF q = p THEN Idle ELSE
              [req[q] EXCEPT !.moved = @ \/ (/\ users[u].username # None
                                             /\ req[q].name = users[u].username
                                             /\ row.username # users[u].username)]]

\* update, its second half: write the row, deleted by now or not.
WriteUpdate(p) ==
    /\ req[p].pc = "write" /\ req[p].op = "update"
    /\ LET u   == req[p].uid
           row == Changed(users[u], req[p].values)
       IN  IF Conflict(req[p].values, u) THEN Answer(p)
           ELSE /\ users' = [users EXCEPT ![u] = row]
                /\ Notice(u, row, p)
                /\ UNCHANGED <<session, started>>

\* delete: the soft delete.
Deactivate(p) ==
    /\ req[p].pc = "write" /\ req[p].op = "deactivate"
    /\ users' = [users EXCEPT ![req[p].uid].deleted = TRUE]
    /\ Goto(p, Idle)
    /\ UNCHANGED <<session, started>>

\* anonymize_user: one transaction.
Erase(p) ==
    /\ req[p].pc = "write" /\ req[p].op = "erase"
    /\ LET u == req[p].uid IN
           /\ users' = [users EXCEPT ![u] = Anonymous(@)]
           /\ Notice(u, Anonymous(users[u]), p)
    /\ UNCHANGED <<session, started>>

\* update_tier: load the row, see that the tier exists, write it.
LoadTier(p) ==
    /\ req[p].pc = "load" /\ req[p].op = "tier"
    /\ IF req[p].uid \notin Live THEN Answer(p)
       ELSE Advance(p, [req[p] EXCEPT !.pc = "tier"])

CheckTier(p) ==
    /\ req[p].pc = "tier"
    /\ IF req[p].tier \notin Tier THEN Answer(p)
       ELSE Advance(p, [req[p] EXCEPT !.pc = "write"])

WriteTier(p) ==
    /\ req[p].pc = "write" /\ req[p].op = "tier"
    /\ users' = [users EXCEPT ![req[p].uid].tier = req[p].tier]
    /\ Goto(p, Idle)
    /\ UNCHANGED <<session, started>>

\* get_rate_limits, get_user_with_tier: load the row, then join it with its tier.
LoadView(p) ==
    /\ req[p].pc = "load" /\ req[p].op = "view"
    /\ IF req[p].uid \notin Live \/ users[req[p].uid].tier = None THEN Answer(p)
       ELSE Advance(p, [req[p] EXCEPT !.pc = "show"])

Show(p) == req[p].pc = "show" /\ Answer(p)

\* get_or_create_user, its second query: by address, as written.
FindAddress(p) ==
    /\ req[p].pc = "address"
    /\ \/ Answer(p)
       \/ Advance(p, [req[p] EXCEPT !.pc = "candidate"])
       \/ \E u \in Exists : Advance(p, [req[p] EXCEPT !.uid = u, !.pc = "link"])

\* The account that was found is to be linked: the update refuses, or writes the identity to
\* some row.  It returns no row either way, and the sign-in fails on the missing user.
LinkGoogle(p) ==
    /\ req[p].pc = "link"
    /\ \/ Answer(p)
       \/ \E u \in Exists :
              /\ ~Conflict([Nothing EXCEPT !.google = req[p].values.google], u)
              /\ users' = [users EXCEPT ![u].google = req[p].values.google]
              /\ Goto(p, Idle)
              /\ UNCHANGED <<session, started>>

\* _create_user_from_oauth: number the name while it is said to be taken (queries that
\* change nothing); taken or not, what comes out is inserted, if it has the form of a name.
PickName(p) ==
    /\ req[p].pc = "candidate"
    /\ \/ Answer(p)
       \/ \E n \in Username :
              Advance(p, [req[p] EXCEPT !.values.username = n, !.pc = "write"])

InsertGoogle(p) ==
    /\ req[p].pc = "write" /\ req[p].op = "google"
    /\ \E u \in Uid \ Exists :
           IF Conflict(req[p].values, u) THEN Answer(p)
           ELSE /\ users' = [users EXCEPT ![u] = NewRow(req[p].values, FALSE)]
                /\ Goto(p, [req[p] EXCEPT !.uid = u, !.pc = "session"])
                /\ UNCHANGED <<session, started>>

\* create_session, and the answer of login and oauth_google_callback.
OpenSession(p) ==
    /\ req[p].pc = "session"
    /\ session' = session \cup {req[p].uid}
    /\ Goto(p, Idle)
    /\ UNCHANGED <<users, started>>

\* An account's sessions end (module Sessions).
EndSession(u) ==
    /\ u \in session
    /\ session' = session \ {u}
    /\ UNCHANGED <<users, req, started>>

\* Nobody asks any more (bound).
Quiet == started = MaxRequests /\ (\A p \in Proc : req[p] = Idle) /\ UNCHANGED vars

Ask(p) == \/ AskCreate(p) \/ AskUpdate(p) \/ AskDeactivate(p) \/ AskErase(p)
          \/ AskTier(p) \/ AskView(p) \/ AskLogin(p) \/ AskGoogle(p)

Step(p) == \/ CheckEmail(p) \/ CheckName(p) \/ InsertUser(p)
           \/ Lookup(p) \/ LookupDeactivate(p) \/ LookupErase(p)
           \/ LoadUpdate(p) \/ WriteUpdate(p) \/ Deactivate(p) \/ Erase(p)
           \/ LoadTier(p) \/ CheckTier(p) \/ WriteTier(p) \/ LoadView(p) \/ Show(p)
           \/ FindAddress(p) \/ LinkGoogle(p) \/ PickName(p) \/ InsertGoogle(p)
           \/ OpenSession(p)

Next == \/ \E p \in Proc : Ask(p) \/ Step(p)
        \/ \E u \in Uid : EndSession(u)
        \/ Quiet

Spec == Init /\ [][Next]_vars

-----------------------------------------------------------------------------
(* Properties.                                                             *)

TypeOK ==
    /\ users \in [Uid -> Row \cup {None}]
    /\ session \subseteq Exists
    /\ req \in [Proc -> Request]
    /\ started \in 0..MaxRequests

\* No two accounts, live or deleted, share a user name, an address or a Google
\* identity, although services/user.py tests each name in one await and writes it in
\* another.
NamesUnique == \A u, w \in Exists : u # w =>
    /\ users[u].username # None => users[u].username # users[w].username
    /\ users[u].email # users[w].email
    /\ users[u].google # None => users[u].google # users[w].google

\* The permission is given for a name, the work is done on a row id found by a later
\* query: still, a regular user's request only ever works on that user's own row,
\* unless the name was given up by its owner while the request was in flight.
OwnProfileOnly == \A p \in Proc :
    (req[p].op \in {"update", "deactivate", "view"} /\ ~req[p].admin /\ ~req[p].moved)
        => req[p].uid \in {None, req[p].actor}

\* "Only non-deleted users can be updated" (services/user.py:236): no profile update writes to
\* a row that anonymize_user has stripped of its name.  The code loads the row in one await
\* and writes it, by its id alone, in another.
NoUpdateAfterErasure ==
    [][\A p \in Proc : (/\ req[p].op = "update" /\ req[p].pc = "write" /\ req'[p] = Idle
                        /\ users[req[p].uid].username = None) => UNCHANGED users]_vars
=============================================================================
