------------------------------- MODULE ApiKeys -------------------------------
(***************************************************************************)
(* API keys: APIKeyService (services/api_key.py) on the tables api_keys,   *)
(* key_permissions and key_usage (models/api_key.py), behind the routes of *)
(* api/v1/api_keys.py.  Each await on the database is a step: a key is     *)
(* loaded and then written, and a validation reads the key, up to four     *)
(* permission rows, and writes the time of use, with others in between.    *)
(* validate_api_key and record_usage are called by the application built   *)
(* on this code; permission rows are written by its operator.              *)
(***************************************************************************)
EXTENDS KeyUsage, Sequences

CONSTANTS
    User, KeyId,       \* ids of users and of rows
    Prefix,            \* the first letters of keys, which two keys may share
    Resource, Action,  \* members of the enumerations, without their wildcard
    Wild, Unknown,      \* the wildcard "*"; a word in neither enumeration
    Never,             \* the expiry of a key that has none
    Expiry,            \* the expiries a new key is given
    Resident, Granted, \* keys made earlier, and the sets of permission rows there may be
    Text, Asked,       \* texts presented as keys, resources and actions asked for
    Update,            \* what an update may ask for
    Spent,             \* usage records the application may write
    Proc,              \* requests that may be in flight at once
    PageLimit, TopEndpoints,  \* rows get_multi returns (100), end points reported (10)
    MaxRequests, MaxGrants, MaxUsage, MaxTime  \* bounds on what happens

Time == 0..MaxTime
Row == [owner : User, prefix : Prefix, active : BOOLEAN, expires : Time \cup {Never},
        used : Time \cup {None}]
Cell == [resource : Resource \cup {Wild}, action : Action \cup {Wild}]
Permission == [key : KeyId, resource : Resource \cup {Wild}, action : Action \cup {Wild}, allowed : BOOLEAN]

\* The unique index of KeyPermission, which the code relies on to find one row.
OnePerCell(rows) ==
    \A x, y \in rows : x.key = y.key /\ x.resource = y.resource /\ x.action = y.action => x = y

\* None: the field is left out of the update.
Values == [active : BOOLEAN \cup {None}, expires : Time \cup {Never, None}]

\* Well formed, or not; the secret half of key k is k, None is nobody's.
ASSUME NoneAssumption     == None \notin KeyId /\ None \notin Row /\ None \notin Time /\ Never \notin Time
ASSUME WordAssumption     == Wild \notin Resource \cup Action /\ Unknown \notin Resource \cup Action \cup {Wild}
ASSUME ExpiryAssumption   == Expiry \subseteq Time \cup {Never}
ASSUME TextAssumption     == Text \subseteq [good : BOOLEAN, prefix : Prefix, secret : KeyId \cup {None}]
ASSUME UpdateAssumption   == Update \subseteq Values
ASSUME AskedAssumption    == Asked \subseteq [resource : Resource \cup {Wild, Unknown}, action : Action \cup {Wild, Unknown}]
ASSUME GrantedAssumption  == \A g \in Granted : /\ g \subseteq Permission /\ OnePerCell(g)
                                                /\ \A x \in g : x.key \in DOMAIN Resident
ASSUME ResidentAssumption == DOMAIN Resident \subseteq KeyId /\ \A k \in DOMAIN Resident : Resident[k] \in Row
ASSUME SpentAssumption    == Spent \subseteq Usage({None})
ASSUME BoundAssumption    == {PageLimit, TopEndpoints, MaxRequests, MaxGrants, MaxUsage, MaxTime} \subseteq Nat

VARIABLES
    keys,     \* keys[k]: the row with id k, or None
    perms,    \* the rows of key_permissions
    usage,    \* the rows of key_usage, in the order they were written
    now,      \* the clock
    req,      \* req[p]: the request in slot p
    started, grants  \* requests, and permission writes, so far

vars == <<keys, perms, usage, now, req, started, grants>>

Manage == {"update", "delete"}

\* user: who asks; key: the key it names, or the one identified; todo: permission rows
\* to look for.  History: owed, the answer a validation must get as long as nothing
\* it depends on changes ("open" once it did); dead, the key was inactive or expired
\* when the validation began and no update has made it usable since.
Request == [op : Manage \cup {"none", "validate"},
            pc : {"idle", "load", "write", "identify", "probe", "touch", "answered"},
            user : User \cup {None}, key : KeyId \cup {None}, values : Values,
            text : Text \cup {None}, todo : Seq(Cell), valid : BOOLEAN,
            owed : {"valid", "refused", "open"}, dead : BOOLEAN]

Keep == [active |-> None, expires |-> None]
Idle == [op |-> "none", pc |-> "idle", user |-> None, key |-> None, values |-> Keep,
         text |-> None, todo |-> <<>>, valid |-> FALSE, owed |-> "open", dead |-> FALSE]

-----------------------------------------------------------------------------
Exists == {k \in KeyId : keys[k] # None}

\* validate_api_key: the prefix finds the row, the hash confirms the whole text.
Bears(t, k) == t.good /\ t.prefix = keys[k].prefix /\ t.secret = k

Expired(row) == row.expires # Never /\ row.expires < now

\* Mutant: an inactive key is not refused.
UsableInactive(row) == ~Expired(row)

Usable(row) == row.active /\ ~Expired(row)

\* Mutant: all rows of the action are tried last.
ProbesResourceFirst(r, a) ==
    LET cell(x, y) == [resource |-> x, action |-> y]
    IN <<cell(r, a), cell(r, Wild), cell(Wild, a), cell(Wild, Wild)>>

\* _check_permission: the rows it looks for, in this order; the first found decides.
\* A word outside the enumerations is not looked for.
Probes(r, a) ==
    LET cell(x, y) == [resource |-> x, action |-> y]
        knownR == r \in Resource \cup {Wild}
        knownA == a \in Action \cup {Wild}
    IN IF knownR /\ knownA THEN <<cell(r, a), cell(Wild, a), cell(r, Wild), cell(Wild, Wild)>>
       ELSE IF knownA THEN <<cell(Wild, a), cell(Wild, Wild)>>
       ELSE IF knownR THEN <<cell(r, Wild), cell(Wild, Wild)>>
       ELSE <<cell(Wild, Wild)>>

RowsAt(k, c) == {x \in perms : x.key = k /\ x.resource = c.resource /\ x.action = c.action}

\* The answer meant: of the rows that cover (r, a), one for the action itself comes
\* before one for all actions, then one for the resource before one for all.
Allowed(k, r, a) ==
    LET covers == {x \in perms : x.key = k /\ x.resource \in {r, Wild} /\ x.action \in {a, Wild}}
        wild(x) == (IF x.action = Wild /\ a # Wild THEN 2 ELSE 0) + (IF x.resource = Wild /\ r # Wild THEN 1 ELSE 0)
    IN \E x \in covers : x.allowed /\ \A y \in covers : wild(x) <= wild(y)

\* History: what a client that has key k presents, and whether it is to be accepted.
TextOf(k)   == [good |-> TRUE, prefix |-> keys[k].prefix, secret |-> k]
InForce(k)  == keys[k].active /\ (keys[k].expires \in Time => now <= keys[k].expires)
Its(t)      == {k \in Exists : t = TextOf(k)}

\* History: what changed concerns the validations of key k; after an update that made
\* its row usable none of them is dead.
Unsettled(r, k, revived) ==
    [p \in Proc |->
        IF r[p].op = "validate" /\ r[p].pc # "answered" /\ k \in Its(r[p].text)
        THEN [r[p] EXCEPT !.owed = "open", !.dead = @ /\ ~revived] ELSE r[p]]

-----------------------------------------------------------------------------
Init ==
    /\ keys = [k \in KeyId |-> IF k \in DOMAIN Resident THEN Resident[k] ELSE None]
    /\ perms \in Granted
    /\ usage = <<>>
    /\ now = 0
    /\ req = [p \in Proc |-> Idle]
    /\ started = 0
    /\ grants = 0

Begin(p, r) ==
    /\ req[p].pc = "idle"
    /\ started < MaxRequests
    /\ started' = started + 1
    /\ req' = [req EXCEPT ![p] = r]
    /\ UNCHANGED <<keys, perms, usage, now, grants>>

\* POST /: one transaction writes the row, active, with a prefix and a secret of its own.
Create(p) ==
    \E u \in User, k \in KeyId \ Exists, f \in Prefix, e \in Expiry :
        /\ req[p].pc = "idle"
        /\ started < MaxRequests
        /\ started' = started + 1
        /\ keys' = [keys EXCEPT ![k] = [owner |-> u, prefix |-> f, active |-> TRUE,
                                        expires |-> e, used |-> None]]
        /\ UNCHANGED <<perms, usage, now, req, grants>>

\* PATCH and DELETE /{key_id}.
AskManage(p) ==
    \E op \in Manage, u \in User, k \in KeyId, v \in Update :
        /\ op # "update" => v = CHOOSE x \in Update : TRUE
        /\ Begin(p, [Idle EXCEPT !.op = op, !.pc = "load", !.user = u, !.key = k, !.values = v])

\* Some words are known, some are not; a text may be a key's, malformed, or wrong.
AskValidate(p) ==
    \E t \in Text, c \in Asked :
        LET right == \E k \in Its(t) : InForce(k) /\ Allowed(k, c.resource, c.action)
        IN /\ t.secret # None => t.secret \in Exists
           /\ Begin(p, [Idle EXCEPT !.op = "validate", !.pc = "identify", !.text = t,
                                    !.todo = Probes(c.resource, c.action),
                                    !.owed = IF right THEN "valid" ELSE "refused",
                                    !.dead = \A k \in Its(t) : ~InForce(k)])

End(p) == req' = [req EXCEPT ![p] = Idle]

OwnedBy(p, k) == keys[k] # None /\ keys[k].owner = req[p].user

\* get_api_key: 404 when there is no row, 403 when it is not the user's.
Load(p) ==
    /\ req[p].pc = "load"
    /\ IF OwnedBy(p, req[p].key)
       THEN req' = [req EXCEPT ![p].pc = "write"] ELSE End(p)
    /\ UNCHANGED <<keys, perms, usage, now, started, grants>>

\* Mutant: an update also writes the fields it was not given.
ChangedAll(row, op, v) ==
    IF op = "delete" THEN [row EXCEPT !.active = FALSE]
    ELSE [row EXCEPT !.active = v.active, !.expires = v.expires]

\* What update_api_key and delete_api_key write: only the fields that were given.
Changed(row, op, v) ==
    IF op = "delete" THEN [row EXCEPT !.active = FALSE]
    ELSE [row EXCEPT !.active  = IF v.active = None THEN @ ELSE v.active,
                     !.expires = IF v.expires = None THEN @ ELSE v.expires]

\* update_api_key and delete_api_key, once the owner is known.
Write(p) ==
    LET k   == req[p].key
        row == Changed(keys[k], req[p].op, req[p].values)
    IN /\ req[p].op \in {"update", "delete"}
       /\ req[p].pc = "write"
       /\ keys' = [keys EXCEPT ![k] = row]
       /\ req' = Unsettled([req EXCEPT ![p] = Idle], k, req[p].values.active = TRUE \/ req[p].values.expires # None)
       /\ UNCHANGED <<perms, usage, now, started, grants>>

Answer(p, ok) == req' = [req EXCEPT ![p].pc = "answered", ![p].valid = ok]

\* validate_api_key up to the permission check: refused unless the text is that of a
\* key that is active and has not expired.
Identify(p) ==
    LET found == {k \in Exists : Bears(req[p].text, k)}
    IN /\ req[p].pc = "identify"
       /\ IF found = {} THEN Answer(p, FALSE)
          ELSE \E k \in found : IF Usable(keys[k])
                                THEN req' = [req EXCEPT ![p].pc = "probe", ![p].key = k]
                                ELSE Answer(p, FALSE)
       /\ UNCHANGED <<keys, perms, usage, now, started, grants>>

\* _check_permission: one row is looked for; when it is there it decides.
Probe(p) ==
    LET rows == RowsAt(req[p].key, Head(req[p].todo))
        rest == Tail(req[p].todo)
    IN /\ req[p].pc = "probe"
       /\ \/ /\ rows = {}
             /\ IF rest = <<>> THEN Answer(p, FALSE)
                ELSE req' = [req EXCEPT ![p].todo = rest]
          \/ \E x \in rows : IF x.allowed THEN req' = [req EXCEPT ![p].pc = "touch"]
                                         ELSE Answer(p, FALSE)
       /\ UNCHANGED <<keys, perms, usage, now, started, grants>>

\* The end of validate_api_key: last_used_at, whatever became of the key meanwhile.
Touch(p) ==
    /\ req[p].pc = "touch"
    /\ keys' = [keys EXCEPT ![req[p].key].used = now]
    /\ Answer(p, TRUE)
    /\ UNCHANGED <<perms, usage, now, started, grants>>

\* record_usage, which the application calls once a validation has succeeded; the ids
\* are its caller's, so the record may name any key there is.
RecordUsage(p) ==
    \E s \in Spent, k \in Exists :
        /\ req[p].pc = "answered" /\ req[p].valid
        /\ Len(usage) < MaxUsage
        /\ usage' = Append(usage, [key |-> k, status |-> s.status, endpoint |-> s.endpoint,
                                   amount |-> s.amount, day |-> now])
        /\ End(p)
        /\ UNCHANGED <<keys, perms, now, started, grants>>

\* The application refuses the call, or records no usage.
Forget(p) ==
    /\ req[p].pc = "answered"
    /\ End(p)
    /\ UNCHANGED <<keys, perms, usage, now, started, grants>>

\* The operator writes, changes or removes a permission row; one per key and cell.
Grant ==
    \E k \in Exists, r \in Resource \cup {Wild}, a \in Action \cup {Wild} :
        LET old == RowsAt(k, [resource |-> r, action |-> a])
        IN /\ grants < MaxGrants
           /\ grants' = grants + 1
           /\ \/ \E ok \in BOOLEAN : perms' = (perms \ old) \cup
                    {[key |-> k, resource |-> r, action |-> a, allowed |-> ok]}
              \/ old # {} /\ perms' = perms \ old
           /\ req' = Unsettled(req, k, FALSE)
           /\ UNCHANGED <<keys, usage, now, started>>

Tick ==
    /\ now < MaxTime
    /\ now' = now + 1
    /\ req' = [p \in Proc |-> [req[p] EXCEPT !.owed = "open"]]
    /\ UNCHANGED <<keys, perms, usage, started, grants>>

\* Everything was done that the bounds allow.
Rest ==
    /\ started = MaxRequests
    /\ \A p \in Proc : req[p].pc = "idle"
    /\ UNCHANGED vars

Next ==
    \/ \E p \in Proc :
          \/ Create(p) \/ AskManage(p) \/ AskValidate(p)
          \/ Load(p) \/ Write(p)
          \/ Identify(p) \/ Probe(p) \/ Touch(p) \/ RecordUsage(p) \/ Forget(p)
    \/ Grant \/ Tick \/ Rest

Spec == Init /\ [][Next]_vars

-----------------------------------------------------------------------------
\* Types; and rows refer to keys there are, with one permission per key and cell.
TypeOK ==
    /\ keys \in [KeyId -> Row \cup {None}]
    /\ perms \subseteq Permission /\ OnePerCell(perms)
    /\ \A x \in perms : x.key \in Exists
    /\ \A i \in DOMAIN usage : usage[i].key \in Exists /\ usage[i].day \in Time
    /\ now \in Time
    /\ req \in [Proc -> Request]
    /\ \A p \in Proc : req[p].pc \in {"probe", "touch"} => req[p].key \in Exists
    /\ started \in 0..MaxRequests
    /\ grants \in 0..MaxGrants

\* validate_api_key: a key that was inactive or had expired when its validation began,
\* or a text that is nobody's, is never accepted unless its owner made it usable again
\* meanwhile; a validation under way when the key is deleted may still succeed.
RevokedKeyIsRefused == \A p \in Proc : req[p].valid => ~req[p].dead

\* validate_api_key and _check_permission: when neither the key, nor its permissions,
\* nor the time changed under it, a validation answers what the most specific
\* permission row says, although it looks for the rows one at a time.
MostSpecificRowDecides ==
    \A p \in Proc : req[p].pc = "answered" /\ req[p].owed # "open" =>
        (req[p].valid <=> req[p].owed = "valid")

\* What get_usage_analytics may read of key k's records: those since some day, and at
\* most PageLimit of them, in no order asked for.
Page(k) ==
    LET its == {i \in DOMAIN usage : usage[i].key = k}
    IN {s \in SUBSET its : Cardinality(s) <= PageLimit}

\* get_usage_analytics: the figures reported of the records that were read agree.
AnalyticsAgree ==
    \A k \in Exists : \A s \in Page(k) : Agree([i \in s |-> usage[i]], TopEndpoints)
=============================================================================
