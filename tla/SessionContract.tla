-------------------------- MODULE SessionContract --------------------------
(***************************************************************************)
(* What SessionManager promises about sessions, storage and time left out: *)
(* a session starts once, while its user has room for it, and ends once.   *)
(***************************************************************************)
EXTENDS Integers, FiniteSets

CONSTANTS Sid, User, Owner, MaxSessions

VARIABLE status  \* status[s]: where session s is in its life

ActiveOf(u) == {s \in Sid : Owner[s] = u /\ status[s] = "active"}

Init == status = [s \in Sid |-> "new"]

\* create_session, after _enforce_session_limit has made room.
Start(s) ==
    /\ status[s] = "new"
    /\ Cardinality(ActiveOf(Owner[s])) < MaxSessions
    /\ status' = [status EXCEPT ![s] = "active"]

\* Logout, eviction, timeout: any of the active sessions end, for good.
End(S) ==
    /\ \A s \in S : status[s] = "active"
    /\ status' = [s \in Sid |-> IF s \in S THEN "ended" ELSE status[s]]

Next == (\E s \in Sid : Start(s)) \/ (\E S \in SUBSET Sid : End(S))

Spec == Init /\ [][Next]_status
=============================================================================
