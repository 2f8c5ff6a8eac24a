--------------------------- MODULE ClientIdLeases ---------------------------
(***************************************************************************)
(* The table ibkr_client_leases and the IbkrClientIdManager objects that   *)
(* share it (backend/ibkr_utils.py).  Every process that talks to TWS has  *)
(* its own manager, whose owner string is unique; the SQLite table is what *)
(* keeps two processes from picking the same TWS client id.                *)
(*                                                                         *)
(* acquire() is a loop of separate transactions, and each one reads the    *)
(* wall clock BEFORE it waits for SQLite's write lock.  Other processes    *)
(* run between the clock read and the transaction, and between two         *)
(* transactions of one scan, so these are separate actions here.  A        *)
(* process may die at any point: nothing releases its rows but the clock.  *)
(*                                                                         *)
(* `granted' is a history variable: the expiry each owner was last given   *)
(* for an id, 0 once it gave the id back.  It is what the owner believes.  *)
(***************************************************************************)
EXTENDS Integers

CONSTANTS
    Owner,      \* manager objects, one per process that talks to TWS
    Role,       \* logical connection roles inside a process
    StartId,    \* self._start: the first client id handed out
    MaxId,      \* self._max: the last one
    LeaseTtl,   \* self._lease_ttl_ms, in clock ticks
    MaxTime,    \* bound on the clock, for model checking
    None        \* no id, no row

ASSUME IdRange == StartId \in Nat /\ MaxId \in Nat
ASSUME ClockConstants == LeaseTtl \in Nat \ {0} /\ MaxTime \in Nat
ASSUME NoneIsNoId == None \notin Nat
ASSUME NoneIsNoRow ==
    None \notin [owner : Owner, role : Role, expires : Nat]

Ids == StartId .. MaxId

(* Initial clock reading: any instant after the epoch will do. *)
FirstInstant == 1

VARIABLES
    now,        \* wall clock, shared by the processes of one machine
    lease,      \* ibkr_client_leases: row of each id, or None
    retired,    \* self._retired of each manager
    roleId,     \* self._role_to_client_id of each manager
    call,       \* the acquire() each manager is executing
    alive,      \* owners whose process runs
    granted     \* history: expiry promised to each owner for each id

vars == <<now, lease, retired, roleId, call, alive, granted>>

Row == [owner : Owner, role : Role, expires : Nat]

(* A scan starts at self._start or later and runs past self._max to fail. *)
ScanPosition == {n \in Nat : n >= StartId}

Idle == [pc |-> "idle"]
Scan(r, id) == [pc |-> "scan", role |-> r, candidate |-> id]
Call ==
    {Idle}
      \cup [pc : {"scan"}, role : Role, candidate : ScanPosition]
      \cup [pc : {"claim"}, role : Role, candidate : Ids, now_ms : Nat]

TypeOK ==
    /\ now \in Nat
    /\ lease \in [Ids -> Row \cup {None}]
    /\ retired \in [Owner -> SUBSET Ids]
    /\ roleId \in [Owner -> [Role -> Ids \cup {None}]]
    /\ call \in [Owner -> Call]
    /\ alive \in SUBSET Owner
    /\ granted \in [Owner -> [Ids -> Nat]]

Init ==
    /\ now = FirstInstant
    /\ lease = [id \in Ids |-> None]
    /\ retired = [o \in Owner |-> {}]
    /\ roleId = [o \in Owner |-> [r \in Role |-> None]]
    /\ call = [o \in Owner |-> Idle]
    /\ alive = Owner
    /\ granted = [o \in Owner |-> [id \in Ids |-> 0]]

-----------------------------------------------------------------------------
(* Mutant: the preferred id is taken as it comes. *)
MutAnyStart(x) == x

(* max(x, self._start) *)
AtLeastStart(x) == IF x < StartId THEN StartId ELSE x

(* acquire(role) with no preferred id starts from the role's last id. *)
AcquireFromRole(o, r) ==
    /\ o \in alive
    /\ call[o] = Idle
    /\ call' = [call EXCEPT ![o] =
         Scan(r, IF roleId[o][r] = None THEN StartId
                 ELSE AtLeastStart(roleId[o][r]))]
    /\ UNCHANGED <<now, lease, retired, roleId, alive, granted>>

(* acquire(role, preferred_id) starts from the preferred id. *)
AcquirePreferred(o, r, preferred) ==
    /\ o \in alive
    /\ call[o] = Idle
    /\ call' = [call EXCEPT ![o] = Scan(r, AtLeastStart(preferred))]
    /\ UNCHANGED <<now, lease, retired, roleId, alive, granted>>

(* `if candidate in self._retired: candidate += 1; continue' *)
SkipRetired(o) ==
    /\ o \in alive
    /\ call[o].pc = "scan"
    /\ call[o].candidate <= MaxId
    /\ call[o].candidate \in retired[o]
    /\ call' = [call EXCEPT ![o] = Scan(@.role, @.candidate + 1)]
    /\ UNCHANGED <<now, lease, retired, roleId, alive, granted>>

(* _try_claim reads the clock, then waits for the write lock. *)
ReadClock(o) ==
    /\ o \in alive
    /\ call[o].pc = "scan"
    /\ call[o].candidate <= MaxId
    /\ call[o].candidate \notin retired[o]
    /\ call' = [call EXCEPT ![o] =
         [pc |-> "claim", role |-> call[o].role,
          candidate |-> call[o].candidate, now_ms |-> now]]
    /\ UNCHANGED <<now, lease, retired, roleId, alive, granted>>

(* Mutant: the purge is one tick early. *)
MutPurgeEarly(rows, t) ==
    [id \in Ids |-> IF rows[id] # None /\ rows[id].expires <= t + 1
                    THEN None ELSE rows[id]]

(* DELETE FROM ibkr_client_leases WHERE expires_at <= t *)
Purge(rows, t) ==
    [id \in Ids |-> IF rows[id] # None /\ rows[id].expires <= t
                    THEN None ELSE rows[id]]

(* SELECT owner ... ; row is not None and row[0] != self._owner *)
OwnedByOther(rows, o, id) == rows[id] # None /\ rows[id].owner # o

(* The transaction found no row, or the caller's own row: insert or renew. *)
ClaimGranted(o) ==
    LET c == call[o]
        rows == Purge(lease, c.now_ms)
        expires_at == c.now_ms + LeaseTtl
    IN  /\ o \in alive
        /\ c.pc = "claim"
        /\ ~OwnedByOther(rows, o, c.candidate)
        /\ lease' = [rows EXCEPT ![c.candidate] =
                       [owner |-> o, role |-> c.role, expires |-> expires_at]]
        /\ roleId' = [roleId EXCEPT ![o][c.role] = c.candidate]
        /\ granted' = [granted EXCEPT ![o][c.candidate] = expires_at]
        /\ call' = [call EXCEPT ![o] = Idle]
        /\ UNCHANGED <<now, retired, alive>>

(* Mutant: a refused scan tries the same id again. *)
MutRetrySameId(o) ==
    LET c == call[o]
        rows == Purge(lease, c.now_ms)
    IN  /\ o \in alive
        /\ c.pc = "claim"
        /\ OwnedByOther(rows, o, c.candidate)
        /\ lease' = rows
        /\ call' = [call EXCEPT ![o] = Scan(c.role, c.candidate)]
        /\ UNCHANGED <<now, retired, roleId, alive, granted>>

(* The transaction found another owner's row: only the purge is committed. *)
ClaimRefused(o) ==
    LET c == call[o]
        rows == Purge(lease, c.now_ms)
    IN  /\ o \in alive
        /\ c.pc = "claim"
        /\ OwnedByOther(rows, o, c.candidate)
        /\ lease' = rows
        /\ call' = [call EXCEPT ![o] = Scan(c.role, c.candidate + 1)]
        /\ UNCHANGED <<now, retired, roleId, alive, granted>>

(* `raise RuntimeError("Exhausted managed TWS client IDs")' *)
Exhausted(o) ==
    /\ o \in alive
    /\ call[o].pc = "scan"
    /\ call[o].candidate > MaxId
    /\ call' = [call EXCEPT ![o] = Idle]
    /\ UNCHANGED <<now, lease, retired, roleId, alive, granted>>

(* Mutant: the DELETE forgets to check the owner. *)
MutDropAnyRow(rows, o, id) == [rows EXCEPT ![id] = None]

(* DELETE ... WHERE client_id = ? AND owner = ? *)
DropOwnRow(rows, o, id) ==
    IF rows[id] # None /\ rows[id].owner = o
    THEN [rows EXCEPT ![id] = None]
    ELSE rows

(* Mutant: release() leaves the role map alone. *)
MutKeepRoles(roles, id) == roles

(* release() also forgets the id in every role that mapped to it. *)
ForgetId(roles, id) ==
    [r \in Role |-> IF roles[r] = id THEN None ELSE roles[r]]

(* release(client_id): callers pass ids they acquired, possibly long ago. *)
Release(o, id) ==
    /\ o \in alive
    /\ call[o] = Idle
    /\ granted[o][id] # 0
    /\ lease' = DropOwnRow(lease, o, id)
    /\ roleId' = [roleId EXCEPT ![o] = ForgetId(roleId[o], id)]
    /\ granted' = [granted EXCEPT ![o][id] = 0]
    /\ UNCHANGED <<now, retired, call, alive>>

(* mark_rejected(client_id): TWS answered 326 for an id just acquired. *)
MarkRejected(o, id) ==
    /\ o \in alive
    /\ call[o] = Idle
    /\ \E r \in Role : roleId[o][r] = id
    /\ retired' = [retired EXCEPT ![o] = @ \cup {id}]
    /\ lease' = DropOwnRow(lease, o, id)
    /\ roleId' = [roleId EXCEPT ![o] = ForgetId(roleId[o], id)]
    /\ granted' = [granted EXCEPT ![o][id] = 0]
    /\ UNCHANGED <<now, call, alive>>

(* The process dies; its rows stay.  A new process has a new owner string. *)
Crash(o) ==
    /\ o \in alive
    /\ alive' = alive \ {o}
    /\ UNCHANGED <<now, lease, retired, roleId, call, granted>>

Tick ==
    /\ now < MaxTime
    /\ now' = now + 1
    /\ UNCHANGED <<lease, retired, roleId, call, alive, granted>>

Step(o) ==
    \/ \E r \in Role : AcquireFromRole(o, r)
    \/ \E r \in Role, p \in 0 .. MaxId : AcquirePreferred(o, r, p)
    \/ SkipRetired(o)
    \/ ReadClock(o)
    \/ ClaimGranted(o)
    \/ ClaimRefused(o)
    \/ Exhausted(o)
    \/ \E id \in Ids : Release(o, id)
    \/ \E id \in Ids : MarkRejected(o, id)
    \/ Crash(o)

Next == Tick \/ \E o \in Owner : Step(o)

(* A process inside acquire() finishes it: the loop has no await. *)
Fairness ==
    \A o \in Owner :
        WF_vars(SkipRetired(o) \/ ReadClock(o) \/ ClaimGranted(o)
                  \/ ClaimRefused(o) \/ Exhausted(o))

Spec == Init /\ [][Next]_vars /\ Fairness
-----------------------------------------------------------------------------
(* An owner holds an id while the expiry it was promised lies ahead. *)
Holds(o, id) == granted[o][id] > now

(* The purpose of the table: two processes never hold the same client id   *)
(* at the same time, although a transaction uses a clock reading that may  *)
(* be stale by the time it gets the write lock, a lease may run out        *)
(* unnoticed while its owner still maps a role to the id, and that owner   *)
(* may release the id after another process has taken it over.             *)
LeaseExclusive ==
    \A id \in Ids : \A o1, o2 \in Owner :
        Holds(o1, id) /\ Holds(o2, id) => o1 = o2

(* An id TWS rejected (mark_rejected) is out of use in that manager: no    *)
(* role maps to it, and no scan under way is about to claim it.            *)
RejectedIdUnused ==
    \A o \in Owner :
        /\ \A r \in Role : roleId[o][r] \notin retired[o]
        /\ call[o].pc = "claim" => call[o].candidate \notin retired[o]

(* A client id passes from one process to another only once the lease of   *)
(* the first has run out, or the first gave it back (its row is gone).     *)
TakeoverAfterExpiry ==
    [][\A id \in Ids :
         /\ lease[id] # None
         /\ lease'[id] # None
         /\ lease'[id].owner # lease[id].owner
         => lease[id].expires <= now]_vars

(* The table and its managers keep the promises of IdPromises: up to the   *)
(* expiry it was given, an id is its owner's alone, another owner's claim, *)
(* purge or late release does not touch it, and a renewal, although its    *)
(* clock reading may be stale, does not shorten it.                        *)
Promises == INSTANCE IdPromises WITH
    Term <- LeaseTtl,
    time <- now,
    promised <- [id \in Ids |->
        {[owner |-> o, until |-> granted[o][id]] : o \in {q \in Owner : Holds(q, id)}}]
PromisesAreKept == Promises!Spec

(* acquire() returns or raises unless its process dies: the scan always    *)
(* moves on, whatever the other processes claim and release meanwhile.     *)
AcquireTerminates ==
    \A o \in Owner : call[o] # Idle ~> (call[o] = Idle \/ o \notin alive)
=============================================================================
