------------------------- MODULE ClientIdLeasesProofs -------------------------
(***************************************************************************)
(* Proofs about ClientIdLeases, for any number of processes, roles and ids *)
(* and any TTL.  The inductive invariant adds to the properties what makes *)
(* them stable: a promise that has not run out IS the row in the table,    *)
(* and the clock reading a transaction uses is never ahead of the clock.   *)
(***************************************************************************)
EXTENDS ClientIdLeases, TLAPS

(* A promise still running is recorded in the table, with its owner. *)
PromiseIsRow ==
    \A o \in Owner : \A id \in Ids :
        granted[o][id] > now =>
            /\ lease[id] # None
            /\ lease[id].owner = o
            /\ lease[id].expires = granted[o][id]

(* A transaction's clock reading may be stale, never early. *)
ClockReadInPast ==
    \A o \in Owner : call[o].pc = "claim" => call[o].now_ms <= now

IInv ==
    /\ TypeOK
    /\ PromiseIsRow
    /\ ClockReadInPast
    /\ RejectedIdUnused

-----------------------------------------------------------------------------
(* The shape of a call record follows from its pc. *)
LEMMA CallShape ==
    ASSUME TypeOK, NEW o \in Owner
    PROVE  /\ call[o].pc = "scan" =>
                call[o] \in [pc : {"scan"}, role : Role, candidate : ScanPosition]
           /\ call[o].pc = "claim" =>
                call[o] \in [pc : {"claim"}, role : Role, candidate : Ids,
                             now_ms : Nat]
  BY DEF TypeOK, Call, Idle

(* What DELETE ... WHERE expires_at <= t leaves behind. *)
LEMMA PurgeKeeps ==
    ASSUME TypeOK, NEW t \in Nat
    PROVE  /\ Purge(lease, t) \in [Ids -> Row \cup {None}]
           /\ \A id \in Ids :
                /\ Purge(lease, t)[id] # None => Purge(lease, t)[id] = lease[id]
                /\ lease[id] # None /\ lease[id].expires > t =>
                     Purge(lease, t)[id] = lease[id]
  BY DEF TypeOK, Purge, Row

(* The initial state satisfies the inductive invariant. *)
LEMMA InitIInv == Init => IInv
  BY IdRange, ClockConstants, NoneIsNoId
  DEF Init, IInv, TypeOK, PromiseIsRow, ClockReadInPast, RejectedIdUnused,
      FirstInstant, Idle, Call, Ids

-----------------------------------------------------------------------------
(* A step that only moves one call leaves the table and the promises as    *)
(* they are; a call about to claim must carry a past clock reading and an  *)
(* id its manager has not retired.                                         *)
LEMMA CallMove ==
    ASSUME IInv, NEW o \in Owner, NEW c \in Call,
           call' = [call EXCEPT ![o] = c],
           UNCHANGED <<now, lease, retired, roleId, alive, granted>>,
           c.pc = "claim" => c.now_ms <= now /\ c.candidate \notin retired[o]
    PROVE  IInv'
<1>1. \A q \in Owner : call'[q] = IF q = o THEN c ELSE call[q]
  BY DEF IInv, TypeOK
<1>2. TypeOK'
  BY DEF IInv, TypeOK
<1>3. PromiseIsRow'
  BY DEF IInv, PromiseIsRow
<1>4. ClockReadInPast' /\ RejectedIdUnused'
  BY <1>1 DEF IInv, ClockReadInPast, RejectedIdUnused
<1> QED
  BY <1>2, <1>3, <1>4 DEF IInv

(* Starting, skipping in, or giving up a scan is such a step.              *)
LEMMA ScanStep ==
    ASSUME IInv, NEW o \in Owner,
           \/ \E r \in Role : AcquireFromRole(o, r)
           \/ \E r \in Role, p \in 0 .. MaxId : AcquirePreferred(o, r, p)
           \/ SkipRetired(o)
           \/ Exhausted(o)
    PROVE  IInv'
<1>1. \A r \in Role, n \in ScanPosition :
        Scan(r, n) \in Call /\ Scan(r, n).pc # "claim"
  BY DEF Scan, Call
<1>2. Idle \in Call /\ Idle.pc # "claim"
  BY DEF Idle, Call
<1>3. \A p \in Nat : AtLeastStart(p) \in ScanPosition
  BY IdRange DEF AtLeastStart, ScanPosition
<1>4. CASE \E r \in Role : AcquireFromRole(o, r)
  <2>1. PICK r \in Role : AcquireFromRole(o, r)
    BY <1>4
  <2> DEFINE n == IF roleId[o][r] = None THEN StartId
                  ELSE AtLeastStart(roleId[o][r])
  <2>2. roleId[o][r] \in Ids \cup {None}
    BY DEF IInv, TypeOK
  <2>3. n \in ScanPosition
    BY <2>2, <1>3, IdRange DEF ScanPosition, Ids
  <2>4. call' = [call EXCEPT ![o] = Scan(r, n)]
    BY <2>1 DEF AcquireFromRole
  <2> HIDE DEF n
  <2> QED
    BY <2>1, <2>3, <2>4, <1>1, CallMove DEF AcquireFromRole
<1>5. CASE \E r \in Role, p \in 0 .. MaxId : AcquirePreferred(o, r, p)
  <2>1. PICK r \in Role, p \in 0 .. MaxId : AcquirePreferred(o, r, p)
    BY <1>5
  <2>2. AtLeastStart(p) \in ScanPosition
    BY <1>3, IdRange
  <2> QED
    BY <2>1, <2>2, <1>1, CallMove DEF AcquirePreferred
<1>6. CASE SkipRetired(o)
  <2>1. call[o] \in [pc : {"scan"}, role : Role, candidate : ScanPosition]
    BY <1>6, CallShape DEF IInv, SkipRetired
  <2>2. call[o].role \in Role /\ call[o].candidate + 1 \in ScanPosition
    BY <2>1, IdRange DEF ScanPosition
  <2>3. call' = [call EXCEPT ![o] = Scan(call[o].role, call[o].candidate + 1)]
    BY <1>6 DEF SkipRetired
  <2> QED
    BY <1>6, <2>2, <2>3, <1>1, CallMove DEF SkipRetired
<1>7. CASE Exhausted(o)
  BY <1>7, <1>2, CallMove DEF Exhausted
<1> QED
  BY <1>4, <1>5, <1>6, <1>7

(* Reading the clock records an instant that is not in the future.         *)
LEMMA ReadClockStep ==
    ASSUME IInv, NEW o \in Owner, ReadClock(o)
    PROVE  IInv'
<1> DEFINE c == [pc |-> "claim", role |-> call[o].role,
                 candidate |-> call[o].candidate, now_ms |-> now]
<1>1. call[o] \in [pc : {"scan"}, role : Role, candidate : ScanPosition]
  BY CallShape DEF IInv, ReadClock
<1>2. call[o].candidate \in Ids /\ now \in Nat
  BY <1>1, IdRange DEF ReadClock, Ids, ScanPosition, IInv, TypeOK
<1>3. c \in Call /\ c.now_ms <= now /\ c.candidate \notin retired[o]
  BY <1>1, <1>2 DEF Call, ReadClock
<1> HIDE DEF c
<1>4. call' = [call EXCEPT ![o] = c]
  BY DEF ReadClock, c
<1> QED
  BY <1>3, <1>4, CallMove DEF ReadClock

(* The heart of the argument: a claim is granted only if no other owner's  *)
(* promise on that id is still running, since such a promise is a row that *)
(* the purge, whose instant lies in the past, cannot have removed.         *)
LEMMA ClaimGrantedStep ==
    ASSUME IInv, NEW o \in Owner, ClaimGranted(o)
    PROVE  IInv'
<1> DEFINE c == call[o]
           rows == Purge(lease, c.now_ms)
           x == c.now_ms + LeaseTtl
           row == [owner |-> o, role |-> c.role, expires |-> x]
<1>1. /\ c.role \in Role /\ c.candidate \in Ids /\ c.now_ms \in Nat
      /\ c.now_ms <= now /\ c.candidate \notin retired[o]
      /\ now \in Nat
  BY CallShape DEF IInv, ClaimGranted, ClockReadInPast, RejectedIdUnused, TypeOK
<1>2. x \in Nat /\ x <= now + LeaseTtl
  BY <1>1, ClockConstants
<1>3. row \in Row
  BY <1>1, <1>2 DEF Row
<1>4. /\ rows \in [Ids -> Row \cup {None}]
      /\ \A id \in Ids :
           /\ rows[id] # None => rows[id] = lease[id]
           /\ lease[id] # None /\ lease[id].expires > c.now_ms =>
                rows[id] = lease[id]
  BY <1>1, PurgeKeeps DEF IInv
<1>5. /\ lease' = [rows EXCEPT ![c.candidate] = row]
      /\ roleId' = [roleId EXCEPT ![o][c.role] = c.candidate]
      /\ granted' = [granted EXCEPT ![o][c.candidate] = x]
      /\ call' = [call EXCEPT ![o] = Idle]
      /\ UNCHANGED <<now, retired, alive>>
      /\ ~OwnedByOther(rows, o, c.candidate)
  BY DEF ClaimGranted
<1>6. row # None /\ row.owner = o /\ row.expires = x
  BY <1>3, NoneIsNoRow DEF Row
<1> HIDE DEF c, rows, x, row
<1>7. \A id \in Ids : lease'[id] = IF id = c.candidate THEN row ELSE rows[id]
  BY <1>4, <1>5
<1>8. \A q \in Owner, id \in Ids :
        granted'[q][id] = IF q = o /\ id = c.candidate THEN x ELSE granted[q][id]
  BY <1>1, <1>2, <1>5 DEF IInv, TypeOK
<1>9. \A q \in Owner, s \in Role :
        roleId'[q][s] = IF q = o /\ s = c.role THEN c.candidate ELSE roleId[q][s]
  BY <1>1, <1>5 DEF IInv, TypeOK
<1>10. \A q \in Owner : call'[q] = IF q = o THEN Idle ELSE call[q]
  BY <1>5 DEF IInv, TypeOK
<1>11. TypeOK'
  <2>1. Idle \in Call
    BY DEF Call
  <2>2. lease' \in [Ids -> Row \cup {None}]
    BY <1>1, <1>3, <1>4, <1>5
  <2>3. roleId' \in [Owner -> [Role -> Ids \cup {None}]]
    BY <1>1, <1>5 DEF IInv, TypeOK
  <2>4. granted' \in [Owner -> [Ids -> Nat]]
    BY <1>1, <1>2, <1>5 DEF IInv, TypeOK
  <2>5. call' \in [Owner -> Call]
    BY <2>1, <1>5 DEF IInv, TypeOK
  <2> QED
    BY <2>2, <2>3, <2>4, <2>5, <1>5 DEF IInv, TypeOK
<1>12. PromiseIsRow'
  <2> SUFFICES ASSUME NEW q \in Owner, NEW id \in Ids, granted'[q][id] > now
               PROVE  /\ lease'[id] # None
                      /\ lease'[id].owner = q
                      /\ lease'[id].expires = granted'[q][id]
    BY <1>5 DEF PromiseIsRow
  <2>1. CASE q = o /\ id = c.candidate
    BY <2>1, <1>6, <1>7, <1>8
  <2>2. CASE ~(q = o /\ id = c.candidate)
    <3>1. /\ granted'[q][id] = granted[q][id]
          /\ lease[id] # None /\ lease[id].owner = q
          /\ lease[id].expires = granted[q][id]
      BY <2>2, <1>8 DEF IInv, PromiseIsRow
    <3>2. granted[q][id] \in Nat
      BY DEF IInv, TypeOK
    <3>3. rows[id] = lease[id]
      BY <3>1, <3>2, <1>1, <1>4
    <3>4. id # c.candidate
      BY <3>1, <3>3, <2>2, <1>5 DEF OwnedByOther
    <3> QED
      BY <3>1, <3>3, <3>4, <1>7
  <2> QED
    BY <2>1, <2>2
<1>13. ClockReadInPast'
  BY <1>5, <1>10 DEF IInv, ClockReadInPast, Idle
<1>14. RejectedIdUnused'
  BY <1>1, <1>5, <1>9, <1>10 DEF IInv, RejectedIdUnused, Idle
<1> QED
  BY <1>11, <1>12, <1>13, <1>14 DEF IInv

(* A refused claim commits the purge alone, which spares running promises. *)
LEMMA ClaimRefusedStep ==
    ASSUME IInv, NEW o \in Owner, ClaimRefused(o)
    PROVE  IInv'
<1> DEFINE c == call[o]
           rows == Purge(lease, c.now_ms)
<1>1. /\ c.role \in Role /\ c.candidate \in Ids /\ c.now_ms \in Nat
      /\ c.now_ms <= now /\ now \in Nat
  BY CallShape DEF IInv, ClaimRefused, ClockReadInPast, TypeOK
<1>2. Scan(c.role, c.candidate + 1) \in Call
      /\ Scan(c.role, c.candidate + 1).pc # "claim"
  BY <1>1, IdRange DEF Scan, Call, ScanPosition, Ids
<1>3. /\ rows \in [Ids -> Row \cup {None}]
      /\ \A id \in Ids :
           /\ rows[id] # None => rows[id] = lease[id]
           /\ lease[id] # None /\ lease[id].expires > c.now_ms =>
                rows[id] = lease[id]
  BY <1>1, PurgeKeeps DEF IInv
<1>4. /\ lease' = rows
      /\ call' = [call EXCEPT ![o] = Scan(c.role, c.candidate + 1)]
      /\ UNCHANGED <<now, retired, roleId, alive, granted>>
  BY DEF ClaimRefused
<1> HIDE DEF c, rows
<1>5. \A q \in Owner :
        call'[q] = IF q = o THEN Scan(c.role, c.candidate + 1) ELSE call[q]
  BY <1>4 DEF IInv, TypeOK
<1>6. TypeOK'
  BY <1>2, <1>3, <1>4 DEF IInv, TypeOK
<1>7. PromiseIsRow'
  <2> SUFFICES ASSUME NEW q \in Owner, NEW id \in Ids, granted[q][id] > now
               PROVE  rows[id] = lease[id]
    BY <1>4 DEF IInv, PromiseIsRow
  <2>1. granted[q][id] \in Nat
    BY DEF IInv, TypeOK
  <2> QED
    BY <2>1, <1>1, <1>3 DEF IInv, PromiseIsRow
<1>8. ClockReadInPast' /\ RejectedIdUnused'
  BY <1>2, <1>4, <1>5 DEF IInv, ClockReadInPast, RejectedIdUnused
<1> QED
  BY <1>6, <1>7, <1>8 DEF IInv

(* Giving an id back removes the caller's own row only, so every promise   *)
(* made to somebody else keeps its row.                                    *)
LEMMA GiveBack ==
    ASSUME IInv, NEW o \in Owner, NEW id \in Ids, call[o] = Idle,
           lease' = DropOwnRow(lease, o, id),
           roleId' = [roleId EXCEPT ![o] = ForgetId(roleId[o], id)],
           granted' = [granted EXCEPT ![o][id] = 0],
           retired' \in {retired, [retired EXCEPT ![o] = @ \cup {id}]},
           UNCHANGED <<now, call, alive>>
    PROVE  IInv'
<1>1. \A i \in Ids :
        lease'[i] = IF i = id /\ lease[i] # None /\ lease[i].owner = o
                    THEN None ELSE lease[i]
  BY DEF DropOwnRow, IInv, TypeOK
<1>2. \A q \in Owner, i \in Ids :
        granted'[q][i] = IF q = o /\ i = id THEN 0 ELSE granted[q][i]
  BY DEF IInv, TypeOK
<1>3. ForgetId(roleId[o], id) \in [Role -> (Ids \cup {None}) \ {id}]
  BY NoneIsNoId, IdRange DEF ForgetId, IInv, TypeOK, Ids
<1>4. \A q \in Owner, r \in Role :
        roleId'[q][r] = IF q = o THEN ForgetId(roleId[o], id)[r] ELSE roleId[q][r]
  BY DEF IInv, TypeOK
<1>5. \A q \in Owner :
        retired'[q] = retired[q] \/ (q = o /\ retired'[q] = retired[q] \cup {id})
  BY DEF IInv, TypeOK
<1>6. TypeOK'
  <2>1. lease' \in [Ids -> Row \cup {None}]
    BY DEF DropOwnRow, IInv, TypeOK
  <2>2. roleId' \in [Owner -> [Role -> Ids \cup {None}]]
    BY <1>3 DEF IInv, TypeOK
  <2>3. granted' \in [Owner -> [Ids -> Nat]]
    BY DEF IInv, TypeOK
  <2>4. retired' \in [Owner -> SUBSET Ids]
    BY DEF IInv, TypeOK
  <2> QED
    BY <2>1, <2>2, <2>3, <2>4 DEF IInv, TypeOK
<1>7. PromiseIsRow'
  <2> SUFFICES ASSUME NEW q \in Owner, NEW i \in Ids, granted'[q][i] > now
               PROVE  /\ lease'[i] # None
                      /\ lease'[i].owner = q
                      /\ lease'[i].expires = granted'[q][i]
    BY DEF PromiseIsRow
  <2>1. now \in Nat
    BY DEF IInv, TypeOK
  <2>2. ~(q = o /\ i = id) /\ granted'[q][i] = granted[q][i]
    BY <1>2, <2>1
  <2>3. /\ lease[i] # None /\ lease[i].owner = q
        /\ lease[i].expires = granted[q][i]
    BY <2>2 DEF IInv, PromiseIsRow
  <2> QED
    BY <2>2, <2>3, <1>1
<1>8. ClockReadInPast'
  BY DEF IInv, ClockReadInPast
<1>9. RejectedIdUnused'
  <2> SUFFICES ASSUME NEW q \in Owner
               PROVE  /\ \A r \in Role : roleId'[q][r] \notin retired'[q]
                      /\ call[q].pc = "claim" => call[q].candidate \notin retired'[q]
    BY DEF RejectedIdUnused
  <2>1. CASE q = o
    <3>1. call[q].pc # "claim"
      BY <2>1 DEF Idle
    <3>2. ASSUME NEW r \in Role
          PROVE  roleId'[q][r] \notin retired'[q]
      <4>1. /\ roleId'[q][r] # id
            /\ roleId'[q][r] \in {roleId[q][r], None}
        BY <2>1, <1>3, <1>4 DEF ForgetId
      <4>2. None \notin retired[q] /\ roleId[q][r] \notin retired[q]
        BY NoneIsNoId, IdRange DEF IInv, TypeOK, RejectedIdUnused, Ids
      <4> QED
        BY <4>1, <4>2, <1>5
    <3> QED
      BY <3>1, <3>2
  <2>2. CASE q # o
    BY <2>2, <1>4, <1>5 DEF IInv, RejectedIdUnused
  <2> QED
    BY <2>1, <2>2
<1> QED
  BY <1>6, <1>7, <1>8, <1>9 DEF IInv

-----------------------------------------------------------------------------
(* Every step of the specification preserves the inductive invariant.      *)
LEMMA NextIInv == IInv /\ [Next]_vars => IInv'
<1> SUFFICES ASSUME IInv, [Next]_vars PROVE IInv'
  OBVIOUS
<1>1. CASE Tick
  <2>1. now \in Nat /\ now' = now + 1
    BY <1>1 DEF IInv, TypeOK, Tick
  <2>2. \A o \in Owner, id \in Ids : granted[o][id] \in Nat
    BY DEF IInv, TypeOK
  <2>3. \A o \in Owner : call[o].pc = "claim" => call[o].now_ms \in Nat
    BY CallShape DEF IInv
  <2>4. TypeOK' /\ RejectedIdUnused'
    BY <1>1, <2>1 DEF IInv, TypeOK, RejectedIdUnused, Tick
  <2>5. PromiseIsRow'
    BY <1>1, <2>1, <2>2 DEF IInv, PromiseIsRow, Tick
  <2>6. ClockReadInPast'
    BY <1>1, <2>1, <2>3 DEF IInv, ClockReadInPast, Tick
  <2> QED
    BY <2>4, <2>5, <2>6 DEF IInv
<1>2. ASSUME NEW o \in Owner, Step(o) PROVE IInv'
  <2>1. CASE \E id \in Ids : Release(o, id)
    BY <2>1, GiveBack DEF Release
  <2>2. CASE \E id \in Ids : MarkRejected(o, id)
    BY <2>2, GiveBack DEF MarkRejected
  <2>3. CASE Crash(o)
    BY <2>3 DEF Crash, IInv, TypeOK, PromiseIsRow, ClockReadInPast,
                RejectedIdUnused
  <2> QED
    BY <1>2, <2>1, <2>2, <2>3, ScanStep, ReadClockStep, ClaimGrantedStep,
       ClaimRefusedStep DEF Step
<1>3. CASE UNCHANGED vars
  BY <1>3 DEF vars, IInv, TypeOK, PromiseIsRow, ClockReadInPast,
              RejectedIdUnused
<1> QED
  BY <1>1, <1>2, <1>3 DEF Next

(* The inductive invariant holds in every reachable state.                 *)
THEOREM IInvHolds == Spec => []IInv
  BY InitIInv, NextIInv, PTL DEF Spec

(* Every variable of the lease table and of the managers keeps its type.   *)
THEOREM TypeCorrect == Spec => []TypeOK
  BY IInvHolds, PTL DEF IInv

(* Two processes never hold the same TWS client id at the same time,       *)
(* however stale the clock reading of a _try_claim transaction is.         *)
THEOREM LeaseExclusiveHolds == Spec => []LeaseExclusive
<1>1. IInv => LeaseExclusive
  BY DEF IInv, PromiseIsRow, LeaseExclusive, Holds
<1> QED
  BY <1>1, IInvHolds, PTL

(* A client id that mark_rejected retired is never used again.             *)
THEOREM RejectedIdUnusedHolds == Spec => []RejectedIdUnused
  BY IInvHolds, PTL DEF IInv

(* A step that moves an id to another owner finds the old lease expired:   *)
(* only a granted claim writes rows, and it writes over a purged one.      *)
LEMMA TakeoverStep ==
    ASSUME IInv, [Next]_vars, NEW id \in Ids,
           lease[id] # None, lease'[id] # None,
           lease'[id].owner # lease[id].owner
    PROVE  lease[id].expires <= now
<1>1. \/ \E o \in Owner : ClaimGranted(o) \/ ClaimRefused(o)
      \/ \E o \in Owner, i \in Ids : lease' = DropOwnRow(lease, o, i)
      \/ lease' = lease
  BY DEF Next, Step, vars, Tick, AcquireFromRole, AcquirePreferred, SkipRetired,
         ReadClock, Exhausted, Release, MarkRejected, Crash
<1>2. ASSUME NEW o \in Owner, ClaimGranted(o) \/ ClaimRefused(o)
      PROVE  lease[id].expires <= now
  <2>1. /\ call[o].now_ms \in Nat /\ call[o].now_ms <= now /\ now \in Nat
        /\ call[o].candidate \in Ids
    BY <1>2, CallShape
    DEF IInv, ClaimGranted, ClaimRefused, ClockReadInPast, TypeOK
  <2> DEFINE rows == Purge(lease, call[o].now_ms)
  <2>2. /\ rows \in [Ids -> Row \cup {None}]
        /\ \A i \in Ids : rows[i] # None => rows[i] = lease[i]
        /\ lease[id].expires > call[o].now_ms => rows[id] = lease[id]
    BY <2>1, PurgeKeeps DEF IInv
  <2>3. CASE lease[id].expires > call[o].now_ms
    <3>1. rows[id] = lease[id]
      BY <2>2, <2>3
    <3>2. CASE ClaimRefused(o)
      BY <3>1, <3>2 DEF ClaimRefused
    <3>3. CASE ClaimGranted(o)
      <4>1. lease'[id] = IF id = call[o].candidate
                         THEN [owner |-> o, role |-> call[o].role,
                               expires |-> call[o].now_ms + LeaseTtl]
                         ELSE rows[id]
        BY <3>3, <2>1, <2>2 DEF ClaimGranted
      <4>2. ~OwnedByOther(rows, o, call[o].candidate)
        BY <3>3 DEF ClaimGranted
      <4> QED
        BY <3>1, <4>1, <4>2 DEF OwnedByOther
    <3> QED
      BY <1>2, <3>2, <3>3
  <2>4. CASE ~(lease[id].expires > call[o].now_ms)
    <3>1. lease[id].expires \in Nat
      BY DEF IInv, TypeOK, Row
    <3> QED
      BY <2>1, <2>4, <3>1
  <2> QED
    BY <2>3, <2>4
<1>3. ASSUME NEW o \in Owner, NEW i \in Ids, lease' = DropOwnRow(lease, o, i)
      PROVE  lease'[id] \in {lease[id], None}
  BY <1>3 DEF DropOwnRow, IInv, TypeOK
<1> QED
  BY <1>1, <1>2, <1>3

(* A client id passes to another process only after the old lease expired. *)
THEOREM TakeoverAfterExpiryHolds == Spec => TakeoverAfterExpiry
<1>1. IInv /\ [Next]_vars =>
        [\A id \in Ids :
           /\ lease[id] # None
           /\ lease'[id] # None
           /\ lease'[id].owner # lease[id].owner
           => lease[id].expires <= now]_vars
  BY TakeoverStep
<1> QED
  BY <1>1, IInvHolds, PTL DEF Spec, TakeoverAfterExpiry

-----------------------------------------------------------------------------
(* The leases implement IdPromises.  That a renewal does not shorten a     *)
(* promise needs two facts about clock readings: no promise was given by a *)
(* clock ahead of the present one, and none that its owner has was given   *)
(* by a clock ahead of the one that it is about to claim with.             *)
PromisedByTheClock ==
    \A o \in Owner : \A id \in Ids : granted[o][id] <= now + LeaseTtl

RenewalExtends ==
    \A o \in Owner : call[o].pc = "claim" =>
        \A id \in Ids : granted[o][id] <= call[o].now_ms + LeaseTtl

Terms == PromisedByTheClock /\ RenewalExtends

LEMMA InitTerms == Init => Terms
  BY ClockConstants DEF Init, Terms, PromisedByTheClock, RenewalExtends, FirstInstant, Idle

(* Only reading the clock makes a call one that is about to claim.         *)
LEMMA CallsToClaim ==
    ASSUME IInv, NEW o \in Owner, Step(o), ~ReadClock(o)
    PROVE  \A q \in Owner : call'[q].pc = "claim" => call'[q] = call[q]
<1>1. \A c : call' = [call EXCEPT ![o] = c] =>
        \A q \in Owner : call'[q] = IF q = o THEN c ELSE call[q]
  BY DEF IInv, TypeOK
<1>2. \A r, n : Scan(r, n).pc # "claim"
  BY DEF Scan
<1>3. Idle.pc # "claim"
  BY DEF Idle
<1>4. CASE call' = call
  BY <1>4
<1>5. CASE \E r, n : call' = [call EXCEPT ![o] = Scan(r, n)]
  <2>1. PICK r, n : call' = [call EXCEPT ![o] = Scan(r, n)]
    BY <1>5
  <2> DEFINE c == Scan(r, n)
  <2>2. c.pc # "claim" /\ call' = [call EXCEPT ![o] = c]
    BY <1>2, <2>1
  <2> HIDE DEF c
  <2> QED
    BY <1>1, <2>2
<1>6. CASE call' = [call EXCEPT ![o] = Idle]
  <2>1. \A q \in Owner : call'[q] = IF q = o THEN Idle ELSE call[q]
    BY <1>1, <1>6
  <2> QED
    BY <1>3, <2>1
<1>7. \/ call' = call
      \/ \E r, n : call' = [call EXCEPT ![o] = Scan(r, n)]
      \/ call' = [call EXCEPT ![o] = Idle]
  BY DEF Step, AcquireFromRole, AcquirePreferred, SkipRetired, ClaimGranted,
         ClaimRefused, Exhausted, Release, MarkRejected, Crash
<1> QED
  BY <1>4, <1>5, <1>6, <1>7

(* What a step of a process does to the promises.                          *)
LEMMA PromisesChange ==
    ASSUME IInv, NEW o \in Owner, Step(o)
    PROVE  /\ now' = now
           /\ \/ granted' = granted
              \/ /\ ClaimGranted(o) /\ call[o].candidate \in Ids
                 /\ call[o].now_ms \in Nat /\ call[o].now_ms <= now
                 /\ \A q \in Owner, id \in Ids :
                      granted'[q][id] = IF q = o /\ id = call[o].candidate
                                        THEN call[o].now_ms + LeaseTtl ELSE granted[q][id]
              \/ \E i \in Ids : \A q \in Owner, id \in Ids :
                      granted'[q][id] = IF q = o /\ id = i THEN 0 ELSE granted[q][id]
<1>1. now' = now
  BY DEF Step, AcquireFromRole, AcquirePreferred, SkipRetired, ReadClock, ClaimGranted,
         ClaimRefused, Exhausted, Release, MarkRejected, Crash
<1>2. CASE ClaimGranted(o)
  <2>1. /\ call[o].candidate \in Ids /\ call[o].now_ms \in Nat /\ call[o].now_ms <= now
    BY <1>2, CallShape DEF IInv, ClaimGranted, ClockReadInPast
  <2>2. granted' = [granted EXCEPT ![o][call[o].candidate] = call[o].now_ms + LeaseTtl]
    BY <1>2 DEF ClaimGranted
  <2>3. \A q \in Owner, id \in Ids :
          granted'[q][id] = IF q = o /\ id = call[o].candidate
                            THEN call[o].now_ms + LeaseTtl ELSE granted[q][id]
    BY <2>1, <2>2 DEF IInv, TypeOK
  <2> QED
    BY <1>1, <1>2, <2>1, <2>3
<1>3. CASE \E i \in Ids : Release(o, i) \/ MarkRejected(o, i)
  <2>1. PICK i \in Ids : granted' = [granted EXCEPT ![o][i] = 0]
    BY <1>3 DEF Release, MarkRejected
  <2>2. \A q \in Owner, id \in Ids :
          granted'[q][id] = IF q = o /\ id = i THEN 0 ELSE granted[q][id]
    BY <2>1 DEF IInv, TypeOK
  <2> QED
    BY <1>1, <2>2
<1>4. CASE ~ClaimGranted(o) /\ ~(\E i \in Ids : Release(o, i) \/ MarkRejected(o, i))
  <2>1. granted' = granted
    BY <1>4 DEF Step, AcquireFromRole, AcquirePreferred, SkipRetired, ReadClock,
                ClaimRefused, Exhausted, Crash
  <2> QED
    BY <1>1, <2>1
<1> QED
  BY <1>2, <1>3, <1>4

LEMMA NextTerms == IInv /\ Terms /\ [Next]_vars => Terms'
<1> SUFFICES ASSUME IInv, Terms, [Next]_vars PROVE Terms'
  OBVIOUS
<1>1. /\ now \in Nat /\ LeaseTtl \in Nat
      /\ \A o \in Owner, id \in Ids : granted[o][id] \in Nat
      /\ \A o \in Owner, id \in Ids : granted[o][id] <= now + LeaseTtl
  BY ClockConstants DEF IInv, TypeOK, Terms, PromisedByTheClock
<1>2. \A o \in Owner : call[o].pc = "claim" => call[o].now_ms \in Nat
  BY CallShape DEF IInv
<1>3. CASE Tick
  BY <1>1, <1>3 DEF Tick, Terms, PromisedByTheClock, RenewalExtends
<1>4. ASSUME NEW o \in Owner, Step(o) PROVE Terms'
  <2>1. CASE ReadClock(o)
    <3> DEFINE c == [pc |-> "claim", role |-> call[o].role,
                     candidate |-> call[o].candidate, now_ms |-> now]
    <3>1. now' = now /\ granted' = granted /\ call' = [call EXCEPT ![o] = c]
      BY <2>1 DEF ReadClock
    <3>2. c.now_ms = now
      OBVIOUS
    <3> HIDE DEF c
    <3>3. \A q \in Owner : call'[q] = IF q = o THEN c ELSE call[q]
      BY <3>1 DEF IInv, TypeOK
    <3>4. RenewalExtends'
      BY <1>1, <3>1, <3>2, <3>3 DEF Terms, RenewalExtends
    <3> QED
      BY <1>1, <3>1, <3>4 DEF Terms, PromisedByTheClock
  <2>2. CASE ~ReadClock(o)
    <3>1. \A q \in Owner : call'[q].pc = "claim" => call'[q] = call[q]
      BY <1>4, <2>2, CallsToClaim
    <3>2. now' = now
      BY <1>4, PromisesChange
    <3>3. CASE granted' = granted
      BY <1>1, <3>1, <3>2, <3>3 DEF Terms, PromisedByTheClock, RenewalExtends
    <3>4. CASE ClaimGranted(o)
      <4>1. /\ call[o].candidate \in Ids
            /\ call[o].now_ms \in Nat /\ call[o].now_ms <= now
            /\ granted' = [granted EXCEPT ![o][call[o].candidate] = call[o].now_ms + LeaseTtl]
        BY <3>4, CallShape DEF IInv, ClaimGranted, ClockReadInPast
      <4>2. \A q \in Owner, id \in Ids :
              granted'[q][id] = IF q = o /\ id = call[o].candidate
                                THEN call[o].now_ms + LeaseTtl ELSE granted[q][id]
        BY <4>1 DEF IInv, TypeOK
      <4>3. PromisedByTheClock'
        BY <1>1, <3>2, <4>1, <4>2 DEF PromisedByTheClock
      <4>4. call'[o].pc # "claim"
        BY <3>4 DEF ClaimGranted, IInv, TypeOK, Idle
      <4>5. RenewalExtends'
        BY <1>1, <3>1, <4>2, <4>4 DEF Terms, RenewalExtends
      <4> QED
        BY <4>3, <4>5 DEF Terms
    <3>5. ASSUME NEW i \in Ids,
                 \A q \in Owner, id \in Ids :
                     granted'[q][id] = IF q = o /\ id = i THEN 0 ELSE granted[q][id]
          PROVE  Terms'
      <4>1. \A q \in Owner, id \in Ids : granted'[q][id] <= granted[q][id]
                                        /\ granted'[q][id] \in Nat
        BY <1>1, <3>5
      <4>2. PromisedByTheClock'
        BY <1>1, <3>2, <4>1 DEF PromisedByTheClock
      <4>3. RenewalExtends'
        BY <1>1, <1>2, <3>1, <4>1 DEF Terms, RenewalExtends
      <4> QED
        BY <4>2, <4>3 DEF Terms
    <3> QED
      BY <1>4, <3>3, <3>4, <3>5, PromisesChange
  <2> QED
    BY <2>1, <2>2
<1>5. CASE UNCHANGED vars
  BY <1>5 DEF vars, Terms, PromisedByTheClock, RenewalExtends
<1> QED
  BY <1>3, <1>4, <1>5 DEF Next

(* The promises of an id that have not run out, as IdPromises has them.    *)
Promised(id) ==
    {[owner |-> o, until |-> granted[o][id]] : o \in {q \in Owner : Holds(q, id)}}

(* They are its row's, so there is one at most.                            *)
LEMMA HolderIsRow ==
    ASSUME IInv, NEW id \in Ids, NEW o \in Owner, Holds(o, id)
    PROVE  /\ lease[id] # None /\ lease[id].owner = o
           /\ lease[id].expires = granted[o][id] /\ granted[o][id] \in Nat
           /\ Promised(id) = {[owner |-> o, until |-> granted[o][id]]}
<1>1. \A q \in Owner : Holds(q, id) =>
        lease[id] # None /\ lease[id].owner = q /\ lease[id].expires = granted[q][id]
  BY DEF IInv, PromiseIsRow, Holds
<1>2. {q \in Owner : Holds(q, id)} = {o}
  BY <1>1
<1>3. Promised(id) = {[owner |-> q, until |-> granted[q][id]] : q \in {o}}
  BY <1>2 DEF Promised
<1>4. granted[o][id] \in Nat
  BY DEF IInv, TypeOK
<1> QED
  BY <1>1, <1>3, <1>4

LEMMA NobodyHolds ==
    ASSUME NEW id, \A o \in Owner : ~Holds(o, id)
    PROVE  Promised(id) = {}
  BY DEF Promised

(* An id of which no promise changes. *)
LEMMA PromisedStays ==
    ASSUME NEW id \in Ids, now' = now,
           \A q \in Owner : granted'[q][id] = granted[q][id]
    PROVE  Promised(id)' = Promised(id)
<1>1. \A q \in Owner : Holds(q, id)' <=> Holds(q, id)
  BY DEF Holds
<1>2. {q \in Owner : Holds(q, id)}' = {q \in Owner : Holds(q, id)}
  BY <1>1
<1> QED
  BY <1>2 DEF Promised

(* Time: the promises up to the new instant run out. *)
LEMMA TickPasses ==
    ASSUME IInv, Tick
    PROVE  Promises!Pass
<1>1. now' = now + 1 /\ now \in Nat /\ granted' = granted
  BY DEF Tick, IInv, TypeOK
<1>2. ASSUME NEW id \in Ids
      PROVE  Promised(id)' = {p \in Promised(id) : p.until > now'}
  <2>1. \A q \in Owner : granted[q][id] \in Nat
    BY DEF IInv, TypeOK
  <2>2. \A q \in Owner : Holds(q, id)' <=> Holds(q, id) /\ granted[q][id] > now'
    BY <1>1, <2>1 DEF Holds
  <2>3. Promised(id)' = {[owner |-> o, until |-> granted[o][id]] :
                            o \in {q \in Owner : Holds(q, id) /\ granted[q][id] > now'}}
    BY <1>1, <2>2 DEF Promised
  <2> QED
    BY <2>3 DEF Promised
<1> QED
  BY <1>1, <1>2 DEF Promises!Pass, Promised

(* A granted claim is taken or renewed, or ran out before it was granted.  *)
LEMMA ClaimTakes ==
    ASSUME IInv, Terms, NEW o \in Owner, ClaimGranted(o),
           NEW c \in Ids, c = call[o].candidate, NEW t \in Nat, t = call[o].now_ms
    PROVE  [Promises!Next]_(Promises!vars)
<1> DEFINE x == t + LeaseTtl
           held == [id \in Ids |-> Promised(id)]
<1>1. t <= now /\ now \in Nat /\ LeaseTtl \in Nat /\ now' = now
  BY ClockConstants DEF IInv, TypeOK, ClaimGranted, ClockReadInPast
<1>2. \A q \in Owner, id \in Ids :
        granted'[q][id] = IF q = o /\ id = c THEN x ELSE granted[q][id]
  <2>1. granted' = [granted EXCEPT ![o][c] = x]
    BY DEF ClaimGranted
  <2> HIDE DEF x
  <2> QED
    BY <1>1, <2>1 DEF IInv, TypeOK
<1>3. granted[o][c] <= x /\ granted[o][c] \in Nat
  BY <1>1 DEF ClaimGranted, Terms, RenewalExtends, IInv, TypeOK
<1>4. \A q \in Owner : Holds(q, c) => q = o
  <2> SUFFICES ASSUME NEW q \in Owner, Holds(q, c) PROVE q = o
    OBVIOUS
  <2>1. /\ lease[c] # None /\ lease[c].owner = q /\ lease[c].expires = granted[q][c]
        /\ granted[q][c] \in Nat
    BY <1>1, HolderIsRow
  <2>2. lease[c].expires > t
    BY <1>1, <2>1 DEF Holds
  <2>3. Purge(lease, t)[c] = lease[c]
    BY <1>1, <2>1, <2>2, PurgeKeeps DEF IInv
  <2>4. ~OwnedByOther(Purge(lease, t), o, c)
    BY DEF ClaimGranted
  <2> QED
    BY <2>1, <2>3, <2>4 DEF OwnedByOther
<1>5. \A id \in Ids : id # c => Promised(id)' = Promised(id)
  BY <1>1, <1>2, PromisedStays
<1>6. \A p \in Promised(c) : p.owner = o /\ p.until <= x
  BY <1>3, <1>4 DEF Promised
<1>7. {q \in Owner : Holds(q, c)}' = IF x > now THEN {o} ELSE {}
  <2>1. \A q \in Owner : Holds(q, c)' <=> q = o /\ x > now
    BY <1>1, <1>2, <1>4 DEF Holds
  <2> HIDE DEF x
  <2> QED
    BY <2>1
<1>8. CASE x > now
  <2>1. Promised(c)' = {[owner |-> o, until |-> x]}
    <3>1. Promised(c)' = {[owner |-> q, until |-> granted'[q][c]] : q \in {o}}
      BY <1>7, <1>8 DEF Promised
    <3> QED
      BY <1>1, <1>2, <3>1
  <2>2. x \in now + 1 .. now + LeaseTtl
    BY <1>1, <1>8
  <2> HIDE DEF x
  <2>3. held' = [held EXCEPT ![c] = {[owner |-> o, until |-> x]}]
    BY <1>1, <1>5, <2>1
  <2>4. \A p \in held[c] : p.owner = o /\ p.until <= x
    BY <1>1, <1>6
  <2>5. Promises!Take(o, c)
    BY <1>1, <2>2, <2>3, <2>4 DEF Promises!Take, Promised
  <2> QED
    BY <1>1, <2>5 DEF Promises!Next
<1>9. CASE ~(x > now)
  <2>1. Promised(c)' = {}
    BY <1>7, <1>9 DEF Promised
  <2>2. \A q \in Owner : ~Holds(q, c)
    BY <1>1, <1>3, <1>4, <1>9 DEF Holds
  <2>3. Promised(c) = {}
    BY <2>2, NobodyHolds
  <2> HIDE DEF x
  <2>4. \A id \in Ids : Promised(id)' = Promised(id)
    BY <1>5, <2>1, <2>3
  <2>5. held' = held
    BY <2>4
  <2> QED
    BY <1>1, <2>5 DEF Promises!vars, Promised
<1> QED
  BY <1>8, <1>9

(* Giving an id back: its owner gives it, and whoever else had it before   *)
(* touches nothing.                                                        *)
LEMMA GiveBackGives ==
    ASSUME IInv, NEW o \in Owner, NEW i \in Ids, now' = now,
           \A q \in Owner, id \in Ids :
               granted'[q][id] = IF q = o /\ id = i THEN 0 ELSE granted[q][id]
    PROVE  [Promises!Next]_(Promises!vars)
<1> DEFINE held == [id \in Ids |-> Promised(id)]
<1>1. now \in Nat
  BY DEF IInv, TypeOK
<1>2. \A id \in Ids : id # i => Promised(id)' = Promised(id)
  BY PromisedStays
<1>3. CASE Holds(o, i)
  <2>1. \A q \in Owner : Holds(q, i) => q = o
    BY <1>3, HolderIsRow
  <2>2. \A q \in Owner : ~Holds(q, i)'
    BY <1>1, <2>1 DEF Holds
  <2>3. Promised(i)' = {}
    BY <2>2 DEF Promised
  <2>4. held' = [held EXCEPT ![i] = {}]
    BY <1>2, <2>3
  <2>5. \A p \in held[i] : p.owner = o
    BY <2>1 DEF Promised
  <2>6. Promises!Give(o, i)
    BY <2>4, <2>5 DEF Promises!Give, Promised
  <2> QED
    BY <2>6 DEF Promises!Next
<1>4. CASE ~Holds(o, i)
  <2>1. \A q \in Owner : Holds(q, i)' <=> Holds(q, i)
    BY <1>1, <1>4 DEF Holds
  <2>2. {q \in Owner : Holds(q, i)}' = {q \in Owner : Holds(q, i)}
    BY <2>1
  <2>3. \A q \in {q \in Owner : Holds(q, i)} : granted'[q][i] = granted[q][i]
    BY <1>4
  <2>4. Promised(i)' = Promised(i)
    BY <2>2, <2>3 DEF Promised
  <2>5. held' = held
    BY <1>2, <2>4
  <2> QED
    BY <2>5 DEF Promises!vars, Promised
<1> QED
  BY <1>3, <1>4

LEMMA StepIsPromisesStep ==
    ASSUME IInv, Terms, [Next]_vars
    PROVE  [Promises!Next]_(Promises!vars)
<1>1. CASE Tick
  BY <1>1, TickPasses DEF Promises!Next
<1>2. now' = now /\ granted' = granted => [Promises!Next]_(Promises!vars)
  <2> SUFFICES ASSUME now' = now, granted' = granted PROVE UNCHANGED Promises!vars
    OBVIOUS
  <2>1. \A id \in Ids : Promised(id)' = Promised(id)
    BY PromisedStays
  <2>2. [id \in Ids |-> Promised(id)]' = [id \in Ids |-> Promised(id)]
    BY <2>1
  <2> QED
    BY <2>2 DEF Promises!vars, Promised
<1>3. ASSUME NEW o \in Owner, Step(o) PROVE [Promises!Next]_(Promises!vars)
  BY <1>2, <1>3, PromisesChange, ClaimTakes, GiveBackGives
<1>4. CASE UNCHANGED vars
  BY <1>2, <1>4 DEF vars
<1> QED
  BY <1>1, <1>3, <1>4 DEF Next

(* The table and the managers implement IdPromises: while a promise of a   *)
(* client id lasts, no other owner is given the id, nobody but its owner   *)
(* gives it back, and a renewal does not shorten it, for any interleaving  *)
(* of clock readings, transactions, releases and crashes.                  *)
THEOREM Refinement == Spec => PromisesAreKept
<1>1. Init => Promises!Init
  <2> SUFFICES ASSUME Init PROVE Promises!Init
    OBVIOUS
  <2>1. now \in Nat
    BY DEF Init, FirstInstant
  <2>2. \A id \in Ids : Promised(id) = {}
    <3>1. \A o \in Owner, id \in Ids : ~Holds(o, id)
      BY DEF Init, FirstInstant, Holds
    <3> QED
      BY <3>1, NobodyHolds
  <2>3. [id \in Ids |-> Promised(id)] = [id \in Ids |-> {}]
    BY <2>2
  <2> QED
    BY <2>1, <2>3 DEF Promises!Init, Promised
<1>2. IInv /\ Terms /\ [Next]_vars => [Promises!Next]_(Promises!vars)
  BY StepIsPromisesStep
<1>3. Spec => []Terms
  BY InitTerms, NextTerms, IInvHolds, PTL DEF Spec
<1> QED
  BY <1>1, <1>2, <1>3, IInvHolds, PTL DEF Spec, PromisesAreKept, Promises!Spec

(* What a process may conclude from it without knowing the table: two      *)
(* promises of one client id that have not run out are the same promise.   *)
THEOREM PromisedToOne == PromisesAreKept => []Promises!Exclusive
<1>1. Promises!Init => Promises!Exclusive
  BY DEF Promises!Init, Promises!Exclusive
<1>2. Promises!Exclusive /\ [Promises!Next]_(Promises!vars) => Promises!Exclusive'
  <2> SUFFICES ASSUME Promises!Exclusive, [Promises!Next]_(Promises!vars)
               PROVE  Promises!Exclusive'
    OBVIOUS
  <2>1. CASE Promises!Pass
    BY <2>1 DEF Promises!Pass, Promises!Exclusive
  <2>2. ASSUME NEW o \in Owner, NEW id \in Ids, Promises!Take(o, id)
        PROVE  Promises!Exclusive'
    BY <2>2 DEF Promises!Take, Promises!Exclusive
  <2>3. ASSUME NEW o \in Owner, NEW id \in Ids, Promises!Give(o, id)
        PROVE  Promises!Exclusive'
    BY <2>3 DEF Promises!Give, Promises!Exclusive
  <2>4. CASE UNCHANGED Promises!vars
    BY <2>4 DEF Promises!vars, Promises!Exclusive
  <2> QED
    BY <2>1, <2>2, <2>3, <2>4 DEF Promises!Next
<1> QED
  BY <1>1, <1>2, PTL DEF PromisesAreKept, Promises!Spec
=============================================================================
