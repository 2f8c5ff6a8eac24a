------------------------ MODULE ConnectionPoolProofs ------------------------
(***************************************************************************)
(* Theorems about ConnectionPool, for every number of handlers, every      *)
(* range of client ids and every number of faults: the status the pool     *)
(* reports is true, a role whose connection dropped has its reconnect      *)
(* task, and no attempt leaks a connection or a lease.                     *)
(***************************************************************************)
EXTENDS ConnectionPool, SequenceTheorems, WellFoundedInduction, TLAPS

(* Who is in the middle of an attempt, and whose attempt it is.            *)
TaskAgrees ==
    /\ \A q \in Request : req[q] = "attempt" => attempt # None /\ attempt.task = q
    /\ rec = "attempt" => /\ attempt # None /\ attempt.task = Reconnect
                          /\ attempt.phase # "cancelled"
    /\ attempt # None =>
         \/ /\ attempt.task \in Request /\ req[attempt.task] = "attempt"
            /\ attempt.phase # "cancelled"
         \/ /\ attempt.task = Reconnect
            /\ rec = "attempt" <=> attempt.phase # "cancelled"

(* The attempt is made on the bound id, and its phase shows in the pool's  *)
(* books; only a cancelled one outlives disconnect_all().                  *)
PhaseShows ==
    attempt # None /\ ~closed =>
        /\ attempt.id = bound
        /\ CASE attempt.phase \in {"handshake", "noaddr"} ->
                    client[bound] = "pending" /\ st[bound] = "connecting"
             [] attempt.phase = "settle" ->
                    client[bound] = "up" /\ st[bound] = "connecting"
             [] OTHER -> client[bound] = "down" /\ st[bound] = "disconnected"

(* CONNECTED is set with the connection up and taken back when it drops.   *)
StateIsTrue ==
    \A id \in Ids : id = bound =>
        /\ st[id] = "connected" => client[id] = "up"
        /\ client[id] = "up" => st[id] \in {"connecting", "connected"}

(* DISCONNECTED is set together with a new reconnect task, which stays     *)
(* registered until the role is connected or no longer bound.              *)
DroppedHasTask == bound # None /\ st[bound] = "disconnected" => rec # None

(* The id that is bound was not rejected; nothing else is held.            *)
BoundIsAll ==
    /\ bound # None => bound \notin retired
    /\ \A id \in Ids : client[id] # None => id = bound
    /\ own \subseteq {bound}
    /\ closed => bound = None

(* The types of what a task of the pool changes while it runs, and of the  *)
(* rest.                                                                   *)
BookTypes ==
    /\ bound \in Ids \cup {None}
    /\ mapped \subseteq Ids
    /\ client \in [Ids -> {None, "pending", "up", "down"}]
    /\ st \in [Ids -> {"disconnected", "connecting", "connected", "error"}]
    /\ attempt \in Attempt \cup {None}
    /\ req \in [Request -> {"new", "idle", "probe", "wait", "attempt"}]
    /\ rec \in {None, "sleep", "probe", "wait", "attempt"}
    /\ own \subseteq Ids /\ other \subseteq Ids /\ own \cap other = {}
    /\ retired \subseteq Ids
FrameTypes ==
    /\ addr \in BOOLEAN /\ twsUp \in BOOLEAN /\ closed \in BOOLEAN
    /\ waiters \in Seq(Task)
    /\ twsBusy \subseteq Ids
    /\ faults \in 0 .. MaxFaults

Books == BookTypes /\ TaskAgrees /\ PhaseShows /\ StateIsTrue /\ DroppedHasTask /\ BoundIsAll
IInv == FrameTypes /\ Books
-----------------------------------------------------------------------------
(* The operators of the model. *)
LEMMA LeastOfNumbers ==
    ASSUME NEW S \in SUBSET Nat, S # {}
    PROVE  \E n \in S : \A k \in S : n <= k
<1> DEFINE Less == {ss \in Nat \X Nat : ss[1] < ss[2]}
<1>1. IsWellFoundedOn(Less, Nat)
  BY NatLessThanWellFounded DEF OpToRel
<1>2. PICK n \in S : \A k \in S : ~ (<<k, n>> \in Less)
  <2> HIDE DEF Less
  <2> QED
    BY <1>1, WFMin
<1>3. ASSUME NEW k \in S PROVE n <= k
  <2>1. k \in Nat /\ n \in Nat
    OBVIOUS
  <2>2. <<k, n>> \notin Less
    BY <1>2
  <2>3. k < n => <<k, n>> \in Less
    BY <2>1
  <2> QED
    BY <2>1, <2>2, <2>3
<1> QED
  BY <1>3

LEMMA FreeIsFree ==
    ASSUME NEW n \in Nat, NEW out, NEW foreign
    PROVE  LET id == FreeFrom(n, out, foreign)
           IN  id # None =>
                 /\ id \in Ids /\ id \notin out /\ id \notin foreign
                 /\ n \in Ids /\ n \notin out /\ n \notin foreign => id = n
<1> DEFINE free == {id \in Ids : id >= n /\ id \notin out /\ id \notin foreign}
<1>1. free \subseteq Nat
  BY IdsAreNumbers DEF Ids
<1>2. CASE free = {}
  BY <1>2 DEF FreeFrom
<1>3. CASE free # {}
  <2>1. PICK least \in free : \A k \in free : least <= k
    BY <1>1, <1>3, LeastOfNumbers
  <2> DEFINE id == CHOOSE id \in free : \A other_id \in free : id <= other_id
  <2>2. id \in free /\ \A k \in free : id <= k
    BY <2>1
  <2>3. FreeFrom(n, out, foreign) = id
    BY <1>3 DEF FreeFrom
  <2>4. n \in free => id = n
    BY <2>2, <1>1
  <2>5. n \in Ids /\ n \notin out /\ n \notin foreign => n \in free
    BY IdsAreNumbers DEF Ids
  <2> QED
    BY <2>2, <2>3, <2>4, <2>5
<1> QED
  BY <1>2, <1>3

LEMMA ForgottenIsQueue ==
    ASSUME waiters \in Seq(Task), NEW t
    PROVE  ForgetWaiter(t) \in Seq(Task)
<1>1. CASE ~ \E i \in DOMAIN waiters : waiters[i] = t
  BY <1>1 DEF ForgetWaiter
<1>2. CASE \E i \in DOMAIN waiters : waiters[i] = t
  <2> DEFINE i == CHOOSE i \in DOMAIN waiters : waiters[i] = t
  <2>1. i \in 1 .. Len(waiters) /\ Len(waiters) \in Nat
    BY <1>2, LenProperties
  <2>2. \A j \in 1 .. Len(waiters) : waiters[j] \in Task
    BY ElementOfSeq
  <2> HIDE DEF i
  <2>3. SubSeq(waiters, 1, i - 1) \in Seq(Task)
    <3>1. \A j \in 1 .. i - 1 : waiters[j] \in Task
      BY <2>1, <2>2
    <3> QED
      BY <2>1, <3>1, SubSeqProperties
  <2>4. SubSeq(waiters, i + 1, Len(waiters)) \in Seq(Task)
    <3>1. \A j \in i + 1 .. Len(waiters) : waiters[j] \in Task
      BY <2>1, <2>2
    <3> QED
      BY <2>1, <3>1, SubSeqProperties
  <2>5. RemoveAt(waiters, i) \in Seq(Task)
    BY <2>3, <2>4, ConcatProperties DEF RemoveAt
  <2> QED
    BY <1>2, <2>5 DEF ForgetWaiter, i
<1> QED
  BY <1>1, <1>2

LEMMA NoneIsNoId == None \notin Ids
BY NoneIsNew, IdsAreNumbers DEF Ids

-----------------------------------------------------------------------------
(* A task that may start an attempt: nobody else is in the middle of one.  *)
MayAttempt(t) ==
    /\ \A q \in Request : req[q] = "attempt" => q = t
    /\ rec = "attempt" => t = Reconnect

(* A new attempt on id, when nothing else is held, leaves the books right. *)
LEMMA LaunchKeeps ==
    ASSUME BookTypes, NEW t \in Task, NEW id \in Ids, NEW known \in BOOLEAN,
           NEW clients \in [Ids -> {None, "pending", "up", "down"}],
           NEW states \in [Ids -> {"disconnected", "connecting", "connected", "error"}],
           NEW maps \in SUBSET Ids, NEW leased,
           Launch(t, id, known, clients, states, maps, leased),
           MayAttempt(t), leased \subseteq {id}, id \notin other,
           \A i \in Ids : clients[i] = None,
           retired' \subseteq Ids, id \notin retired',
           ~closed, UNCHANGED <<closed, other>>
    PROVE  Books'
<1>1. BookTypes'
  BY DEF Launch, Stands, BookTypes, Attempt, Phase, Task
<1>2. TaskAgrees'
  <2>1. attempt' # None
    BY NoneIsNew DEF Launch, Attempt, Phase
  <2>2. attempt'.task = t /\ attempt'.phase # "cancelled"
    BY DEF Launch
  <2>3. CASE t = Reconnect
    BY <2>1, <2>2, <2>3, ReconnectIsNoRequest DEF Launch, Stands, TaskAgrees, MayAttempt
  <2>4. CASE t # Reconnect
    BY <2>1, <2>2, <2>4, ReconnectIsNoRequest DEF Launch, Stands, TaskAgrees, MayAttempt, Task, BookTypes
  <2> QED
    BY <2>3, <2>4
<1>3. PhaseShows'
  BY DEF Launch, PhaseShows, BookTypes
<1>4. StateIsTrue'
  BY DEF Launch, StateIsTrue, BookTypes
<1>5. DroppedHasTask'
  BY DEF Launch, DroppedHasTask, BookTypes
<1>6. BoundIsAll'
  BY DEF Launch, BoundIsAll, BookTypes
<1> QED
  BY <1>1, <1>2, <1>3, <1>4, <1>5, <1>6 DEF Books

(* The IB object and the lease of the bound id are all there is, so what   *)
(* _cleanup_client leaves is empty, and the lease, if it still runs, is    *)
(* the one that is acquired again.                                         *)
LEMMA EnterKeeps ==
    ASSUME Books, NEW t \in Task, NEW known \in BOOLEAN, Enter(t, known),
           attempt = None, ~closed, UNCHANGED <<closed, other>>
    PROVE  Books'
<1>1. MayAttempt(t)
  BY DEF Books, TaskAgrees, MayAttempt
<1>2. CASE HasLive
  <2>0. /\ Returned(t) /\ attempt' = None
        /\ UNCHANGED <<bound, mapped, client, st, own, retired>>
    BY <1>2 DEF Enter
  <2>1. BookTypes'
    BY <2>0 DEF Books, BookTypes, Returned, Stands, Task
  <2>2. TaskAgrees'
    BY <2>0, NoneIsNew DEF Books, BookTypes, TaskAgrees, Returned, Stands, Task
  <2>3. DroppedHasTask'
    <3>1. st[bound] # "disconnected"
      BY <1>2, NoneIsNoId DEF HasLive, Books, BookTypes, StateIsTrue
    <3> QED
      BY <2>0, <3>1 DEF DroppedHasTask
  <2> QED
    BY <2>0, <2>1, <2>2, <2>3 DEF Books, PhaseShows, StateIsTrue, BoundIsAll
<1>3. CASE ~HasLive /\ Acquirable = None
  <2>0. /\ client' = Cleanup(bound) /\ Raised(t, bound) /\ attempt' = None
        /\ UNCHANGED <<bound, mapped, st, own, retired>>
    BY <1>3 DEF Enter
  <2>1. BookTypes'
    BY <2>0 DEF Books, BookTypes, Raised, Stands, Task, Cleanup
  <2>2. TaskAgrees'
    BY <2>0, NoneIsNew DEF Books, BookTypes, TaskAgrees, Raised, Stands, Task
  <2>3. StateIsTrue'
    BY <1>3, <2>0, NoneIsNoId, NoneIsNew DEF HasLive, Books, BookTypes, StateIsTrue, Cleanup
  <2>4. DroppedHasTask'
    BY <2>0, NoneIsNew DEF Books, DroppedHasTask, Raised, Stands
  <2>5. BoundIsAll'
    BY <2>0, NoneIsNoId DEF Books, BookTypes, BoundIsAll, Cleanup
  <2> QED
    BY <2>0, <2>1, <2>2, <2>3, <2>4, <2>5 DEF Books, PhaseShows
<1>4. CASE ~HasLive /\ Acquirable # None
  <2> DEFINE id == Acquirable
  <2>0. /\ Launch(t, id, known, Cleanup(bound), st, mapped, own)
        /\ UNCHANGED retired
    BY <1>4 DEF Enter
  <2>1. /\ id \in Ids /\ id \notin retired /\ id \notin other
        /\ bound \in Ids /\ bound \notin retired /\ bound \notin other => id = bound
    <3>1. (IF bound = None THEN StartId ELSE bound) \in Nat
      BY IdsAreNumbers DEF Books, BookTypes, Ids
    <3> QED
      BY <1>4, <3>1, FreeIsFree, NoneIsNoId DEF Acquirable
  <2>2. own \subseteq {id}
    BY <2>1, NoneIsNoId DEF Books, BookTypes, BoundIsAll
  <2>3. Cleanup(bound) \in [Ids -> {None, "pending", "up", "down"}]
    BY DEF Cleanup, Books, BookTypes
  <2>4. \A i \in Ids : Cleanup(bound)[i] = None
    BY NoneIsNoId DEF Cleanup, Books, BookTypes, BoundIsAll
  <2>5. BookTypes /\ mapped \in SUBSET Ids /\ retired' \subseteq Ids /\ id \notin retired'
        /\ st \in [Ids -> {"disconnected", "connecting", "connected", "error"}]
    BY <2>0, <2>1 DEF Books, BookTypes
  <2> HIDE DEF id
  <2> QED
    BY <1>1, <2>0, <2>1, <2>2, <2>3, <2>4, <2>5, LaunchKeeps
<1> QED
  BY <1>2, <1>3, <1>4

LEMMA EnterOrWaitKeeps ==
    ASSUME Books, NEW t \in Task, NEW known \in BOOLEAN, EnterOrWait(t, known),
           waiters \in Seq(Task), ~closed, UNCHANGED <<closed, other>>,
           t = Reconnect => rec # "attempt", t # Reconnect => req[t] # "attempt"
    PROVE  Books' /\ waiters' \in Seq(Task)
<1>1. CASE LockFree /\ Enter(t, known) /\ UNCHANGED waiters
  BY <1>1, EnterKeeps DEF LockFree
<1>2. CASE /\ waiters' = Append(waiters, t) /\ Stands(t, "wait")
           /\ UNCHANGED <<attempt, bound, mapped, client, st, own, retired>>
  <2>1. BookTypes'
    BY <1>2 DEF Books, BookTypes, Stands, Task
  <2>2. TaskAgrees'
    BY <1>2, NoneIsNew DEF Books, BookTypes, TaskAgrees, Stands, Task
  <2>3. DroppedHasTask'
    BY <1>2, NoneIsNew DEF Books, DroppedHasTask, Stands
  <2>4. waiters' \in Seq(Task)
    BY <1>2, AppendProperties
  <2> QED
    BY <1>2, <2>1, <2>2, <2>3, <2>4 DEF Books, PhaseShows, StateIsTrue, BoundIsAll
<1> QED
  BY <1>1, <1>2 DEF EnterOrWait

-----------------------------------------------------------------------------
LEMMA InitIInv == Init => IInv
<1> SUFFICES ASSUME Init PROVE IInv
  OBVIOUS
<1>1. FrameTypes
  <2>1. waiters \in Seq(Task)
    BY EmptySeq DEF Init
  <2>2. faults \in 0 .. MaxFaults
    BY FaultsAreCounted DEF Init
  <2>3. addr \in BOOLEAN /\ twsUp \in BOOLEAN /\ closed \in BOOLEAN /\ twsBusy \subseteq Ids
    BY DEF Init
  <2> QED
    BY <2>1, <2>2, <2>3 DEF FrameTypes
<1>2. BookTypes
  BY DEF Init, BookTypes
<1>3. TaskAgrees /\ PhaseShows
  BY NoneIsNew DEF Init, TaskAgrees, PhaseShows
<1>4. StateIsTrue /\ DroppedHasTask /\ BoundIsAll
  BY NoneIsNoId DEF Init, StateIsTrue, DroppedHasTask, BoundIsAll
<1> QED
  BY <1>1, <1>2, <1>3, <1>4 DEF IInv, Books

(* Nothing of the books changes but where a task stands, and it was and is *)
(* not in an attempt.                                                      *)
LEMMA StandKeeps ==
    ASSUME Books, UNCHANGED <<bound, mapped, client, st, attempt, own, other, retired, closed>>,
           \/ /\ UNCHANGED rec
              /\ \E q \in Request, pc \in {"idle", "probe"} :
                   req[q] # "attempt" /\ req' = [req EXCEPT ![q] = pc]
           \/ /\ UNCHANGED req
              /\ rec # "attempt" /\ rec' \in {None, "sleep", "probe"}
              /\ rec' = None => rec = None \/ bound = None
    PROVE  Books'
<1>1. BookTypes'
  BY DEF Books, BookTypes
<1>2. TaskAgrees'
  BY NoneIsNew DEF Books, BookTypes, TaskAgrees
<1>3. DroppedHasTask'
  BY NoneIsNew DEF Books, DroppedHasTask
<1> QED
  BY <1>1, <1>2, <1>3 DEF Books, PhaseShows, StateIsTrue, BoundIsAll

(* An attempt failed, and its task, a new reconnect task in its place, or  *)
(* both go on.                                                             *)
LEMMA FailedKeeps ==
    ASSUME Books, ~closed, attempt # None, Failed,
           attempt.phase \in {"handshake", "noaddr"},
           \/ Raised(attempt.task, bound)
           \/ /\ rec' = "sleep"
              /\ req' = IF attempt.task = Reconnect THEN req
                        ELSE [req EXCEPT ![attempt.task] = "idle"]
    PROVE  Books'
<1> DEFINE id == attempt.id
<1>0. /\ st' = [st EXCEPT ![id] = "error"] /\ client' = Cleanup(id) /\ attempt' = None
      /\ UNCHANGED <<bound, mapped, own, other, retired, closed>>
  BY DEF Failed, idVars
<1>1. id = bound /\ id \in Ids /\ attempt.task \in Task
  BY DEF Books, BookTypes, PhaseShows, Attempt
<1> HIDE DEF id
<1>2. BookTypes'
  BY <1>0, <1>1 DEF Books, BookTypes, Raised, Stands, Task, Cleanup
<1>3. TaskAgrees'
  BY <1>0, <1>1, NoneIsNew, ReconnectIsNoRequest DEF Books, BookTypes, TaskAgrees, Raised, Stands, Task
<1>4. StateIsTrue'
  BY <1>0, <1>1, NoneIsNew, NoneIsNoId DEF Books, BookTypes, StateIsTrue, Cleanup
<1>5. DroppedHasTask'
  BY <1>0, <1>1 DEF Books, BookTypes, DroppedHasTask
<1>6. BoundIsAll'
  BY <1>0, <1>1, NoneIsNoId DEF Books, BookTypes, BoundIsAll, Cleanup
<1> QED
  BY <1>0, <1>2, <1>3, <1>4, <1>5, <1>6 DEF Books, PhaseShows

-----------------------------------------------------------------------------
LEMMA StepIInv == IInv /\ [Next]_vars => IInv'
<1> SUFFICES ASSUME IInv, [Next]_vars PROVE IInv'
  OBVIOUS
<1> USE DEF idVars, lockVars, twsVars
<1>0. Books /\ waiters \in Seq(Task)
  BY DEF IInv, FrameTypes
<1>1. ASSUME ~closed, GrantLock PROVE IInv'
  <2>1. Head(waiters) \in Task /\ waiters' \in Seq(Task)
    BY <1>0, <1>1, HeadTailProperties DEF GrantLock
  <2>2. Books'
    BY <1>0, <1>1, <2>1, EnterKeeps DEF GrantLock, IInv, FrameTypes
  <2> QED
    BY <1>1, <2>1, <2>2 DEF IInv, FrameTypes, GrantLock
<1>2. ASSUME ~closed, NEW q \in Request, RequestStart(q) PROVE IInv'
  <2>1. Books' /\ waiters' \in Seq(Task)
    BY <1>0, <1>2, EnterOrWaitKeeps, ReconnectIsNoRequest DEF RequestStart, MayStart, Task
  <2> QED
    BY <1>2, <2>1 DEF IInv, FrameTypes, RequestStart
<1>3. ASSUME ~closed, NEW q \in Request, RequestProbe(q) PROVE IInv'
  <2>1. Books'
    BY <1>0, <1>3, StandKeeps DEF RequestProbe, MayStart
  <2> QED
    BY <1>3, <2>1 DEF IInv, FrameTypes, RequestProbe
<1>4. ASSUME ~closed, NEW q \in Request, RequestProbed(q) PROVE IInv'
  <2>1. Books' /\ waiters' \in Seq(Task)
    BY <1>0, <1>4, EnterOrWaitKeeps, ReconnectIsNoRequest DEF RequestProbed, Task
  <2> QED
    BY <1>4, <2>1 DEF IInv, FrameTypes, RequestProbed
<1>5. ASSUME ~closed, NEW q \in Request, RequestUnreachable(q) PROVE IInv'
  <2>1. Books'
    BY <1>0, <1>5, StandKeeps DEF RequestUnreachable
  <2> QED
    BY <1>5, <2>1 DEF IInv, FrameTypes, RequestUnreachable
<1>6. ASSUME ~closed, ReconnectWakes PROVE IInv'
  <2>1. Books' /\ waiters' \in Seq(Task)
    BY <1>0, <1>6, EnterOrWaitKeeps DEF ReconnectWakes, Task
  <2> QED
    BY <1>6, <2>1 DEF IInv, FrameTypes, ReconnectWakes
<1>7. ASSUME ~closed, ReconnectProbes PROVE IInv'
  <2>1. Books'
    BY <1>0, <1>7, StandKeeps, NoneIsNew DEF ReconnectProbes
  <2> QED
    BY <1>7, <2>1 DEF IInv, FrameTypes, ReconnectProbes
<1>8. ASSUME ~closed, ReconnectProbed PROVE IInv'
  <2>1. Books' /\ waiters' \in Seq(Task)
    BY <1>0, <1>8, EnterOrWaitKeeps DEF ReconnectProbed, Task
  <2> QED
    BY <1>8, <2>1 DEF IInv, FrameTypes, ReconnectProbed
<1>9. ASSUME ~closed, ReconnectUnreachable PROVE IInv'
  <2>1. Books'
    BY <1>0, <1>9, StandKeeps, NoneIsNew DEF ReconnectUnreachable
  <2> QED
    BY <1>9, <2>1 DEF IInv, FrameTypes, ReconnectUnreachable
<1>10. ASSUME ~closed, HandshakeDone PROVE IInv'
  <2> DEFINE id == attempt.id
  <2>0. /\ attempt # None /\ attempt.phase = "handshake"
        /\ attempt' = [attempt EXCEPT !.phase = "settle"]
        /\ client' = [client EXCEPT ![id] = "up"]
        /\ UNCHANGED <<addr, bound, mapped, st, waiters, req, rec, own, other, retired,
                       twsUp, twsBusy, faults, closed>>
    BY <1>10 DEF HandshakeDone
  <2>1. attempt \in Attempt /\ id = bound /\ id \in Ids
    BY <1>0, <1>10, <2>0 DEF Books, BookTypes, PhaseShows, Attempt
  <2>2. /\ attempt' \in Attempt /\ attempt'.task = attempt.task
        /\ attempt'.id = attempt.id /\ attempt'.phase = "settle"
    BY <2>0, <2>1 DEF Attempt, Phase
  <2>3. client[bound] = "pending" /\ st[bound] = "connecting"
    BY <1>0, <1>10, <2>0 DEF Books, PhaseShows
  <2> HIDE DEF id
  <2>4. BookTypes'
    BY <1>0, <2>0, <2>1, <2>2 DEF Books, BookTypes
  <2>5. TaskAgrees'
    BY <1>0, <2>0, <2>2, NoneIsNew DEF Books, TaskAgrees
  <2>6. PhaseShows'
    BY <1>0, <2>0, <2>1, <2>2, <2>3 DEF Books, BookTypes, PhaseShows, id
  <2>7. StateIsTrue' /\ DroppedHasTask' /\ BoundIsAll'
    BY <1>0, <2>0, <2>1, <2>3 DEF Books, BookTypes, StateIsTrue, DroppedHasTask, BoundIsAll
  <2> QED
    BY <2>0, <2>4, <2>5, <2>6, <2>7 DEF Books, IInv, FrameTypes
<1>11. ASSUME ~closed, Settled PROVE IInv'
  <2>0. /\ attempt # None /\ attempt.phase = "settle"
        /\ st' = [st EXCEPT ![attempt.id] = "connected"]
        /\ attempt' = None /\ Returned(attempt.task)
        /\ UNCHANGED <<addr, bound, mapped, client, waiters, own, other, retired,
                       twsUp, twsBusy, faults, closed>>
    BY <1>11 DEF Settled
  <2>1. attempt.id = bound /\ bound \in Ids /\ attempt.task \in Task /\ client[bound] = "up"
    BY <1>0, <1>11, <2>0 DEF Books, BookTypes, PhaseShows, Attempt
  <2>2. BookTypes'
    BY <1>0, <2>0, <2>1 DEF Books, BookTypes, Returned, Stands, Task
  <2>3. TaskAgrees'
    BY <1>0, <2>0, <2>1, NoneIsNew, ReconnectIsNoRequest DEF Books, BookTypes, TaskAgrees, Returned, Stands, Task
  <2>4. StateIsTrue' /\ DroppedHasTask' /\ BoundIsAll'
    BY <1>0, <2>0, <2>1 DEF Books, BookTypes, StateIsTrue, DroppedHasTask, BoundIsAll
  <2> QED
    BY <2>0, <2>2, <2>3, <2>4 DEF Books, IInv, FrameTypes, PhaseShows
<1>12. ASSUME ~closed, RejectedRetries PROVE IInv'
  <2> DEFINE id == attempt.id
             next == FreeFrom(StartId, retired \cup {id}, other)
  <2>0. /\ attempt # None /\ InUse /\ retired' = retired \cup {id} /\ next # None
        /\ Launch(attempt.task, next, addr, Cleanup(id),
                  [st EXCEPT ![id] = "error"], mapped \ {id}, own \ {id})
        /\ UNCHANGED <<addr, waiters, other, twsUp, twsBusy, faults, closed>>
    BY <1>12 DEF RejectedRetries
  <2>1. /\ attempt.task \in Task /\ id = bound /\ id \in Ids
        /\ attempt.phase # "cancelled"
    BY <1>0, <1>12, <2>0 DEF Books, BookTypes, PhaseShows, Attempt, InUse
  <2>2. next \in Ids /\ next \notin retired' /\ next \notin other
    BY <2>0, FreeIsFree, IdsAreNumbers
  <2>3. /\ Cleanup(id) \in [Ids -> {None, "pending", "up", "down"}]
        /\ \A i \in Ids : Cleanup(id)[i] = None
    BY <1>0, <2>1, NoneIsNoId DEF Cleanup, Books, BookTypes, BoundIsAll
  <2>4. /\ [st EXCEPT ![id] = "error"] \in [Ids -> {"disconnected", "connecting", "connected", "error"}]
        /\ mapped \ {id} \in SUBSET Ids /\ own \ {id} = {} /\ retired' \subseteq Ids
        /\ BookTypes /\ addr \in BOOLEAN
    BY <1>0, <2>0, <2>1 DEF Books, BookTypes, BoundIsAll, IInv, FrameTypes
  <2>5. MayAttempt(attempt.task)
    BY <1>0, <2>0 DEF Books, TaskAgrees, MayAttempt
  <2>6. own \ {id} \subseteq {next} /\ id \in Ids /\ attempt.task \in Task /\ ~closed
    BY <1>12, <2>1, <2>4
  <2>7. Books'
    <3> DEFINE t == attempt.task
               clients == Cleanup(id)
               states == [st EXCEPT ![id] = "error"]
               maps == mapped \ {id}
               leased == own \ {id}
    <3>1. /\ t \in Task /\ next \in Ids /\ addr \in BOOLEAN
          /\ clients \in [Ids -> {None, "pending", "up", "down"}]
          /\ states \in [Ids -> {"disconnected", "connecting", "connected", "error"}]
          /\ maps \in SUBSET Ids
          /\ Launch(t, next, addr, clients, states, maps, leased)
          /\ MayAttempt(t) /\ leased \subseteq {next} /\ next \notin other
          /\ \A i \in Ids : clients[i] = None
          /\ BookTypes /\ retired' \subseteq Ids /\ next \notin retired'
          /\ ~closed /\ UNCHANGED <<closed, other>>
      BY <2>0, <2>2, <2>3, <2>4, <2>5, <2>6
    <3> HIDE DEF t, clients, states, maps, leased, next
    <3> QED
      BY <3>1, LaunchKeeps
  <2> QED
    BY <2>0, <2>7 DEF IInv, FrameTypes
<1>13. ASSUME ~closed, RejectedExhausted PROVE IInv'
  <2> DEFINE id == attempt.id
  <2>0. /\ attempt # None /\ InUse /\ retired' = retired \cup {id}
        /\ st' = [st EXCEPT ![id] = "error"]
        /\ client' = Cleanup(id)
        /\ mapped' = mapped \ {id} /\ own' = own \ {id}
        /\ bound' = None /\ attempt' = None
        /\ Raised(attempt.task, None)
        /\ UNCHANGED <<addr, waiters, other, twsUp, twsBusy, faults, closed>>
    BY <1>13 DEF RejectedExhausted
  <2>1. attempt.task \in Task /\ id = bound /\ id \in Ids
    BY <1>0, <1>13, <2>0 DEF Books, BookTypes, PhaseShows, Attempt
  <2> HIDE DEF id
  <2>2. BookTypes'
    BY <1>0, <2>0, <2>1 DEF Books, BookTypes, Raised, Stands, Task, Cleanup
  <2>3. TaskAgrees'
    BY <1>0, <2>0, <2>1, NoneIsNew, ReconnectIsNoRequest DEF Books, BookTypes, TaskAgrees, Raised, Stands, Task
  <2>4. client' = [client EXCEPT ![bound] = None]
    BY <2>0, <2>1, NoneIsNoId DEF Cleanup
  <2>5. BoundIsAll'
    BY <1>0, <2>0, <2>1, <2>4 DEF Books, BookTypes, BoundIsAll
  <2> QED
    BY <1>0, <2>0, <2>2, <2>3, <2>5, NoneIsNoId DEF Books, IInv, FrameTypes, PhaseShows, StateIsTrue, DroppedHasTask
<1>14. ASSUME ~closed, AttemptFails PROVE IInv'
  <2>1. Books'
    BY <1>0, <1>14, FailedKeeps DEF AttemptFails, Unreachable
  <2> QED
    BY <1>14, <2>1 DEF AttemptFails, Failed, IInv, FrameTypes
<1>15. ASSUME ~closed, AttemptTimesOut PROVE IInv'
  <2>1. Books'
    BY <1>0, <1>15, FailedKeeps DEF AttemptTimesOut, TimesOut
  <2>2. faults' \in 0 .. MaxFaults
    BY <1>15, FaultsAreCounted DEF AttemptTimesOut, TimesOut, IInv, FrameTypes
  <2> QED
    BY <1>15, <2>1, <2>2 DEF AttemptTimesOut, Failed, IInv, FrameTypes
<1>16. ASSUME ~closed, AttemptTimesOutWithEvent PROVE IInv'
  <2>1. Books'
    BY <1>0, <1>16, FailedKeeps DEF AttemptTimesOutWithEvent, TimesOut
  <2>2. faults' \in 0 .. MaxFaults
    BY <1>16, FaultsAreCounted DEF AttemptTimesOutWithEvent, TimesOut, IInv, FrameTypes
  <2>3. waiters' \in Seq(Task)
    BY <1>0, <1>16, ForgottenIsQueue DEF AttemptTimesOutWithEvent
  <2> QED
    BY <1>16, <2>1, <2>2, <2>3 DEF AttemptTimesOutWithEvent, Failed, IInv, FrameTypes
<1>17. ASSUME ~closed, NEW id \in Ids, ConnectionDrops(id) PROVE IInv'
  <2>0. /\ faults < MaxFaults /\ faults' = faults + 1 /\ client[id] = "up"
        /\ client' = [client EXCEPT ![id] = "down"]
        /\ st' = [st EXCEPT ![id] = "disconnected"]
        /\ addr' = FALSE /\ rec' = "sleep" /\ waiters' = ForgetWaiter(Reconnect)
        /\ attempt' = IF attempt = None THEN None
                      ELSE [attempt EXCEPT !.phase =
                              IF attempt.task = Reconnect THEN "cancelled" ELSE "lost"]
        /\ UNCHANGED <<bound, mapped, req, own, other, retired, twsUp, twsBusy, closed>>
    BY <1>17 DEF ConnectionDrops, OnDisconnect
  <2>1. id = bound
    BY <1>0, <2>0, NoneIsNew DEF Books, BoundIsAll
  <2>2. FrameTypes'
    <3>1. waiters' \in Seq(Task)
      BY <1>0, <2>0, ForgottenIsQueue
    <3>2. faults' \in 0 .. MaxFaults
      BY <2>0, FaultsAreCounted DEF IInv, FrameTypes
    <3> QED
      BY <2>0, <3>1, <3>2 DEF IInv, FrameTypes
  <2>3. CASE attempt = None
    <3>1. BookTypes'
      BY <1>0, <2>0, <2>3 DEF Books, BookTypes
    <3>2. TaskAgrees' /\ PhaseShows'
      BY <1>0, <2>0, <2>3 DEF Books, TaskAgrees, PhaseShows
    <3>3. StateIsTrue' /\ DroppedHasTask' /\ BoundIsAll'
      BY <1>0, <2>0, <2>1, NoneIsNew DEF Books, BookTypes, StateIsTrue, DroppedHasTask, BoundIsAll
    <3> QED
      BY <2>2, <3>1, <3>2, <3>3 DEF Books, IInv
  <2>4. CASE attempt # None
    <3> DEFINE phase == IF attempt.task = Reconnect THEN "cancelled" ELSE "lost"
    <3>0. attempt \in Attempt
      BY <1>0, <2>4 DEF Books, BookTypes
    <3>1. /\ attempt' \in Attempt /\ attempt' # None /\ attempt'.task = attempt.task
          /\ attempt'.id = attempt.id /\ attempt'.phase = phase
      BY <2>0, <2>4, <3>0, NoneIsNew DEF Attempt, Phase
    <3>2. BookTypes'
      BY <1>0, <2>0, <3>1 DEF Books, BookTypes
    <3>3. TaskAgrees'
      BY <1>0, <1>17, <2>0, <2>1, <2>4, <3>1, ReconnectIsNoRequest DEF Books, TaskAgrees, PhaseShows
    <3>4. PhaseShows'
      BY <1>0, <1>17, <2>0, <2>1, <2>4, <3>1 DEF Books, BookTypes, PhaseShows
    <3>5. StateIsTrue' /\ DroppedHasTask' /\ BoundIsAll'
      BY <1>0, <2>0, <2>1, NoneIsNew DEF Books, BookTypes, StateIsTrue, DroppedHasTask, BoundIsAll
    <3> QED
      BY <2>2, <3>2, <3>3, <3>4, <3>5 DEF Books, IInv
  <2> QED
    BY <2>3, <2>4
<1>18. ASSUME ~closed, PrewarmTimesOut PROVE IInv'
  <2>0. /\ req[Prewarm] \in {"wait", "attempt"}
        /\ req' = [req EXCEPT ![Prewarm] = "idle"]
        /\ UNCHANGED <<bound, mapped, own, other, retired, twsUp, twsBusy, faults, closed>>
    BY <1>18 DEF PrewarmTimesOut
  <2>1. CASE /\ req[Prewarm] = "wait" /\ waiters' = ForgetWaiter(Prewarm)
             /\ UNCHANGED <<attempt, client, addr, st, rec>>
    <3>1. Books'
      BY <1>0, <2>0, <2>1, StandKeeps, PrewarmIsRequest
    <3>2. waiters' \in Seq(Task)
      BY <1>0, <2>1, ForgottenIsQueue
    <3> QED
      BY <2>0, <2>1, <3>1, <3>2 DEF IInv, FrameTypes
  <2>2. CASE /\ req[Prewarm] = "attempt" /\ attempt' = None
             /\ client' = [client EXCEPT ![attempt.id] = IF @ = "pending" THEN "down" ELSE @]
             /\ \/ UNCHANGED <<addr, st, rec, waiters>>
                \/ attempt.phase = "handshake" /\ OnDisconnect(attempt.id)
    <3>1. /\ attempt # None /\ attempt.task = Prewarm /\ attempt.id = bound /\ bound \in Ids
          /\ rec # "attempt" /\ attempt.phase # "cancelled"
      BY <1>0, <1>18, <2>2, PrewarmIsRequest, ReconnectIsNoRequest
      DEF Books, BookTypes, TaskAgrees, PhaseShows, Attempt
    <3>2. FrameTypes'
      BY <1>0, <2>0, <2>2, ForgottenIsQueue DEF IInv, FrameTypes, OnDisconnect
    <3>3. BookTypes'
      BY <1>0, <2>0, <2>2, <3>1, PrewarmIsRequest DEF Books, BookTypes, OnDisconnect
    <3>4. TaskAgrees' /\ PhaseShows'
      <4>1. \A q \in Request : req'[q] # "attempt"
        BY <1>0, <2>0, <2>2, <3>1, PrewarmIsRequest DEF Books, BookTypes, TaskAgrees
      <4>2. rec' # "attempt"
        BY <2>2, <3>1 DEF OnDisconnect
      <4> QED
        BY <2>2, <4>1, <4>2 DEF TaskAgrees, PhaseShows
    <3>5. StateIsTrue'
      BY <1>0, <1>18, <2>0, <2>2, <3>1 DEF Books, BookTypes, StateIsTrue, PhaseShows, OnDisconnect
    <3>6. DroppedHasTask'
      BY <1>0, <2>0, <2>2, NoneIsNew DEF Books, DroppedHasTask, OnDisconnect
    <3>7. BoundIsAll'
      BY <1>0, <2>0, <2>2, <3>1 DEF Books, BookTypes, BoundIsAll
    <3> QED
      BY <3>2, <3>3, <3>4, <3>5, <3>6, <3>7 DEF Books, IInv
  <2> QED
    BY <1>18, <2>1, <2>2 DEF PrewarmTimesOut
<1>19. ASSUME ~closed, DisconnectAll PROVE IInv'
  <2>0. /\ \A q \in Request : req[q] = "idle"
        /\ closed' = TRUE /\ UNCHANGED <<addr, req, other, retired, twsUp, twsBusy, faults>>
    BY <1>19 DEF DisconnectAll
  <2>1. CASE /\ bound = None
             /\ UNCHANGED <<bound, mapped, client, st, attempt, waiters, rec, own>>
    BY <1>0, <2>0, <2>1
    DEF IInv, FrameTypes, Books, BookTypes, TaskAgrees, PhaseShows, StateIsTrue, DroppedHasTask, BoundIsAll
  <2>2. CASE /\ bound # None
             /\ rec' = None /\ waiters' = ForgetWaiter(Reconnect)
             /\ attempt' = IF attempt = None THEN None
                           ELSE [attempt EXCEPT !.phase = "cancelled"]
             /\ client' = Cleanup(bound)
             /\ st' = [st EXCEPT ![bound] = "disconnected"]
             /\ bound' = None /\ mapped' = mapped \ {bound}
             /\ own' = own \ {bound}
    <3>1. FrameTypes'
      BY <1>0, <2>0, <2>2, ForgottenIsQueue DEF IInv, FrameTypes
    <3>2. bound \in Ids /\ client' = [client EXCEPT ![bound] = None]
      BY <1>0, <2>2 DEF Cleanup, Books, BookTypes
    <3>3. attempt' \in Attempt \cup {None}
      BY <1>0, <2>2 DEF Books, BookTypes, Attempt, Phase
    <3>4. BookTypes'
      BY <1>0, <2>0, <2>2, <3>2, <3>3 DEF Books, BookTypes
    <3>5. TaskAgrees'
      <4>1. CASE attempt = None
        BY <1>0, <2>0, <2>2, <4>1, NoneIsNew DEF Books, TaskAgrees
      <4>2. CASE attempt # None
        <5>1. attempt \in Attempt /\ attempt.task = Reconnect
          BY <1>0, <2>0, <4>2 DEF Books, BookTypes, TaskAgrees
        <5>2. attempt'.task = Reconnect /\ attempt'.phase = "cancelled"
          BY <2>2, <4>2, <5>1 DEF Attempt
        <5> QED
          BY <2>0, <2>2, <5>2, NoneIsNew DEF TaskAgrees
      <4> QED
        BY <4>1, <4>2
    <3>6. PhaseShows' /\ StateIsTrue' /\ DroppedHasTask'
      BY <2>0, <2>2, NoneIsNoId DEF PhaseShows, StateIsTrue, DroppedHasTask
    <3>7. BoundIsAll'
      BY <1>0, <2>0, <2>2, <3>2 DEF Books, BookTypes, BoundIsAll
    <3> QED
      BY <3>1, <3>4, <3>5, <3>6, <3>7 DEF Books, IInv
  <2> QED
    BY <1>19, <2>1, <2>2 DEF DisconnectAll
<1>20. ASSUME ~closed, Environment PROVE IInv'
  <2>0. /\ faults < MaxFaults /\ faults' = faults + 1
        /\ UNCHANGED <<addr, bound, mapped, client, st, attempt, waiters, req, rec, retired, closed>>
    BY <1>20 DEF Environment
  <2>1. faults' \in 0 .. MaxFaults
    BY <2>0, FaultsAreCounted DEF IInv, FrameTypes
  <2>2. own' \subseteq own /\ other' \subseteq Ids /\ own' \cap other' = {}
    BY <1>0, <1>20 DEF Environment, LeaseExpires, OtherLeases, OtherConnects, TwsFlips, Books, BookTypes
  <2>3. twsUp' \in BOOLEAN /\ twsBusy' \subseteq Ids
    BY <1>20 DEF Environment, LeaseExpires, OtherLeases, OtherConnects, TwsFlips, IInv, FrameTypes
  <2>4. FrameTypes'
    BY <2>0, <2>1, <2>3 DEF IInv, FrameTypes
  <2>5. BookTypes' /\ BoundIsAll'
    BY <1>0, <2>0, <2>2 DEF Books, BookTypes, BoundIsAll
  <2>6. TaskAgrees' /\ PhaseShows' /\ StateIsTrue' /\ DroppedHasTask'
    BY <1>0, <2>0 DEF Books, TaskAgrees, PhaseShows, StateIsTrue, DroppedHasTask
  <2> QED
    BY <2>4, <2>5, <2>6 DEF Books, IInv
<1>21. CASE CancelledEnds
  <2>0. /\ attempt # None /\ attempt.phase = "cancelled" /\ attempt' = None
        /\ UNCHANGED <<addr, bound, mapped, client, st, waiters, req, rec, own, other, retired,
                       twsUp, twsBusy, faults, closed>>
    BY <1>21 DEF CancelledEnds
  <2>1. FrameTypes'
    BY <2>0 DEF IInv, FrameTypes
  <2>2. BookTypes'
    BY <1>0, <2>0 DEF Books, BookTypes
  <2>3. TaskAgrees' /\ PhaseShows' /\ StateIsTrue' /\ DroppedHasTask' /\ BoundIsAll'
    BY <1>0, <2>0, ReconnectIsNoRequest DEF Books, TaskAgrees, PhaseShows, StateIsTrue, DroppedHasTask, BoundIsAll
  <2> QED
    BY <2>1, <2>2, <2>3 DEF Books, IInv
<1>22. CASE UNCHANGED vars
  BY <1>22 DEF vars, IInv, FrameTypes, Books, BookTypes, TaskAgrees, PhaseShows, StateIsTrue, DroppedHasTask, BoundIsAll
<1> QED
  BY <1>1, <1>2, <1>3, <1>4, <1>5, <1>6, <1>7, <1>8, <1>9, <1>10, <1>11, <1>12, <1>13, <1>14,
     <1>15, <1>16, <1>17, <1>18, <1>19, <1>20, <1>21, <1>22
  DEF Next, Running, Terminated, ReconnectTask, AttemptEnds

-----------------------------------------------------------------------------
(* The books are right in every reachable state.                           *)
THEOREM Invariance == Spec => []IInv
BY InitIInv, StepIInv, PTL DEF Spec

(* Every variable of the pool has its type; no id is leased by this        *)
(* process and by another one at the same time, as long as the others      *)
(* keep to the protocol.                                                   *)
THEOREM TypeCorrect == Spec => []TypeOK
<1>1. IInv => TypeOK
  BY DEF IInv, FrameTypes, Books, BookTypes, TypeOK
<1> QED
  BY <1>1, Invariance, PTL

(* The status that /health and /tws-status report: connected only while    *)
(* the IB object of the role is, whatever drops, settles or is cancelled.  *)
THEOREM StatusIsTrue == Spec => []ConnectedIsLive
<1>1. IInv => ConnectedIsLive
  BY NoneIsNoId DEF IInv, Books, BookTypes, StateIsTrue, ConnectedIsLive
<1> QED
  BY <1>1, Invariance, PTL

(* A connection that dropped has its reconnect task: _reconnect_loop goes  *)
(* on until the role is connected or unbound, and no task that ends takes  *)
(* another's registration with it.                                         *)
THEOREM DropsAreAttended == Spec => []DroppedIsAttended
<1>1. IInv => DroppedIsAttended
  BY DEF IInv, Books, DroppedHasTask, DroppedIsAttended
<1> QED
  BY <1>1, Invariance, PTL

(* get_or_create, its failures, its cancellation and disconnect_all() keep *)
(* at most the bound id's connection and lease, and at the end none.       *)
THEOREM NothingIsLeaked == Spec => []NothingLeaks
<1>1. IInv => NothingLeaks
  BY NoneIsNoId DEF IInv, Books, BookTypes, BoundIsAll, NothingLeaks
<1> QED
  BY <1>1, Invariance, PTL

(* An id that TWS rejected is never used again: neither the bound id nor   *)
(* the one an attempt is made on is a retired one.                         *)
THEOREM RejectedIsLeft ==
    Spec => [](~closed => bound \notin retired /\ (attempt # None => attempt.id \notin retired))
<1>1. IInv => (~closed => bound \notin retired /\ (attempt # None => attempt.id \notin retired))
  BY NoneIsNoId DEF IInv, Books, BookTypes, BoundIsAll, PhaseShows
<1> QED
  BY <1>1, Invariance, PTL

=============================================================================
