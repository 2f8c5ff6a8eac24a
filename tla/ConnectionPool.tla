--------------------------- MODULE ConnectionPool ---------------------------
(***************************************************************************)
(* backend/connection_pool.py as main.py drives it: one pool and one role, *)
(* PORTFOLIO_ROLE.  HTTP handlers and the reconnect task are asyncio tasks *)
(* of one event loop; they interleave only at awaits, so everything the    *)
(* code does between two awaits is one action here.  TWS (ib_insync and    *)
(* the gateway behind it) is the environment: it may go down, drop a       *)
(* connection at any instant, refuse an id that another client uses, and   *)
(* time out.  The client-id manager is abstracted to the ids this process  *)
(* leases, the ids other processes lease (module ClientIdLeases gives the  *)
(* protocol that keeps the two apart) and the ids it retired.              *)
(*                                                                         *)
(* Left out: the reconnect metadata of get_role_status (timestamps, error  *)
(* texts, attempt counter), the length of the back-off delay, and logging. *)
(***************************************************************************)
EXTENDS Integers, Sequences, SequencesExt

CONSTANTS
    Request,    \* tasks of HTTP handlers that call get_or_create
    Prewarm,    \* the one of them that is the start-up call with a timeout
    StartId, MaxId,
    MaxFaults,  \* bound on what the environment does, for model checking
    None

Ids == StartId .. MaxId

(* The reconnect task registered in _reconnect_tasks, as a task name. *)
Reconnect == "reconnect"

ASSUME IdsAreNumbers == StartId \in Nat /\ MaxId \in Nat
ASSUME FaultsAreCounted == MaxFaults \in Nat
ASSUME PrewarmIsRequest == Prewarm \in Request
ASSUME ReconnectIsNoRequest == Reconnect \notin Request

VARIABLES
    addr,       \* is the TWS address known (_host, _port)?
    bound,      \* _role_to_client_id[role], or None
    mapped,     \* ids that _client_id_to_role maps to the role
    client,     \* _clients: the state of the IB object of each id, or None
    st,         \* _states
    attempt,    \* the connection attempt made under _connect_lock, or None
    waiters,    \* tasks waiting for _connect_lock, first come first served
    req,        \* where each request stands
    rec,        \* where the registered reconnect task stands, or None
    own, other, \* ids leased by this process and by the others
    retired,    \* ids TWS rejected for this process
    twsUp,      \* is TWS reachable?
    twsBusy,    \* ids other clients have connected to TWS with
    closed,     \* disconnect_all() has run
    faults      \* environment disturbances so far

lockVars == <<attempt, waiters>>
idVars == <<own, other, retired>>
twsVars == <<twsUp, twsBusy, faults>>
vars == <<addr, bound, mapped, client, st, lockVars, req, rec, idVars,
          twsVars, closed>>

Task == Request \cup {Reconnect}

(* handshake: connectAsync runs; settle: it returned and the settle sleep  *)
(* runs; lost: the connection is gone, the failure not yet handled;        *)
(* noaddr: connectAsync was given no host; cancelled: the task was.        *)
Phase == {"handshake", "settle", "lost", "noaddr", "cancelled"}
Attempt == [task : Task, id : Ids, phase : Phase]

ASSUME NoneIsNew ==
    /\ None \notin Nat /\ None \notin Attempt
    /\ None \notin {"pending", "up", "down", "sleep", "probe", "wait", "attempt"}

TypeOK ==
    /\ addr \in BOOLEAN /\ twsUp \in BOOLEAN /\ closed \in BOOLEAN
    /\ bound \in Ids \cup {None}
    /\ mapped \subseteq Ids
    /\ client \in [Ids -> {None, "pending", "up", "down"}]
    /\ st \in [Ids -> {"disconnected", "connecting", "connected", "error"}]
    /\ attempt \in Attempt \cup {None}
    /\ waiters \in Seq(Task)
    /\ req \in [Request -> {"new", "idle", "probe", "wait", "attempt"}]
    /\ rec \in {None, "sleep", "probe", "wait", "attempt"}
    /\ own \subseteq Ids /\ other \subseteq Ids /\ own \cap other = {}
    /\ retired \subseteq Ids
    /\ twsBusy \subseteq Ids
    /\ faults \in 0 .. MaxFaults

Init ==
    /\ addr = FALSE /\ closed = FALSE
    /\ bound = None /\ mapped = {}
    /\ client = [id \in Ids |-> None]
    /\ st = [id \in Ids |-> "disconnected"]
    /\ attempt = None /\ waiters = <<>>
    /\ req = [q \in Request |-> IF q = Prewarm THEN "new" ELSE "idle"]
    /\ rec = None
    /\ own = {} /\ retired = {}
    /\ other \in SUBSET Ids
    /\ twsUp \in BOOLEAN
    /\ twsBusy \in SUBSET Ids
    /\ faults = 0

-----------------------------------------------------------------------------
(* Mutant: the scan runs one past self._max. *)
MutFreePastMax(n, out, foreign) ==
    LET free == {id \in StartId .. MaxId + 1 :
                   id >= n /\ id \notin out /\ id \notin foreign}
    IN  IF free = {} THEN None
        ELSE CHOOSE id \in free : \A other_id \in free : id <= other_id

(* IbkrClientIdManager.acquire from position n: the first id that is       *)
(* neither retired nor leased by another process, or None (it raises).     *)
FreeFrom(n, out, foreign) ==
    LET free == {id \in Ids : id >= n /\ id \notin out /\ id \notin foreign}
    IN  IF free = {} THEN None
        ELSE CHOOSE id \in free : \A other_id \in free : id <= other_id

(* Task t of the pool is now at pc. *)
Stands(t, pc) ==
    IF t = Reconnect
    THEN rec' = pc /\ UNCHANGED req
    ELSE req' = [req EXCEPT ![t] = pc] /\ UNCHANGED rec

(* get_or_create returned or raised in task t.  A reconnect task that got  *)
(* its connection ends; one that failed sleeps and tries again, unless the *)
(* role is no longer bound (`while role in self._role_to_client_id').      *)
Returned(t) == Stands(t, IF t = Reconnect THEN None ELSE "idle")
Raised(t, boundAfter) ==
    Stands(t, IF t # Reconnect THEN "idle"
              ELSE IF boundAfter = None THEN None ELSE "sleep")

(* Mutant: the IB object stays in _clients. *)
MutNoCleanup(id) == client

(* _cleanup_client(id): forget the IB object (its event is cleared first). *)
Cleanup(id) == IF id = None THEN client ELSE [client EXCEPT ![id] = None]

(* The body of the attempts loop up to its await: bind the id acquired,    *)
(* register a fresh IB object and call connectAsync with the address as it *)
(* is at this moment.                                                      *)
Launch(t, id, known, clients, states, maps, leased) ==
    /\ bound' = id
    /\ mapped' = maps \cup {id}
    /\ client' = [clients EXCEPT ![id] = "pending"]
    /\ st' = [states EXCEPT ![id] = "connecting"]
    /\ own' = leased \cup {id}
    /\ attempt' = [task |-> t, id |-> id,
                   phase |-> IF known THEN "handshake" ELSE "noaddr"]
    /\ Stands(t, "attempt")

(* get_or_create once the lock is held: reuse a live connection, or clean  *)
(* up what is left of the old one, acquire an id and start an attempt.     *)
HasLive == bound # None /\ client[bound] = "up"
Acquirable == FreeFrom(IF bound = None THEN StartId ELSE bound, retired, other)
Enter(t, known) ==
    LET id == Acquirable
    IN  \/ /\ HasLive
           /\ Returned(t)
           /\ attempt' = None
           /\ UNCHANGED <<bound, mapped, client, st, own, retired>>
        \/ /\ ~HasLive /\ id = None      \* acquire() raised
           /\ client' = Cleanup(bound)
           /\ Raised(t, bound)
           /\ attempt' = None
           /\ UNCHANGED <<bound, mapped, st, own, retired>>
        \/ /\ ~HasLive /\ id # None
           /\ Launch(t, id, known, Cleanup(bound), st, mapped, own)
           /\ UNCHANGED retired

(* `async with self._connect_lock': straight in when nobody holds the lock *)
(* and nobody waits for it, else to the end of the queue.                  *)
LockFree == attempt = None /\ waiters = <<>>
EnterOrWait(t, known) ==
    \/ LockFree /\ Enter(t, known) /\ UNCHANGED waiters
    \/ /\ ~LockFree
       /\ waiters' = Append(waiters, t)
       /\ Stands(t, "wait")
       /\ UNCHANGED <<attempt, bound, mapped, client, st, own, retired>>

GrantLock ==
    /\ attempt = None
    /\ waiters # <<>>
    /\ waiters' = Tail(waiters)
    /\ Enter(Head(waiters), addr)
    /\ UNCHANGED <<addr, other, twsVars, closed>>

-----------------------------------------------------------------------------
(* A handler (/tws-status, /portfolio, options) needs the connection.      *)
(* _ensure_pool_configured: with a known address it goes straight to       *)
(* get_or_create, else it probes.  The start-up call always probes, and no *)
(* handler runs before it is over (the lifespan has not yielded).          *)
MayStart(q) == q # Prewarm /\ req[q] = "idle" /\ req[Prewarm] = "idle"

RequestStart(q) ==
    /\ MayStart(q)
    /\ addr
    /\ EnterOrWait(q, TRUE)
    /\ UNCHANGED <<addr, other, twsVars, closed>>

RequestProbe(q) ==
    /\ req[q] = "new" \/ (MayStart(q) /\ ~addr)
    /\ req' = [req EXCEPT ![q] = "probe"]
    /\ UNCHANGED <<addr, bound, mapped, client, st, lockVars, rec, idVars,
                   twsVars, closed>>

(* probe_tws_port found a port: set_tws_address, then get_or_create. *)
RequestProbed(q) ==
    /\ req[q] = "probe"
    /\ twsUp
    /\ addr' = TRUE
    /\ EnterOrWait(q, TRUE)
    /\ UNCHANGED <<other, twsVars, closed>>

(* probe_tws_port found none: the handler answers `TWS not reachable'. *)
RequestUnreachable(q) ==
    /\ req[q] = "probe"
    /\ ~twsUp
    /\ req' = [req EXCEPT ![q] = "idle"]
    /\ UNCHANGED <<addr, bound, mapped, client, st, lockVars, rec, idVars,
                   twsVars, closed>>

-----------------------------------------------------------------------------
(* _reconnect_loop wakes from its sleep: probe when the address was        *)
(* cleared, else get_or_create.                                            *)
ReconnectWakes ==
    /\ rec = "sleep"
    /\ addr
    /\ EnterOrWait(Reconnect, TRUE)
    /\ UNCHANGED <<addr, other, twsVars, closed>>

(* Mutant: no probe function, the loop goes back to sleep. *)
MutNeverProbes ==
    /\ rec = "sleep"
    /\ ~addr
    /\ rec' = "sleep"
    /\ UNCHANGED <<addr, bound, mapped, client, st, lockVars, req, idVars,
                   twsVars, closed>>

ReconnectProbes ==
    /\ rec = "sleep"
    /\ ~addr
    /\ rec' = "probe"
    /\ UNCHANGED <<addr, bound, mapped, client, st, lockVars, req, idVars,
                   twsVars, closed>>

ReconnectProbed ==
    /\ rec = "probe"
    /\ twsUp
    /\ addr' = TRUE
    /\ EnterOrWait(Reconnect, TRUE)
    /\ UNCHANGED <<other, twsVars, closed>>

(* The probe found no port: `continue', back to the loop condition. *)
ReconnectUnreachable ==
    /\ rec = "probe"
    /\ ~twsUp
    /\ rec' = IF bound = None THEN None ELSE "sleep"
    /\ UNCHANGED <<addr, bound, mapped, client, st, lockVars, req, idVars,
                   twsVars, closed>>

-----------------------------------------------------------------------------
(* How an attempt ends.  The handshake with TWS succeeds when TWS is there *)
(* and no other client uses the id; then the settle sleep runs.            *)
HandshakeDone ==
    /\ attempt # None /\ attempt.phase = "handshake"
    /\ twsUp /\ attempt.id \notin twsBusy
    /\ attempt' = [attempt EXCEPT !.phase = "settle"]
    /\ client' = [client EXCEPT ![attempt.id] = "up"]
    /\ UNCHANGED <<addr, bound, mapped, st, waiters, req, rec, idVars,
                   twsVars, closed>>

(* Still connected after the settle sleep: CONNECTED, lock released. *)
Settled ==
    /\ attempt # None /\ attempt.phase = "settle"
    /\ st' = [st EXCEPT ![attempt.id] = "connected"]
    /\ attempt' = None
    /\ Returned(attempt.task)
    /\ UNCHANGED <<addr, bound, mapped, client, waiters, idVars, twsVars, closed>>

(* TWS answered 326, or the connection did not survive the settle sleep,   *)
(* which the code reports as 326 too: the id is retired and given back,    *)
(* the role unbound, and the loop goes on with the next id at once.        *)
InUse == \/ attempt.phase = "lost"
         \/ attempt.phase = "handshake" /\ twsUp /\ attempt.id \in twsBusy

RejectedRetries ==
    LET id == attempt.id
        next == FreeFrom(StartId, retired \cup {id}, other)
    IN  /\ attempt # None /\ InUse
        /\ retired' = retired \cup {id}
        /\ next # None
        /\ Launch(attempt.task, next, addr, Cleanup(id),
                  [st EXCEPT ![id] = "error"], mapped \ {id}, own \ {id})
        /\ UNCHANGED <<addr, waiters, other, twsVars, closed>>

RejectedExhausted ==
    LET id == attempt.id
    IN  /\ attempt # None /\ InUse
        /\ retired' = retired \cup {id}
        /\ FreeFrom(StartId, retired', other) = None
        /\ st' = [st EXCEPT ![id] = "error"]
        /\ client' = Cleanup(id)
        /\ mapped' = mapped \ {id} /\ own' = own \ {id}
        /\ bound' = None /\ attempt' = None
        /\ Raised(attempt.task, None)
        /\ UNCHANGED <<addr, waiters, other, twsVars, closed>>

(* Any other failure: ERROR, forget the IB object, raise.  The role stays  *)
(* bound and the id leased.  With no address the failure is certain, with  *)
(* TWS unreachable too; a timeout of a reachable TWS is a fault.           *)
Unreachable == attempt.phase = "noaddr" \/ (attempt.phase = "handshake" /\ ~twsUp)
TimesOut == attempt.phase = "handshake" /\ twsUp /\ faults < MaxFaults

Failed ==
    /\ st' = [st EXCEPT ![attempt.id] = "error"]
    /\ client' = Cleanup(attempt.id)
    /\ attempt' = None
    /\ UNCHANGED <<bound, mapped, idVars, twsUp, twsBusy, closed>>

AttemptFails ==
    /\ attempt # None /\ Unreachable
    /\ Failed
    /\ Raised(attempt.task, bound)
    /\ UNCHANGED <<addr, waiters, faults>>

AttemptTimesOut ==
    /\ attempt # None /\ TimesOut
    /\ Failed
    /\ Raised(attempt.task, bound)
    /\ faults' = faults + 1
    /\ UNCHANGED <<addr, waiters>>

-----------------------------------------------------------------------------
(* _on_disconnect registers a new reconnect task and cancels the one it    *)
(* replaces: a waiting one leaves the queue for the lock.                  *)
ForgetWaiter(t) ==
    IF \E i \in DOMAIN waiters : waiters[i] = t
    THEN RemoveAt(waiters, CHOOSE i \in DOMAIN waiters : waiters[i] = t)
    ELSE waiters

(* Mutant: the event handler forgets the state of the client. *)
MutStateKept(id) ==
    /\ UNCHANGED st
    /\ addr' = FALSE
    /\ rec' = "sleep"
    /\ waiters' = ForgetWaiter(Reconnect)

(* The disconnected event of an id the role maps to, outside an attempt of *)
(* the reconnect task itself.                                              *)
OnDisconnect(id) ==
    /\ st' = [st EXCEPT ![id] = "disconnected"]
    /\ addr' = FALSE
    /\ rec' = "sleep"
    /\ waiters' = ForgetWaiter(Reconnect)

(* ib_insync closes a socket on which the handshake timed out, and that    *)
(* fires the disconnected event inside the failing call: the role gets a   *)
(* (new) reconnect task before the failure is handled.                     *)
AttemptTimesOutWithEvent ==
    /\ attempt # None /\ TimesOut
    /\ Failed
    /\ addr' = FALSE
    /\ rec' = "sleep"
    /\ waiters' = ForgetWaiter(Reconnect)
    /\ req' = IF attempt.task = Reconnect THEN req
              ELSE [req EXCEPT ![attempt.task] = "idle"]
    /\ faults' = faults + 1

(* TWS drops an established connection.  If an attempt is settling on it,  *)
(* the attempt is lost; if that attempt is the reconnect task's own, the   *)
(* event cancels the task.                                                 *)
ConnectionDrops(id) ==
    /\ faults < MaxFaults
    /\ client[id] = "up"
    /\ client' = [client EXCEPT ![id] = "down"]
    /\ OnDisconnect(id)
    /\ attempt' = IF attempt = None THEN None
                  ELSE [attempt EXCEPT !.phase =
                          IF attempt.task = Reconnect THEN "cancelled" ELSE "lost"]
    /\ faults' = faults + 1
    /\ UNCHANGED <<bound, mapped, req, idVars, twsUp, twsBusy, closed>>

(* Mutant: the finally clause unregisters whatever task is registered. *)
MutUnregistersSuccessor ==
    /\ attempt # None /\ attempt.phase = "cancelled"
    /\ attempt' = None
    /\ rec' = None
    /\ UNCHANGED <<addr, bound, mapped, client, st, waiters, req, idVars,
                   twsVars, closed>>

(* CancelledError reaches the task at its await: the lock is released and  *)
(* nothing else is undone; ib_insync closes a socket still in handshake.   *)
CancelledEnds ==
    /\ attempt # None /\ attempt.phase = "cancelled"
    /\ attempt' = None
    /\ UNCHANGED <<addr, bound, mapped, client, st, waiters, req, rec, idVars,
                   twsVars, closed>>

(* asyncio.wait_for gives up on the start-up call after 15 s.  Cancelled   *)
(* in the settle sleep it leaves a live connection behind in _clients, in  *)
(* state CONNECTING; cancelled in the handshake, a dead one, whose closing *)
(* socket may fire the disconnected event.                                 *)
PrewarmTimesOut ==
    /\ req[Prewarm] \in {"wait", "attempt"}
    /\ req' = [req EXCEPT ![Prewarm] = "idle"]
    /\ \/ /\ req[Prewarm] = "wait"
          /\ waiters' = ForgetWaiter(Prewarm)
          /\ UNCHANGED <<attempt, client, addr, st, rec>>
       \/ /\ req[Prewarm] = "attempt"
          /\ attempt' = None
          /\ client' = [client EXCEPT ![attempt.id] =
                           IF @ = "pending" THEN "down" ELSE @]
          /\ \/ UNCHANGED <<addr, st, rec, waiters>>
             \/ attempt.phase = "handshake" /\ OnDisconnect(attempt.id)
    /\ UNCHANGED <<bound, mapped, idVars, twsVars, closed>>

-----------------------------------------------------------------------------
(* Lifespan shutdown: no handler is running any more; disconnect_all()     *)
(* disconnects the role if it is bound.                                    *)
DisconnectAll ==
    /\ \A q \in Request : req[q] = "idle"
    /\ closed' = TRUE
    /\ \/ /\ bound = None
          /\ UNCHANGED <<bound, mapped, client, st, lockVars, rec, own>>
       \/ /\ bound # None
          /\ rec' = None
          /\ waiters' = ForgetWaiter(Reconnect)
          /\ attempt' = IF attempt = None THEN None
                        ELSE [attempt EXCEPT !.phase = "cancelled"]
          /\ client' = Cleanup(bound)
          /\ st' = [st EXCEPT ![bound] = "disconnected"]
          /\ bound' = None /\ mapped' = mapped \ {bound}
          /\ own' = own \ {bound}
    /\ UNCHANGED <<addr, req, other, retired, twsVars>>

-----------------------------------------------------------------------------
(* The environment.  A lease is never renewed while its connection lives,  *)
(* so it runs out and another process may take the id.                     *)
LeaseExpires(id) ==
    /\ id \in own
    /\ own' = own \ {id}
    /\ UNCHANGED <<other, twsUp, twsBusy>>

OtherLeases(id) ==
    /\ id \notin own
    /\ other' = IF id \in other THEN other \ {id} ELSE other \cup {id}
    /\ UNCHANGED <<own, twsUp, twsBusy>>

TwsFlips ==
    /\ twsUp' = ~twsUp
    /\ UNCHANGED <<own, other, twsBusy>>

OtherConnects(id) ==
    /\ client[id] # "up"
    /\ twsBusy' = IF id \in twsBusy THEN twsBusy \ {id} ELSE twsBusy \cup {id}
    /\ UNCHANGED <<own, other, twsUp>>

Environment ==
    /\ faults < MaxFaults
    /\ faults' = faults + 1
    /\ \/ \E id \in Ids : LeaseExpires(id) \/ OtherLeases(id) \/ OtherConnects(id)
       \/ TwsFlips
    /\ UNCHANGED <<addr, bound, mapped, client, st, lockVars, req, rec, retired,
                   closed>>

ReconnectTask ==
    ReconnectWakes \/ ReconnectProbes \/ ReconnectProbed \/ ReconnectUnreachable

AttemptEnds ==
    \/ HandshakeDone \/ Settled \/ RejectedRetries \/ RejectedExhausted
    \/ AttemptFails

(* After disconnect_all() the event loop is torn down: what was cancelled  *)
(* ends, and nothing else runs.                                            *)
Running ==
    /\ ~closed
    /\ \/ GrantLock
       \/ \E q \in Request : \/ RequestStart(q) \/ RequestProbe(q)
                             \/ RequestProbed(q) \/ RequestUnreachable(q)
       \/ ReconnectTask
       \/ AttemptEnds \/ AttemptTimesOut \/ AttemptTimesOutWithEvent
       \/ \E id \in Ids : ConnectionDrops(id)
       \/ PrewarmTimesOut
       \/ DisconnectAll
       \/ Environment

Terminated == closed /\ attempt = None /\ UNCHANGED vars

Next == Running \/ CancelledEnds \/ Terminated

(* The event loop runs every task that is ready: the lock is handed on, a  *)
(* reconnect task wakes and probes, and an attempt comes to its end.       *)
Fairness ==
    /\ WF_vars(~closed /\ GrantLock)
    /\ WF_vars(~closed /\ ReconnectTask)
    /\ WF_vars(~closed /\ AttemptEnds)
    /\ WF_vars(CancelledEnds)

Spec == Init /\ [][Next]_vars /\ Fairness

-----------------------------------------------------------------------------
(* /health and /tws-status read the pool's book-keeping.  When they say    *)
(* connected, the IB object they stand for is: no interleaving of a drop,  *)
(* an attempt that settles and a cancelled task leaves CONNECTED behind.   *)
ConnectedIsLive ==
    bound # None /\ st[bound] = "connected" => client[bound] = "up"

(* A role whose connection dropped always has somebody at work on it: a    *)
(* registered reconnect task, or the attempt under the lock.  A reconnect  *)
(* task that was replaced does not unregister its successor.               *)
DroppedIsAttended ==
    bound # None /\ st[bound] = "disconnected" =>
        rec # None \/ attempt # None

(* The process keeps one connection: the only live or pending IB object is *)
(* the one the role is bound to, and the only lease held is that id's; a   *)
(* failed, rejected or cancelled attempt leaks neither.                    *)
NothingLeaks ==
    /\ \A id \in Ids : client[id] # None => id = bound
    /\ own \subseteq {bound}
    /\ closed => \A id \in Ids : client[id] = None /\ id \notin own

(* Once TWS stays reachable and its disturbances stop, a reconnect task    *)
(* gets its connection, unless the client ids run out: the scan starts at  *)
(* the bound id, and skips the retired and those other processes lease.    *)
ReconnectSucceeds ==
    rec # None ~> (HasLive \/ ~twsUp \/ Acquirable = None \/ closed)
=============================================================================
