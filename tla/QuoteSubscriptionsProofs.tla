---------------------- MODULE QuoteSubscriptionsProofs ----------------------
(***************************************************************************)
(* Theorems about QuoteSubscriptions, for every number of symbols, shards  *)
(* and connections, every threshold and cap, and any edits and faults: the *)
(* queue and its marks, and the tickers and the list of shards, agree; no  *)
(* ticker is left of a symbol nobody wants; real-time bars keep to their   *)
(* cap and market data lines to the connections that are up.               *)
(***************************************************************************)
EXTENDS QuoteSubscriptions, FiniteSetTheorems, FunctionTheorems, SequenceTheorems, TLAPS

(* A ticker is of a wanted symbol, or of one that a refresh took off the   *)
(* lists and is about to cancel.                                           *)
Leaving(s) == \E t \in Refresher : task[t].pc = "clearing" /\ s \in task[t].removed
NoStrangers == \A s \in Symbols : owner[s] # 0 => s \in Wanted \/ Leaving(s)

(* MAX_REALTIME_BAR_SUBSCRIPTIONS.                                         *)
BarsCapped == Cardinality(bars) <= MaxBars

(* A connection that is not up serves no line.                             *)
LinesNeedLink == \A c \in Conns, s \in Symbols : lines[c][s] > 0 => link[c] = "up"

(* TypeOK and BooksAgree, taken apart by what the actions change together. *)
QueueOK ==
    /\ queue \in Seq(Kind \X Symbols)
    /\ queued \in [Kind -> SUBSET Symbols]
    /\ QueuedIsInQueue
ShardsOK ==
    /\ shards \in Seq(Conns) /\ Len(shards) \in 1 .. MaxShards
    /\ owner \in [Symbols -> 0 .. MaxShards]
    /\ OwnerInRange
LinesOK ==
    /\ link \in [Conns -> {"down", "busy", "up"}]
    /\ lines \in [Conns -> [Symbols -> Nat]]
    /\ LinesNeedLink
TasksOK == task \in [Task -> Local] /\ turn \in Task \cup {None} /\ dead \in BOOLEAN
ListsOK ==
    /\ table \in [Refresher -> SUBSET Symbols] /\ list \in [Refresher -> SUBSET Symbols]
    /\ failed \subseteq Symbols
    /\ bars \subseteq Symbols /\ BarsCapped
CountsOK == edits \in 0 .. MaxEdits /\ faults \in 0 .. MaxFaults

IInv == QueueOK /\ ShardsOK /\ LinesOK /\ TasksOK /\ ListsOK /\ CountsOK /\ NoStrangers

-----------------------------------------------------------------------------
(* Numbers and sequences. *)
LEMMA LeastOfNumbers ==
    ASSUME NEW S \in SUBSET Nat, S # {}
    PROVE  \E n \in S : \A k \in S : n <= k
<1> DEFINE Less == {ss \in Nat \X Nat : ss[1] < ss[2]}
<1>1. IsWellFoundedOn(Less, Nat)
  BY NatLessThanWellFounded DEF OpToRel
<1>2. PICK n \in S : \A k \in S : ~ (<<k, n>> \in Less)
  <2> HIDE DEF Less
  <2> QED
    BY <1>1, WFMin
<1>3. ASSUME NEW k \in S PROVE n <= k
  <2>1. k \in Nat /\ n \in Nat
    OBVIOUS
  <2>2. <<k, n>> \notin Less
    BY <1>2
  <2>3. k < n => <<k, n>> \in Less
    BY <2>1
  <2> QED
    BY <2>1, <2>2, <2>3
<1> QED
  BY <1>3

Holds(q, e) == \E i \in DOMAIN q : q[i] = e

LEMMA SetToSeqHoldsAll ==
    ASSUME NEW S, IsFiniteSet(S)
    PROVE  SetToSeq(S) \in Seq(S) /\ \A e \in S : Holds(SetToSeq(S), e)
<1> DEFINE n == Cardinality(S)
           f == SetToSeq(S)
<1>1. n \in Nat /\ ExistsBijection(1 .. n, S)
  BY FS_CardinalityType
<1>2. \E g \in [1 .. n -> S] : IsInjective(g)
  BY <1>1 DEF ExistsBijection, Bijection, Injection
<1>3. f \in [1 .. n -> S] /\ IsInjective(f)
  BY <1>2 DEF SetToSeq
<1> HIDE DEF f
<1>4. IsFiniteSet(1 .. n) /\ Cardinality(1 .. n) = n
  BY <1>1, FS_Interval
<1>5. f \in Injection(1 .. n, S)
  BY <1>3 DEF Injection
<1>6. f \in Surjection(1 .. n, S)
  BY <1>4, <1>5, FS_Injection
<1>7. \A e \in S : \E i \in 1 .. n : f[i] = e
  BY <1>6 DEF Surjection
<1>8. f \in Seq(S) /\ DOMAIN f = 1 .. n
  BY <1>1, <1>3
<1> QED
  BY <1>7, <1>8 DEF Holds, f

LEMMA ConcatHoldsBoth ==
    ASSUME NEW S, NEW p \in Seq(S), NEW q \in Seq(S)
    PROVE  /\ p \o q \in Seq(S)
           /\ \A e : Holds(p, e) \/ Holds(q, e) => Holds(p \o q, e)
<1>1. p \o q \in Seq(S) /\ Len(p \o q) = Len(p) + Len(q)
  BY ConcatProperties
<1>2. \A i \in 1 .. Len(p) + Len(q) : (p \o q)[i] = IF i <= Len(p) THEN p[i] ELSE q[i - Len(p)]
  BY ConcatProperties
<1>3. Len(p) \in Nat /\ Len(q) \in Nat
  OBVIOUS
<1>4. ASSUME NEW e, Holds(p, e) PROVE Holds(p \o q, e)
  <2>1. PICK i \in 1 .. Len(p) : p[i] = e
    BY <1>4 DEF Holds
  <2>2. i \in 1 .. Len(p) + Len(q) /\ (p \o q)[i] = e
    BY <1>2, <1>3, <2>1
  <2> QED
    BY <1>1, <2>2 DEF Holds
<1>5. ASSUME NEW e, Holds(q, e) PROVE Holds(p \o q, e)
  <2>1. PICK i \in 1 .. Len(q) : q[i] = e
    BY <1>5 DEF Holds
  <2>2. Len(p) + i \in 1 .. Len(p) + Len(q) /\ (p \o q)[Len(p) + i] = e
    BY <1>2, <1>3, <2>1
  <2> QED
    BY <1>1, <2>2 DEF Holds
<1> QED
  BY <1>1, <1>4, <1>5

LEMMA TailHoldsOthers ==
    ASSUME NEW S, NEW q \in Seq(S), q # <<>>
    PROVE  /\ Head(q) \in S /\ Tail(q) \in Seq(S)
           /\ \A e : Holds(q, e) /\ e # Head(q) => Holds(Tail(q), e)
<1>1. /\ Head(q) \in S /\ Tail(q) \in Seq(S) /\ Len(Tail(q)) = Len(q) - 1
      /\ \A i \in 1 .. Len(Tail(q)) : Tail(q)[i] = q[i + 1]
  BY HeadTailProperties
<1>2. ASSUME NEW e, Holds(q, e), e # Head(q) PROVE Holds(Tail(q), e)
  <2>1. PICK i \in 1 .. Len(q) : q[i] = e
    BY <1>2 DEF Holds
  <2>2. i # 1
    <3>1. Head(q) = q[1]
      OBVIOUS
    <3> QED
      BY <1>2, <2>1, <3>1
  <2>3. i - 1 \in 1 .. Len(Tail(q)) /\ Tail(q)[i - 1] = e
    BY <1>1, <2>1, <2>2
  <2>4. DOMAIN Tail(q) = 1 .. Len(Tail(q))
    BY <1>1, LenProperties
  <2> QED
    BY <2>3, <2>4 DEF Holds
<1> QED
  BY <1>1, <1>2

-----------------------------------------------------------------------------
(* The operators of the model. *)
LEMMA AllAreQueued ==
    ASSUME NEW kind \in Kind, NEW syms \in SUBSET Symbols, NEW q \in Seq(Kind \X Symbols)
    PROVE  /\ WithAll(kind, syms, q) \in Seq(Kind \X Symbols)
           /\ \A e : Holds(q, e) => Holds(WithAll(kind, syms, q), e)
           /\ \A s \in syms : Holds(WithAll(kind, syms, q), <<kind, s>>)
<1> DEFINE new == {kind} \X syms
<1>1. IsFiniteSet(new)
  <2>1. IsFiniteSet(syms)
    BY SetsAssumption, FS_Subset
  <2>2. IsFiniteSet({kind})
    BY FS_Singleton
  <2> QED
    BY <2>1, <2>2, FS_Product
<1>2. SetToSeq(new) \in Seq(new) /\ \A e \in new : Holds(SetToSeq(new), e)
  BY <1>1, SetToSeqHoldsAll
<1>3. SetToSeq(new) \in Seq(Kind \X Symbols)
  <2>1. new \subseteq Kind \X Symbols
    OBVIOUS
  <2> HIDE DEF new
  <2> QED
    BY <1>2, <2>1, SeqMonotonic
<1>4. \A s \in syms : <<kind, s>> \in new
  OBVIOUS
<1>5. WithAll(kind, syms, q) = q \o SetToSeq(new)
  BY DEF WithAll
<1> HIDE DEF new
<1> QED
  BY <1>2, <1>3, <1>4, <1>5, ConcatHoldsBoth

LEMMA DesiredIsANumberOfShards ==
    ASSUME NEW n \in Nat PROVE Desired(n) \in 1 .. MaxShards
<1>1. Threshold \in Nat \ {0} /\ MaxShards \in Nat \ {0}
  BY SizesAssumption
<1>2. (n + Threshold - 1) \div Threshold \in Int
  BY <1>1
<1> QED
  BY <1>1, <1>2 DEF Desired

LEMMA WantedIsCounted == ListsOK => Wanted \subseteq Symbols /\ Cardinality(Wanted) \in Nat
<1> SUFFICES ASSUME ListsOK PROVE Wanted \subseteq Symbols /\ Cardinality(Wanted) \in Nat
  OBVIOUS
<1>1. Wanted \subseteq Symbols
  BY DEF ListsOK, Wanted, Refresher
<1> QED
  BY <1>1, SetsAssumption, FS_Subset, FS_CardinalityType

(* Tickers only go: cancel_quote_subscription.                             *)
LEMMA CancelKeeps ==
    ASSUME ShardsOK, NEW syms \in SUBSET Symbols
    PROVE  /\ Without(syms) \in [Symbols -> 0 .. MaxShards]
           /\ \A s \in Symbols : Without(syms)[s] = IF s \in syms THEN 0 ELSE owner[s]
<1>1. MaxShards \in Nat
  BY SizesAssumption
<1> QED
  BY <1>1 DEF ShardsOK, Without

LEMMA CancelledLines ==
    ASSUME LinesOK, NEW syms \in SUBSET Symbols, NEW links
    PROVE  /\ Cancelled(syms, links) \in [Conns -> [Symbols -> Nat]]
           /\ \A c \in Conns, s \in Symbols :
                Cancelled(syms, links)[c][s] > 0 => lines[c][s] > 0
<1>1. \A c \in Conns, s \in Symbols : lines[c][s] \in Nat
  BY DEF LinesOK
<1> DEFINE left(c, s) ==
        IF /\ s \in syms /\ owner[s] \in DOMAIN shards
           /\ shards[owner[s]] = c /\ links[c] = "up" /\ lines[c][s] > 0
        THEN lines[c][s] - 1 ELSE lines[c][s]
<1>2. \A c \in Conns, s \in Symbols : left(c, s) \in Nat /\ (left(c, s) > 0 => lines[c][s] > 0)
  BY <1>1
<1>3. Cancelled(syms, links) = [c \in Conns |-> [s \in Symbols |-> left(c, s)]]
  BY DEF Cancelled
<1> HIDE DEF left
<1> QED
  BY <1>2, <1>3

-----------------------------------------------------------------------------
(* What the parts of the actions preserve. *)
LEMMA QueueingKeeps ==
    ASSUME QueueOK, NEW quotes \in SUBSET Symbols, NEW rts \in SUBSET Symbols,
           queue' = WithAll("realtime", rts, WithAll("quote", quotes, queue)),
           queued' = [queued EXCEPT !["quote"] = @ \cup quotes, !["realtime"] = @ \cup rts]
    PROVE  QueueOK'
<1> DEFINE mid == WithAll("quote", quotes, queue)
<1>1. /\ mid \in Seq(Kind \X Symbols)
      /\ \A e : Holds(queue, e) => Holds(mid, e)
      /\ \A s \in quotes : Holds(mid, <<"quote", s>>)
  BY AllAreQueued DEF QueueOK, Kind
<1> HIDE DEF mid
<1>2. /\ queue' \in Seq(Kind \X Symbols)
      /\ \A e : Holds(mid, e) => Holds(queue', e)
      /\ \A s \in rts : Holds(queue', <<"realtime", s>>)
  BY <1>1, AllAreQueued DEF Kind, mid
<1>3. queued' \in [Kind -> SUBSET Symbols]
  BY DEF QueueOK, Kind
<1>4. \A k \in Kind : \A s \in queued[k] : Holds(queue, <<k, s>>)
  BY DEF QueueOK, QueuedIsInQueue, Holds
<1>5. \A s \in queued'["quote"] : Holds(queue', <<"quote", s>>)
  BY <1>1, <1>2, <1>4 DEF QueueOK, Kind
<1>6. \A s \in queued'["realtime"] : Holds(queue', <<"realtime", s>>)
  BY <1>1, <1>2, <1>4 DEF QueueOK, Kind
<1>7. \A k \in Kind : \A s \in queued'[k] : Holds(queue', <<k, s>>)
  BY <1>5, <1>6 DEF Kind
<1> QED
  BY <1>2, <1>3, <1>7 DEF QueueOK, QueuedIsInQueue, Holds

LEMMA QueueAgainKeeps ==
    ASSUME QueueOK, NEW syms \in SUBSET Symbols, QueueAgain(syms)
    PROVE  QueueOK'
<1>0. /\ queue' = WithAll("quote", syms, queue)
      /\ queued' = [queued EXCEPT !["quote"] = @ \cup syms]
  BY DEF QueueAgain
<1>1. /\ queue' \in Seq(Kind \X Symbols)
      /\ \A e : Holds(queue, e) => Holds(queue', e)
      /\ \A s \in syms : Holds(queue', <<"quote", s>>)
  BY <1>0, AllAreQueued DEF QueueOK, Kind
<1>2. queued' \in [Kind -> SUBSET Symbols]
  BY <1>0 DEF QueueOK, Kind
<1>3. \A k \in Kind : \A s \in queued[k] : Holds(queue, <<k, s>>)
  BY DEF QueueOK, QueuedIsInQueue, Holds
<1>4. \A k \in Kind : \A s \in queued'[k] : s \in queued[k] \/ (k = "quote" /\ s \in syms)
  BY <1>0 DEF QueueOK, Kind
<1>5. \A k \in Kind : \A s \in queued'[k] : Holds(queue', <<k, s>>)
  BY <1>1, <1>3, <1>4
<1> QED
  BY <1>1, <1>2, <1>5 DEF QueueOK, QueuedIsInQueue, Holds

(* The head of the queue leaves it together with its mark.                 *)
LEMMA PopKeeps ==
    ASSUME QueueOK, queue # <<>>, NEW kind \in Kind, NEW s, Head(queue) = <<kind, s>>,
           queue' = Tail(queue), queued' = [queued EXCEPT ![kind] = @ \ {s}]
    PROVE  QueueOK'
<1>1. /\ queue' \in Seq(Kind \X Symbols)
      /\ \A e : Holds(queue, e) /\ e # <<kind, s>> => Holds(queue', e)
  BY TailHoldsOthers DEF QueueOK
<1>2. queued' \in [Kind -> SUBSET Symbols]
  BY DEF QueueOK
<1>3. \A k \in Kind : \A x \in queued[k] : Holds(queue, <<k, x>>)
  BY DEF QueueOK, QueuedIsInQueue, Holds
<1>4. \A k \in Kind : \A x \in queued'[k] : x \in queued[k] /\ <<k, x>> # <<kind, s>>
  BY DEF QueueOK
<1>5. \A k \in Kind : \A x \in queued'[k] : Holds(queue', <<k, x>>)
  BY <1>1, <1>3, <1>4
<1> QED
  BY <1>1, <1>2, <1>5 DEF QueueOK, QueuedIsInQueue, Holds

LEMMA DisconnectKeeps ==
    ASSUME LinesOK, NEW c, NotConnected(c) PROVE LinesOK'
<1>1. /\ link' = [link EXCEPT ![c] = "down"]
      /\ lines' = [lines EXCEPT ![c] = [s \in Symbols |-> 0]]
  BY DEF NotConnected
<1>2. [s \in Symbols |-> 0] \in [Symbols -> Nat]
  OBVIOUS
<1>3. /\ link' \in [Conns -> {"down", "busy", "up"}]
      /\ lines' \in [Conns -> [Symbols -> Nat]]
  BY <1>1, <1>2 DEF LinesOK
<1>4. ASSUME NEW d \in Conns, NEW s \in Symbols, lines'[d][s] > 0 PROVE link'[d] = "up"
  <2>1. d # c
    BY <1>1, <1>4 DEF LinesOK
  <2> QED
    BY <1>1, <1>4, <2>1 DEF LinesOK, LinesNeedLink
<1> QED
  BY <1>3, <1>4 DEF LinesOK, LinesNeedLink

LEMMA ConnectKeeps ==
    ASSUME LinesOK, NEW c, link' = Connected(c),
           lines' \in [Conns -> [Symbols -> Nat]],
           \A d \in Conns, s \in Symbols : lines'[d][s] > 0 => lines[d][s] > 0
    PROVE  LinesOK'
BY DEF LinesOK, LinesNeedLink, Connected

LEMMA SetKeeps ==
    ASSUME TasksOK, NEW t \in Task, NEW new \in Local, Set(t, new)
    PROVE  /\ task' \in [Task -> Local] /\ task'[t] = new
           /\ \A u \in Task : u # t => task'[u] = task[u]
BY DEF TasksOK, Set

LEMMA LocalsKeep ==
    ASSUME TasksOK
    PROVE  /\ Rest \in Local
           /\ \A t \in Task : /\ task[t] \in Local
                             /\ \A pc \in {"idle", "clearing", "adjust", "shrink", "connecting"} :
                                  At(t, pc) \in Local /\ At(t, pc).pc = pc
<1>1. 1 \in 1 .. MaxShards
  BY SizesAssumption
<1> QED
  BY SMTT(60), <1>1 DEF TasksOK, At, Rest, Local

LEMMA NoneStrays ==
    ASSUME NoStrangers, UNCHANGED list,
           \A s \in Symbols : owner'[s] # 0 => owner[s] # 0,
           \A t \in Refresher : task[t].pc = "clearing" => task'[t] = task[t]
    PROVE  NoStrangers'
<1>1. \A s : Leaving(s) => Leaving(s)'
  BY DEF Leaving
<1>2. Wanted' = Wanted
  BY DEF Wanted
<1> QED
  BY <1>1, <1>2 DEF NoStrangers

-----------------------------------------------------------------------------
(* The steps.                                                              *)
LEMMA InitIInv == Init => IInv
<1> SUFFICES ASSUME Init PROVE IInv
  OBVIOUS
<1>1. PICK first \in Conns :
        /\ shards = <<first>>
        /\ link = [c \in Conns |-> IF c = first THEN "up" ELSE "down"]
  BY SetsAssumption DEF Init
<1>2. QueueOK
  <2>1. queued = [k \in Kind |-> {}] /\ queue = <<>>
    BY DEF Init
  <2> QED
    BY <2>1, EmptySeq DEF QueueOK, QueuedIsInQueue
<1>3. ShardsOK
  <2>1. shards \in Seq(Conns) /\ Len(shards) = 1
    BY <1>1
  <2>2. MaxShards \in Nat \ {0}
    BY SizesAssumption
  <2>3. owner = [s \in Symbols |-> 0]
    BY DEF Init
  <2> QED
    BY <2>1, <2>2, <2>3 DEF ShardsOK, OwnerInRange
<1>4. LinesOK
  <2>1. lines = [c \in Conns |-> [s \in Symbols |-> 0]]
    BY DEF Init
  <2>2. link \in [Conns -> {"down", "busy", "up"}]
    BY <1>1
  <2>3. \A c \in Conns : lines[c] \in [Symbols -> Nat] /\ \A s \in Symbols : lines[c][s] = 0
    BY <2>1
  <2>4. lines \in [Conns -> [Symbols -> Nat]]
    BY <2>1, <2>3
  <2> QED
    BY <2>2, <2>3, <2>4 DEF LinesOK, LinesNeedLink
<1>5. TasksOK
  <2>1. Rest \in Local
    <3>1. 1 \in 1 .. MaxShards
      BY SizesAssumption
    <3> QED
      BY <3>1 DEF Rest, Local
  <2>2. task = [t \in Task |-> Rest] /\ turn = None /\ dead = FALSE
    BY DEF Init
  <2> QED
    BY <2>1, <2>2 DEF TasksOK
<1>6. ListsOK
  <2>1. /\ table \in [Refresher -> SUBSET Symbols] /\ list = [t \in Refresher |-> {}]
        /\ failed = {} /\ bars = {}
    BY DEF Init
  <2>2. MaxBars \in Nat
    BY SizesAssumption
  <2>3. BarsCapped
    BY <2>1, <2>2, FS_EmptySet DEF BarsCapped
  <2> QED
    BY <2>1, <2>3 DEF ListsOK
<1>7. CountsOK
  BY BoundsAssumption DEF Init, CountsOK
<1>8. NoStrangers
  BY DEF Init, NoStrangers
<1> QED
  BY <1>2, <1>3, <1>4, <1>5, <1>6, <1>7, <1>8 DEF IInv

LEMMA StepIInv == IInv /\ [Next]_vars => IInv'
<1> SUFFICES ASSUME IInv, [Next]_vars PROVE IInv'
  OBVIOUS
<1> USE DEF net, subs, bounds
<1>0. QueueOK /\ ShardsOK /\ LinesOK /\ TasksOK /\ ListsOK /\ CountsOK /\ NoStrangers
  BY DEF IInv
<1>f. \A kind : Fault(kind) => faults' \in 0 .. MaxFaults
  BY <1>0, BoundsAssumption DEF Fault, CountsOK
<1>r. Refresher \subseteq Task /\ "R" \in Task /\ "R" \notin Refresher
  BY DEF Refresher, Task
<1>1. ASSUME NEW t \in Refresher, Edit(t) PROVE IInv'
  <2>1. ListsOK'
    BY <1>0, <1>1 DEF Edit, ListsOK, BarsCapped
  <2>2. CountsOK'
    BY <1>0, <1>1, BoundsAssumption DEF Edit, CountsOK
  <2>3. QueueOK' /\ ShardsOK'
    BY <1>0, <1>1 DEF Edit, QueueOK, QueuedIsInQueue, ShardsOK, OwnerInRange
  <2>4. LinesOK' /\ TasksOK'
    BY <1>0, <1>1 DEF Edit, LinesOK, LinesNeedLink, TasksOK
  <2>5. NoStrangers'
    BY <1>0, <1>1, NoneStrays DEF Edit
  <2> QED
    BY <2>1, <2>2, <2>3, <2>4, <2>5 DEF IInv
<1>2. ASSUME NEW t \in Refresher, RefreshReads(t) PROVE IInv'
  <2> DEFINE gone == list[t] \ table[t]
             new == table[t] \ list[t]
             local == [Rest EXCEPT !.pc = "clearing",
                         !.added = new \ list[Other(t)], !.removed = gone \ list[Other(t)],
                         !.rtAdded = IF t = "A" THEN new ELSE {},
                         !.rtRemoved = IF t = "A" THEN gone ELSE {}]
  <2>0. /\ task[t].pc = "idle" /\ list' = [list EXCEPT ![t] = table[t]]
        /\ Set(t, local)
        /\ UNCHANGED <<table, shards, link, owner, lines, bars, queue, queued, failed, turn, dead,
                       edits, faults>>
    BY <1>2 DEF RefreshReads
  <2>1. ListsOK'
    BY <1>0, <2>0 DEF ListsOK, BarsCapped
  <2>2. /\ local \in Local /\ local.pc = "clearing"
        /\ local.removed = gone \ list[Other(t)]
    <3>1. gone \subseteq Symbols /\ new \subseteq Symbols
      BY <1>0 DEF ListsOK
    <3>2. 1 \in 1 .. MaxShards
      BY SizesAssumption
    <3> HIDE DEF gone, new
    <3> QED
      BY <3>1, <3>2 DEF Rest, Local
  <2>3. task' \in [Task -> Local] /\ task'[t] = local /\ \A u \in Task : u # t => task'[u] = task[u]
    <3> HIDE DEF local
    <3> QED
      BY <1>0, <1>r, <2>0, <2>2, SetKeeps
  <2>4. NoStrangers'
    <3>1. Other(t) \in Refresher /\ t \in {"W", "A"} /\ Other(t) # t /\ Refresher = {t, Other(t)}
      BY DEF Other, Refresher
    <3>2. Wanted = list[t] \cup list[Other(t)] /\ Wanted' = table[t] \cup list[Other(t)]
      BY <1>0, <2>0, <3>1 DEF Wanted, Other, ListsOK, Refresher
    <3>3. ASSUME NEW s \in Symbols, owner'[s] # 0 PROVE s \in Wanted' \/ Leaving(s)'
      <4>1. s \in Wanted \/ Leaving(s)
        BY <1>0, <2>0, <3>3 DEF NoStrangers
      <4>2. CASE s \in Wanted
        <5>1. s \in Wanted' \/ s \in gone \ list[Other(t)]
          BY <3>2, <4>2
        <5>2. s \in gone \ list[Other(t)] => Leaving(s)'
          BY <2>2, <2>3 DEF Leaving
        <5> QED
          BY <5>1, <5>2
      <4>3. CASE Leaving(s)
        <5>1. PICK u \in Refresher : task[u].pc = "clearing" /\ s \in task[u].removed
          BY <4>3 DEF Leaving
        <5>2. task'[u] = task[u]
          BY <1>r, <2>0, <2>3, <5>1
        <5> QED
          BY <5>1, <5>2 DEF Leaving
      <4> QED
        BY <4>1, <4>2, <4>3
    <3> QED
      BY <3>3 DEF NoStrangers
  <2>5. TasksOK' /\ CountsOK'
    BY <1>0, <2>0, <2>3 DEF TasksOK, CountsOK
  <2>6. QueueOK' /\ ShardsOK' /\ LinesOK'
    BY <1>0, <2>0 DEF QueueOK, QueuedIsInQueue, ShardsOK, OwnerInRange, LinesOK, LinesNeedLink
  <2> QED
    BY <2>1, <2>4, <2>5, <2>6 DEF IInv
<1>3. ASSUME NEW t \in Refresher, RefreshCancels(t) PROVE IInv'
  <2> DEFINE local == [At(t, "adjust") EXCEPT !.desired = Desired(Cardinality(Wanted))]
             gone == task[t].removed
             rtGone == task[t].rtRemoved
  <2>0. /\ owner' = Without(gone) /\ lines' = Cancelled(gone, link)
        /\ bars' = bars \ rtGone
        /\ queued' = [queued EXCEPT !["quote"] = @ \ gone, !["realtime"] = @ \ rtGone]
        /\ failed' = failed \ gone /\ Set(t, local) /\ turn' = t
        /\ UNCHANGED <<table, list, shards, link, queue, dead, edits, faults>>
    BY <1>3 DEF RefreshCancels
  <2>1. task[t] \in Local /\ gone \in SUBSET Symbols /\ rtGone \in SUBSET Symbols
    BY <1>0, <1>r DEF TasksOK, Local
  <2>2. local \in Local /\ local.pc = "adjust"
    <3>1. Desired(Cardinality(Wanted)) \in 1 .. MaxShards
      BY <1>0, WantedIsCounted, DesiredIsANumberOfShards
    <3>2. At(t, "adjust") \in Local /\ At(t, "adjust").pc = "adjust"
      BY <1>0, <1>r, LocalsKeep
    <3> QED
      BY <3>1, <3>2 DEF Local
  <2>3. task' \in [Task -> Local] /\ task'[t] = local /\ \A u \in Task : u # t => task'[u] = task[u]
    <3> HIDE DEF local
    <3> QED
      BY <1>0, <1>r, <2>0, <2>2, SetKeeps
  <2> HIDE DEF local, gone, rtGone
  <2>4. QueueOK'
    BY <1>0, <2>0 DEF QueueOK, QueuedIsInQueue, Kind
  <2>5. /\ Without(gone) \in [Symbols -> 0 .. MaxShards]
        /\ \A s \in Symbols : Without(gone)[s] = IF s \in gone THEN 0 ELSE owner[s]
    BY <1>0, <2>1, CancelKeeps
  <2>6. ShardsOK'
    BY <1>0, <2>0, <2>5 DEF ShardsOK, OwnerInRange
  <2>7. LinesOK'
    BY <1>0, <2>0, <2>1, CancelledLines DEF LinesOK, LinesNeedLink
  <2>8. ListsOK'
    <3>1. IsFiniteSet(bars)
      BY <1>0, SetsAssumption, FS_Subset DEF ListsOK
    <3>2. bars' \subseteq bars
      BY <2>0
    <3>3. Cardinality(bars') <= Cardinality(bars) /\ Cardinality(bars') \in Nat /\ Cardinality(bars) \in Nat
      BY <3>1, <3>2, FS_Subset, FS_CardinalityType
    <3>4. MaxBars \in Nat
      BY SizesAssumption
    <3>5. BarsCapped'
      BY <1>0, <3>3, <3>4 DEF ListsOK, BarsCapped
    <3> QED
      BY <1>0, <2>0, <3>5 DEF ListsOK
  <2>9. NoStrangers'
    <3>1. ASSUME NEW s \in Symbols, owner'[s] # 0 PROVE s \in Wanted' \/ Leaving(s)'
      <4>1. s \notin gone /\ owner[s] # 0
        BY <2>0, <2>5, <3>1
      <4>2. s \in Wanted \/ Leaving(s)
        BY <1>0, <4>1 DEF NoStrangers
      <4>3. CASE s \in Wanted
        BY <2>0, <4>3 DEF Wanted
      <4>4. CASE Leaving(s)
        <5>1. PICK u \in Refresher : task[u].pc = "clearing" /\ s \in task[u].removed
          BY <4>4 DEF Leaving
        <5>2. task'[u] = task[u]
          BY <1>r, <2>3, <4>1, <5>1 DEF gone
        <5> QED
          BY <5>1, <5>2 DEF Leaving
      <4> QED
        BY <4>2, <4>3, <4>4
    <3> QED
      BY <3>1 DEF NoStrangers
  <2>10. TasksOK' /\ CountsOK'
    BY <1>0, <1>r, <2>0, <2>3 DEF TasksOK, CountsOK
  <2> QED
    BY <2>4, <2>6, <2>7, <2>8, <2>9, <2>10 DEF IInv
<1>4. ASSUME NEW t \in Refresher, ShardAdded(t) PROVE IInv'
  <2>0. /\ task[t].pc = "adjust" /\ Len(shards) < task[t].desired
        /\ UNCHANGED <<table, list, owner, lines, bars, queue, queued, failed, dead, edits>>
    BY <1>4 DEF ShardAdded
  <2>1. task[t] \in Local /\ task[t].desired \in 1 .. MaxShards
    BY <1>0, <1>r DEF TasksOK, Local
  <2>2. QueueOK' /\ ListsOK'
    BY <1>0, <2>0 DEF QueueOK, QueuedIsInQueue, ListsOK, BarsCapped
  <2>3. CASE /\ \E c \in Conns : ~InUse(c)
             /\ LET c == CHOOSE c \in Conns : ~InUse(c)
                IN  /\ shards' = Append(shards, c)
                    /\ link' = [link EXCEPT ![c] = "busy"]
                    /\ Set(t, [At(t, "connecting") EXCEPT !.conn = c, !.i = Len(shards) + 1])
             /\ turn' = None
             /\ UNCHANGED faults
    <3>1. PICK c \in Conns : /\ ~InUse(c) /\ shards' = Append(shards, c)
                             /\ link' = [link EXCEPT ![c] = "busy"]
                             /\ Set(t, [At(t, "connecting") EXCEPT !.conn = c, !.i = Len(shards) + 1])
      BY <2>3
    <3> DEFINE local == [At(t, "connecting") EXCEPT !.conn = c, !.i = Len(shards) + 1]
    <3>2. local \in Local
      <4>1. At(t, "connecting") \in Local
        BY <1>0, <1>r, LocalsKeep
      <4>2. Len(shards) + 1 \in Nat
        BY <1>0 DEF ShardsOK
      <4> QED
        BY <4>1, <4>2 DEF Local
    <3>3. task' \in [Task -> Local] /\ \A u \in Task : u # t => task'[u] = task[u]
      <4> HIDE DEF local
      <4>1. Set(t, local)
        BY <3>1 DEF local
      <4> QED
        BY <1>0, <1>r, <3>2, <4>1, SetKeeps
    <3>4. ShardsOK'
      <4>1. shards' \in Seq(Conns) /\ Len(shards') = Len(shards) + 1
        BY <1>0, <3>1, AppendProperties DEF ShardsOK
      <4>2. Len(shards') \in 1 .. MaxShards
        BY <1>0, <2>0, <2>1, <4>1, SizesAssumption DEF ShardsOK
      <4>3. \A s \in Symbols : owner[s] <= Len(shards')
        BY <1>0, <4>1, SizesAssumption DEF ShardsOK, OwnerInRange
      <4> QED
        BY <1>0, <2>0, <4>1, <4>2, <4>3 DEF ShardsOK, OwnerInRange
    <3>5. LinesOK'
      <4>1. link[c] = "down"
        BY <1>0, <3>1 DEF InUse
      <4> QED
        BY <1>0, <2>0, <3>1, <4>1 DEF LinesOK, LinesNeedLink
    <3>6. TasksOK' /\ CountsOK'
      BY <1>0, <2>0, <2>3, <3>3 DEF TasksOK, CountsOK
    <3>7. NoStrangers'
      BY <1>0, <1>r, <2>0, <3>3, NoneStrays
    <3> QED
      BY <2>2, <3>4, <3>5, <3>6, <3>7 DEF IInv
  <2>4. CASE Fault("connect") /\ Set(t, At(t, "shrink")) /\ UNCHANGED <<shards, link, turn>>
    <3>1. task' \in [Task -> Local] /\ \A u \in Task : u # t => task'[u] = task[u]
      BY <1>0, <1>r, <2>4, SetKeeps, LocalsKeep
    <3>2. TasksOK' /\ CountsOK'
      BY <1>0, <1>f, <2>0, <2>4, <3>1 DEF TasksOK, CountsOK
    <3>3. ShardsOK' /\ LinesOK'
      BY <1>0, <2>0, <2>4 DEF ShardsOK, OwnerInRange, LinesOK, LinesNeedLink
    <3>4. NoStrangers'
      BY <1>0, <1>r, <2>0, <3>1, NoneStrays
    <3> QED
      BY <2>2, <3>2, <3>3, <3>4 DEF IInv
  <2> QED
    BY <1>4, <2>3, <2>4 DEF ShardAdded
<1>5. ASSUME NEW t \in Refresher, ShardConnected(t) PROVE IInv'
  <2>0. /\ task[t].pc = "connecting" /\ turn' = t
        /\ UNCHANGED <<table, list, shards, owner, bars, queue, queued, failed, dead, edits>>
    BY <1>5 DEF ShardConnected
  <2>1. QueueOK' /\ ListsOK' /\ ShardsOK'
    BY <1>0, <2>0 DEF QueueOK, QueuedIsInQueue, ListsOK, BarsCapped, ShardsOK, OwnerInRange
  <2>2. \A pc \in {"adjust", "shrink"} : [At(t, pc) EXCEPT !.conn = None] \in Local
    BY <1>0, <1>r, LocalsKeep DEF Local
  <2>3. /\ \E new \in Local : Set(t, new)
        /\ LinesOK'
        /\ faults' \in 0 .. MaxFaults
    <3>1. CASE /\ link' = Connected(task[t].conn)
               /\ Set(t, [At(t, IF task[t].i \in DOMAIN shards THEN "adjust" ELSE "shrink")
                            EXCEPT !.conn = None])
               /\ UNCHANGED <<lines, faults>>
      BY <1>0, <2>2, <3>1, ConnectKeeps DEF LinesOK, CountsOK
    <3>2. CASE /\ Fault("connect")
               /\ NotConnected(task[t].conn)
               /\ Set(t, [At(t, "adjust") EXCEPT !.conn = None])
      BY <1>0, <1>f, <2>2, <3>2, DisconnectKeeps
    <3> QED
      BY <1>5, <3>1, <3>2 DEF ShardConnected
  <2>4. task' \in [Task -> Local] /\ \A u \in Task : u # t => task'[u] = task[u]
    BY <1>0, <1>r, <2>3, SetKeeps
  <2>5. TasksOK' /\ CountsOK' /\ NoStrangers'
    <3>1. TasksOK' /\ CountsOK'
      BY <1>0, <1>r, <2>0, <2>3, <2>4 DEF TasksOK, CountsOK
    <3>2. NoStrangers'
      BY <1>0, <1>r, <2>0, <2>4, NoneStrays
    <3> QED
      BY <3>1, <3>2
  <2> QED
    BY <2>1, <2>3, <2>5 DEF IInv
<1>6. ASSUME NEW t \in Refresher, ShardRemoved(t) PROVE IInv'
  <2> DEFINE n == Len(shards)
  <2>0. /\ task[t].pc \in {"adjust", "shrink"} /\ n > task[t].desired
        /\ shards' = Front(shards) /\ owner' = Without(On(n)) /\ QueueAgain(On(n))
        /\ IF link[shards[n]] = "up" THEN NotConnected(shards[n]) ELSE UNCHANGED <<link, lines>>
        /\ Set(t, At(t, "shrink")) /\ turn' = t
        /\ UNCHANGED <<table, list, bars, failed, dead, edits, faults>>
    BY <1>6 DEF ShardRemoved
  <2>1. task[t].desired \in 1 .. MaxShards /\ MaxShards \in Nat
    BY <1>0, <1>r, SizesAssumption DEF TasksOK, Local
  <2>2. On(n) \in SUBSET Symbols /\ n \in Nat /\ n - 1 \in 1 .. MaxShards
    BY <1>0, <2>0, <2>1 DEF On, ShardsOK
  <2>3. QueueOK'
    BY <1>0, <2>0, <2>2, QueueAgainKeeps
  <2>4. /\ owner' \in [Symbols -> 0 .. MaxShards]
        /\ \A s \in Symbols : owner'[s] = IF s \in On(n) THEN 0 ELSE owner[s]
    BY <1>0, <2>0, <2>2, CancelKeeps
  <2>5. ShardsOK'
    <3>1. \A i \in 1 .. n - 1 : shards[i] \in Conns
      BY <1>0, <2>2, ElementOfSeq DEF ShardsOK
    <3>2. SubSeq(shards, 1, n - 1) \in Seq(Conns) /\ Len(SubSeq(shards, 1, n - 1)) = n - 1
      BY <2>2, <3>1, SubSeqProperties
    <3>3. shards' = SubSeq(shards, 1, n - 1)
      BY <2>0 DEF Front
    <3>4. \A s \in Symbols : owner'[s] <= n - 1
      BY <1>0, <2>1, <2>2, <2>4 DEF ShardsOK, OwnerInRange, On
    <3> QED
      BY <2>2, <2>4, <3>2, <3>3, <3>4 DEF ShardsOK, OwnerInRange
  <2>6. LinesOK'
    <3>1. CASE NotConnected(shards[n])
      BY <1>0, <3>1, DisconnectKeeps
    <3>2. CASE UNCHANGED <<link, lines>>
      BY <1>0, <3>2 DEF LinesOK, LinesNeedLink
    <3> QED
      BY <2>0, <3>1, <3>2
  <2>7. ListsOK' /\ CountsOK'
    BY <1>0, <2>0 DEF ListsOK, BarsCapped, CountsOK
  <2>8. task' \in [Task -> Local] /\ \A u \in Task : u # t => task'[u] = task[u]
    BY <1>0, <1>r, <2>0, SetKeeps, LocalsKeep
  <2>9. TasksOK'
    BY <1>0, <1>r, <2>0, <2>8 DEF TasksOK
  <2>10. NoStrangers'
    BY <1>0, <1>r, <2>0, <2>4, <2>8, NoneStrays
  <2> QED
    BY <2>3, <2>5, <2>6, <2>7, <2>9, <2>10 DEF IInv
<1>7. ASSUME NEW t \in Refresher, RefreshQueues(t) PROVE IInv'
  <2> DEFINE quotes == Missing("quote", task[t].added, HasTicker, queued)
             rts == Missing("realtime", task[t].rtAdded, bars, queued)
  <2>0. /\ \/ UNCHANGED <<queue, queued>>
           \/ /\ queue' = WithAll("realtime", rts, WithAll("quote", quotes, queue))
              /\ queued' = [queued EXCEPT !["quote"] = @ \cup quotes,
                                          !["realtime"] = @ \cup rts]
        /\ task[t].pc \in {"adjust", "shrink"}
        /\ failed' = failed \ task[t].added /\ Set(t, Rest) /\ turn' = None
        /\ UNCHANGED <<table, list, shards, link, owner, lines, bars, dead, edits, faults>>
    BY <1>7 DEF RefreshQueues
  <2>1. quotes \in SUBSET Symbols /\ rts \in SUBSET Symbols
    BY <1>0, <1>r DEF Missing, TasksOK, Local
  <2> HIDE DEF quotes, rts
  <2>2. QueueOK'
    <3>1. CASE UNCHANGED <<queue, queued>>
      BY <1>0, <3>1 DEF QueueOK, QueuedIsInQueue
    <3> QED
      BY <1>0, <2>0, <2>1, <3>1, QueueingKeeps
  <2>3. ListsOK' /\ CountsOK'
    BY <1>0, <2>0 DEF ListsOK, BarsCapped, CountsOK
  <2>4. ShardsOK' /\ LinesOK'
    BY <1>0, <2>0 DEF ShardsOK, OwnerInRange, LinesOK, LinesNeedLink
  <2>5. task' \in [Task -> Local] /\ \A u \in Task : u # t => task'[u] = task[u]
    BY <1>0, <1>r, <2>0, SetKeeps, LocalsKeep
  <2>6. TasksOK'
    BY <1>0, <2>0, <2>5 DEF TasksOK
  <2>7. NoStrangers'
    BY <1>0, <1>r, <2>0, <2>5, NoneStrays
  <2> QED
    BY <2>2, <2>3, <2>4, <2>6, <2>7 DEF IInv
<1>8. ASSUME ReconnectNext PROVE IInv'
  <2> DEFINE broken == {j \in DOMAIN shards : j >= task["R"].i /\ ~Up(j)}
  <2>0. turn' = None
        /\ UNCHANGED <<table, list, shards, owner, lines, bars, queue, queued, failed, dead, edits, faults>>
    BY <1>8 DEF ReconnectNext
  <2>1. (\E new \in Local : Set("R", new)) /\ LinesOK'
    <3>1. CASE broken = {}
      BY <1>0, <1>8, <2>0, <3>1, LocalsKeep DEF ReconnectNext, LinesOK, LinesNeedLink
    <3>2. CASE broken # {}
      <4>0. PICK j :
              /\ j = CHOOSE m \in broken : \A k \in broken : m <= k
              /\ Set("R", [Rest EXCEPT !.pc = "connecting", !.i = j, !.conn = shards[j]])
              /\ link' = [link EXCEPT ![shards[j]] = "busy"]
        BY <1>8, <3>2 DEF ReconnectNext
      <4>1. \E m \in broken : \A k \in broken : m <= k
        <5>1. broken \in SUBSET Nat
          BY <1>0 DEF ShardsOK
        <5> HIDE DEF broken
        <5> QED
          BY <3>2, <5>1, LeastOfNumbers
      <4>2. j \in broken
        BY <4>0, <4>1
      <4>3. j \in 1 .. Len(shards) /\ shards[j] \in Conns /\ link[shards[j]] # "up" /\ j \in Nat
        BY <1>0, <4>2, ElementOfSeq DEF ShardsOK, Up
      <4>4. [Rest EXCEPT !.pc = "connecting", !.i = j, !.conn = shards[j]] \in Local
        BY <1>0, <4>3, LocalsKeep DEF Local
      <4>5. LinesOK'
        BY <1>0, <2>0, <4>0, <4>3 DEF LinesOK, LinesNeedLink
      <4> QED
        BY <4>0, <4>4, <4>5
    <3> QED
      BY <3>1, <3>2
  <2>2. QueueOK' /\ ListsOK' /\ CountsOK'
    BY <1>0, <2>0 DEF QueueOK, QueuedIsInQueue, ListsOK, BarsCapped, CountsOK
  <2>3. ShardsOK'
    BY <1>0, <2>0 DEF ShardsOK, OwnerInRange
  <2>4. task' \in [Task -> Local] /\ \A u \in Task : u # "R" => task'[u] = task[u]
    BY <1>0, <1>r, <2>1, SetKeeps
  <2>5. TasksOK'
    BY <1>0, <2>0, <2>4 DEF TasksOK
  <2>6. NoStrangers'
    BY <1>0, <1>r, <2>0, <2>4, NoneStrays
  <2> QED
    BY <2>1, <2>2, <2>3, <2>5, <2>6 DEF IInv
<1>9. Following \in Local
  <2>1. task["R"].i + 1 \in Nat
    BY <1>0, <1>r DEF TasksOK, Local
  <2> QED
    BY <1>0, <2>1, LocalsKeep DEF Following, Local
<1>10. ASSUME ReconnectFails PROVE IInv'
  <2>0. /\ Fault("connect") /\ NotConnected(task["R"].conn) /\ Set("R", Following) /\ turn' = "R"
        /\ UNCHANGED <<table, list, shards, owner, bars, queue, queued, failed, dead, edits>>
    BY <1>10 DEF ReconnectFails
  <2>1. LinesOK' /\ faults' \in 0 .. MaxFaults
    BY <1>0, <1>f, <2>0, DisconnectKeeps
  <2>2. QueueOK' /\ ListsOK' /\ CountsOK'
    BY <1>0, <2>0, <2>1 DEF QueueOK, QueuedIsInQueue, ListsOK, BarsCapped, CountsOK
  <2>3. ShardsOK'
    BY <1>0, <2>0 DEF ShardsOK, OwnerInRange
  <2>4. task' \in [Task -> Local] /\ \A u \in Task : u # "R" => task'[u] = task[u]
    BY <1>0, <1>r, <1>9, <2>0, SetKeeps
  <2>5. TasksOK'
    BY <1>0, <1>r, <2>0, <2>4 DEF TasksOK
  <2>6. NoStrangers'
    BY <1>0, <1>r, <2>0, <2>4, NoneStrays
  <2> QED
    BY <2>1, <2>2, <2>3, <2>5, <2>6 DEF IInv
<1>11. ASSUME PrimaryReconnected PROVE IInv'
  <2> DEFINE local == [Rest EXCEPT !.pc = "clearing", !.added = Wanted]
  <2>0. /\ link' = Connected(task["R"].conn) /\ owner' = Without(Symbols)
        /\ bars' = {} /\ queue' = <<>> /\ queued' = [k \in Kind |-> {}]
        /\ Set("R", local) /\ turn' = (IF Wanted = {} THEN "R" ELSE None)
        /\ UNCHANGED <<table, list, shards, lines, failed, dead, edits, faults>>
    BY <1>11 DEF PrimaryReconnected, EmptyQueue
  <2>1. LinesOK'
    <3>1. lines' = lines /\ lines \in [Conns -> [Symbols -> Nat]]
      BY <1>0, <2>0 DEF LinesOK
    <3> QED
      BY <1>0, <2>0, <3>1, ConnectKeeps
  <2>2. /\ owner' \in [Symbols -> 0 .. MaxShards]
        /\ \A s \in Symbols : owner'[s] = 0
    BY <1>0, <2>0, CancelKeeps
  <2>3. ShardsOK'
    BY <1>0, <2>0, <2>2 DEF ShardsOK, OwnerInRange
  <2>4. QueueOK'
    BY <2>0, EmptySeq DEF QueueOK, QueuedIsInQueue
  <2>5. ListsOK'
    <3>1. Cardinality({}) = 0 /\ MaxBars \in Nat
      BY SizesAssumption, FS_EmptySet
    <3> QED
      BY <1>0, <2>0, <3>1 DEF ListsOK, BarsCapped
  <2>6. local \in Local
    BY <1>0, LocalsKeep, WantedIsCounted DEF Local
  <2>7. task' \in [Task -> Local] /\ \A u \in Task : u # "R" => task'[u] = task[u]
    <3> HIDE DEF local
    <3> QED
      BY <1>0, <1>r, <2>0, <2>6, SetKeeps
  <2>8. TasksOK' /\ CountsOK'
    BY <1>0, <1>r, <2>0, <2>7 DEF TasksOK, CountsOK
  <2>9. NoStrangers'
    BY <2>2 DEF NoStrangers
  <2> QED
    BY <2>1, <2>3, <2>4, <2>5, <2>8, <2>9 DEF IInv
<1>12. ASSUME PrimaryQueues PROVE IInv'
  <2> DEFINE quotes == Missing("quote", task["R"].added, HasTicker, queued)
             rts == Missing("realtime", list["A"], bars, queued)
  <2>0. /\ queue' = WithAll("realtime", rts, WithAll("quote", quotes, queue))
        /\ queued' = [queued EXCEPT !["quote"] = @ \cup quotes, !["realtime"] = @ \cup rts]
        /\ Set("R", Following) /\ turn' = "R"
        /\ UNCHANGED <<table, list, shards, link, owner, lines, bars, failed, dead, edits, faults>>
    BY <1>12 DEF PrimaryQueues
  <2>1. quotes \in SUBSET Symbols /\ rts \in SUBSET Symbols
    BY <1>0, <1>r DEF Missing, TasksOK, Local, ListsOK, Refresher
  <2> HIDE DEF quotes, rts
  <2>2. QueueOK'
    BY <1>0, <2>0, <2>1, QueueingKeeps
  <2>3. ListsOK' /\ CountsOK'
    BY <1>0, <2>0 DEF ListsOK, BarsCapped, CountsOK
  <2>4. ShardsOK' /\ LinesOK'
    BY <1>0, <2>0 DEF ShardsOK, OwnerInRange, LinesOK, LinesNeedLink
  <2>5. task' \in [Task -> Local] /\ \A u \in Task : u # "R" => task'[u] = task[u]
    BY <1>0, <1>r, <1>9, <2>0, SetKeeps
  <2>6. TasksOK'
    BY <1>0, <1>r, <2>0, <2>5 DEF TasksOK
  <2>7. NoStrangers'
    BY <1>0, <1>r, <2>0, <2>5, NoneStrays
  <2> QED
    BY <2>2, <2>3, <2>4, <2>6, <2>7 DEF IInv
<1>13. ASSUME ShardReconnected PROVE IInv'
  <2> DEFINE gone == On(task["R"].i)
  <2>0. /\ link' = Connected(task["R"].conn) /\ owner' = Without(gone)
        /\ lines' = Cancelled(gone, link') /\ QueueAgain(gone)
        /\ Set("R", Following) /\ turn' = "R"
        /\ UNCHANGED <<table, list, shards, bars, failed, dead, edits, faults>>
    BY <1>13 DEF ShardReconnected
  <2>1. gone \in SUBSET Symbols
    BY DEF On
  <2> HIDE DEF gone
  <2>2. QueueOK'
    BY <1>0, <2>0, <2>1, QueueAgainKeeps
  <2>3. /\ owner' \in [Symbols -> 0 .. MaxShards]
        /\ \A s \in Symbols : owner'[s] = IF s \in gone THEN 0 ELSE owner[s]
    BY <1>0, <2>0, <2>1, CancelKeeps
  <2>4. ShardsOK'
    BY <1>0, <2>0, <2>3 DEF ShardsOK, OwnerInRange
  <2>5. LinesOK'
    <3>1. /\ lines' \in [Conns -> [Symbols -> Nat]]
          /\ \A d \in Conns, s \in Symbols : lines'[d][s] > 0 => lines[d][s] > 0
      BY <1>0, <2>0, <2>1, CancelledLines
    <3> QED
      BY <1>0, <2>0, <3>1, ConnectKeeps
  <2>6. ListsOK' /\ CountsOK'
    BY <1>0, <2>0 DEF ListsOK, BarsCapped, CountsOK
  <2>7. task' \in [Task -> Local] /\ \A u \in Task : u # "R" => task'[u] = task[u]
    BY <1>0, <1>r, <1>9, <2>0, SetKeeps
  <2>8. TasksOK'
    BY <1>0, <1>r, <2>0, <2>7 DEF TasksOK
  <2>9. NoStrangers'
    BY <1>0, <1>r, <2>0, <2>3, <2>7, NoneStrays
  <2> QED
    BY <2>2, <2>4, <2>5, <2>6, <2>8, <2>9 DEF IInv
<1>14. ASSUME ReconnectRaises PROVE IInv'
  <2>0. /\ link' = Connected(task["R"].conn) /\ dead' = TRUE
        /\ UNCHANGED <<table, list, shards, lines, owner, bars, queue, queued, failed, task, turn, edits, faults>>
    BY <1>14 DEF ReconnectRaises
  <2>1. LinesOK'
    <3>1. lines' = lines /\ lines \in [Conns -> [Symbols -> Nat]]
      BY <1>0, <2>0 DEF LinesOK
    <3> QED
      BY <1>0, <2>0, <3>1, ConnectKeeps
  <2>2. QueueOK' /\ ListsOK' /\ CountsOK' /\ ShardsOK'
    BY <1>0, <2>0 DEF QueueOK, QueuedIsInQueue, ListsOK, BarsCapped, CountsOK, ShardsOK, OwnerInRange
  <2>3. TasksOK'
    BY <1>0, <2>0 DEF TasksOK
  <2>4. NoStrangers'
    BY <1>0, <2>0, NoneStrays
  <2> QED
    BY <2>1, <2>2, <2>3, <2>4 DEF IInv
<1>15. ASSUME SubscribeQuote PROVE IInv'
  <2> DEFINE s == Head(queue)[2]
             popped == queue' = Tail(queue) /\ queued' = [queued EXCEPT !["quote"] = @ \ {s}]
  <2>0. /\ queue # <<>> /\ Head(queue)[1] = "quote"
        /\ UNCHANGED <<table, list, shards, link, bars, task, turn, dead, edits>>
    BY <1>15 DEF SubscribeQuote, Take
  <2>1. /\ Head(queue) \in Kind \X Symbols /\ s \in Symbols /\ Head(queue) = <<"quote", s>>
        /\ Tail(queue) \in Seq(Kind \X Symbols)
    BY <1>0, <2>0, HeadTailProperties DEF QueueOK
  <2> HIDE DEF s
  <2>2. popped => QueueOK'
    BY <1>0, <2>0, <2>1, PopKeeps DEF Kind
  <2> HIDE DEF popped
  <2>3. TasksOK' /\ (failed' \subseteq Symbols => ListsOK')
    BY <1>0, <2>0 DEF TasksOK, ListsOK, BarsCapped
  <2>4. Wanted' = Wanted /\ \A x : Leaving(x)' <=> Leaving(x)
    BY <2>0 DEF Wanted, Leaving
  <2>5. UNCHANGED <<owner, lines>> => ShardsOK' /\ LinesOK' /\ NoStrangers'
    BY <1>0, <2>0, <2>4 DEF ShardsOK, OwnerInRange, LinesOK, LinesNeedLink, NoStrangers
  <2>6. CASE popped /\ UNCHANGED <<owner, lines, failed, faults>>
    BY <1>0, <2>0, <2>2, <2>3, <2>5, <2>6 DEF IInv, CountsOK, ListsOK
  <2>7. CASE /\ Needed(s) /\ popped
             /\ \E i \in DOMAIN shards :
                   /\ Up(i)
                   /\ owner' = [owner EXCEPT ![s] = i]
                   /\ lines' = [lines EXCEPT ![shards[i]][s] = @ + 1]
             /\ failed' = failed \ {s}
             /\ UNCHANGED faults
    <3>1. PICK i \in DOMAIN shards :
            /\ Up(i)
            /\ owner' = [owner EXCEPT ![s] = i]
            /\ lines' = [lines EXCEPT ![shards[i]][s] = @ + 1]
      BY <2>7
    <3>i. i \in 1 .. Len(shards)
      BY <1>0, <3>1, LenProperties DEF ShardsOK
    <3>2. shards[i] \in Conns /\ link[shards[i]] = "up" /\ i \in 0 .. MaxShards
      BY <1>0, <3>1, <3>i, ElementOfSeq, SizesAssumption DEF ShardsOK, Up
    <3>3. ShardsOK'
      BY <1>0, <2>0, <2>1, <3>1, <3>i, <3>2 DEF ShardsOK, OwnerInRange
    <3>4. LinesOK'
      <4> DEFINE c == shards[i]
      <4>1. lines[c] \in [Symbols -> Nat] /\ lines[c][s] + 1 \in Nat
        BY <1>0, <2>1, <3>2 DEF LinesOK
      <4>2. lines' = [lines EXCEPT ![c] = [lines[c] EXCEPT ![s] = lines[c][s] + 1]]
        BY <3>1
      <4>3. [lines[c] EXCEPT ![s] = lines[c][s] + 1] \in [Symbols -> Nat]
        BY <4>1
      <4>4. lines' \in [Conns -> [Symbols -> Nat]]
        BY <1>0, <4>2, <4>3 DEF LinesOK
      <4>5. \A d \in Conns, x \in Symbols : d # c => lines'[d][x] = lines[d][x]
        BY <1>0, <4>2 DEF LinesOK
      <4> QED
        BY <1>0, <2>0, <3>2, <4>4, <4>5 DEF LinesOK, LinesNeedLink
    <3>5. NoStrangers'
      BY <1>0, <2>1, <2>4, <2>7, <3>1 DEF NoStrangers, Needed, ShardsOK
    <3>6. failed' \subseteq Symbols /\ CountsOK'
      BY <1>0, <2>0, <2>7 DEF ListsOK, CountsOK
    <3> QED
      BY <2>2, <2>3, <2>7, <3>3, <3>4, <3>5, <3>6 DEF IInv
  <2>8. CASE /\ Fault("limit")
             /\ queue' = Append(Tail(queue), Head(queue))
             /\ UNCHANGED <<owner, lines, queued, failed>>
    <3> DEFINE rest == Tail(queue)
    <3>1. rest \o <<Head(queue)>> = queue'
      BY <2>1, <2>8, AppendIsConcat
    <3>2. <<Head(queue)>> \in Seq(Kind \X Symbols) /\ Holds(<<Head(queue)>>, Head(queue))
      BY <2>1 DEF Holds
    <3>3. queue' \in Seq(Kind \X Symbols) /\ \A e : Holds(rest, e) \/ e = Head(queue) => Holds(queue', e)
      BY <2>1, <3>1, <3>2, ConcatHoldsBoth
    <3>4. \A e : Holds(queue, e) => Holds(rest, e) \/ e = Head(queue)
      BY <1>0, <2>0, TailHoldsOthers DEF QueueOK
    <3>5. QueueOK'
      BY <1>0, <2>8, <3>3, <3>4 DEF QueueOK, QueuedIsInQueue, Holds
    <3>6. CountsOK' /\ failed' \subseteq Symbols
      BY <1>0, <1>f, <2>0, <2>8 DEF CountsOK, ListsOK
    <3> QED
      BY <2>3, <2>5, <2>8, <3>5, <3>6 DEF IInv
  <2>9. CASE /\ Fault("error") /\ popped
             /\ failed' = failed \cup {s}
             /\ UNCHANGED <<owner, lines>>
    <3>1. CountsOK' /\ failed' \subseteq Symbols
      BY <1>0, <1>f, <2>0, <2>1, <2>9 DEF CountsOK, ListsOK
    <3> QED
      BY <2>2, <2>3, <2>5, <2>9, <3>1 DEF IInv
  <2> QED
    BY <1>15, <2>6, <2>7, <2>8, <2>9 DEF SubscribeQuote, s, popped
<1>16. ASSUME SubscribeRealtime PROVE IInv'
  <2> DEFINE s == Head(queue)[2]
  <2>0. /\ queue # <<>> /\ Head(queue)[1] = "realtime"
        /\ queue' = Tail(queue) /\ queued' = [queued EXCEPT !["realtime"] = @ \ {s}]
        /\ UNCHANGED <<table, list, shards, link, owner, lines, failed, task, turn, dead, edits>>
    BY <1>16 DEF SubscribeRealtime, Take
  <2>1. s \in Symbols /\ Head(queue) = <<"realtime", s>>
    BY <1>0, <2>0, HeadTailProperties DEF QueueOK
  <2>2. /\ \/ Cardinality(bars) < MaxBars /\ bars' = bars \cup {s}
           \/ bars' = bars
        /\ faults' \in 0 .. MaxFaults
    <3>1. UNCHANGED faults => faults' \in 0 .. MaxFaults
      BY <1>0 DEF CountsOK
    <3> QED
      BY <1>16, <1>f, <3>1 DEF SubscribeRealtime
  <2> HIDE DEF s
  <2>3. QueueOK'
    BY <1>0, <2>0, <2>1, PopKeeps DEF Kind
  <2>4. ListsOK'
    <3>1. CASE bars' = bars
      BY <1>0, <2>0, <3>1 DEF ListsOK, BarsCapped
    <3>2. CASE Cardinality(bars) < MaxBars /\ bars' = bars \cup {s}
      <4>1. IsFiniteSet(bars)
        BY <1>0, SetsAssumption, FS_Subset DEF ListsOK
      <4>2. /\ Cardinality(bars) \in Nat
            /\ Cardinality(bars \cup {s}) = IF s \in bars THEN Cardinality(bars) ELSE Cardinality(bars) + 1
        BY <4>1, FS_CardinalityType, FS_AddElement
      <4>3. MaxBars \in Nat
        BY SizesAssumption
      <4>4. BarsCapped'
        BY <3>2, <4>2, <4>3 DEF BarsCapped
      <4> QED
        BY <1>0, <2>0, <2>1, <3>2, <4>4 DEF ListsOK
    <3> QED
      BY <2>2, <3>1, <3>2
  <2>5. ShardsOK' /\ LinesOK' /\ TasksOK'
    BY <1>0, <2>0 DEF ShardsOK, OwnerInRange, LinesOK, LinesNeedLink, TasksOK
  <2>6. CountsOK'
    BY <1>0, <2>0, <2>2 DEF CountsOK
  <2>7. NoStrangers'
    BY <1>0, <2>0, NoneStrays
  <2> QED
    BY <2>3, <2>4, <2>5, <2>6, <2>7 DEF IInv
<1>17. ASSUME NEW c \in Conns, Drop(c) PROVE IInv'
  <2>0. /\ NotConnected(c) /\ \E kind : Fault(kind)
        /\ UNCHANGED <<table, list, shards, owner, bars, queue, queued, failed, task, turn, dead, edits>>
    BY <1>17 DEF Drop
  <2>1. LinesOK' /\ CountsOK'
    BY <1>0, <1>f, <2>0, DisconnectKeeps DEF CountsOK
  <2>2. QueueOK' /\ ListsOK' /\ ShardsOK'
    BY <1>0, <2>0 DEF QueueOK, QueuedIsInQueue, ListsOK, BarsCapped, ShardsOK, OwnerInRange
  <2>3. TasksOK'
    BY <1>0, <2>0 DEF TasksOK
  <2>4. NoStrangers'
    BY <1>0, <2>0, NoneStrays
  <2> QED
    BY <2>1, <2>2, <2>3, <2>4 DEF IInv
<1>18. CASE UNCHANGED vars
  <2>0. UNCHANGED <<table, list, shards, link, owner, lines, bars, queue, queued, failed, task, turn,
                    dead, edits, faults>>
    BY <1>18 DEF vars
  <2>1. QueueOK' /\ ListsOK' /\ ShardsOK'
    BY <1>0, <2>0 DEF QueueOK, QueuedIsInQueue, ListsOK, BarsCapped, ShardsOK, OwnerInRange
  <2>2. LinesOK' /\ CountsOK' /\ TasksOK'
    BY <1>0, <2>0 DEF LinesOK, LinesNeedLink, CountsOK, TasksOK
  <2>3. NoStrangers'
    BY <1>0, <2>0, NoneStrays
  <2> QED
    BY <2>1, <2>2, <2>3 DEF IInv
<1> QED
  BY <1>1, <1>2, <1>3, <1>4, <1>5, <1>6, <1>7, <1>8, <1>10, <1>11, <1>12, <1>13, <1>14, <1>15,
     <1>16, <1>17, <1>18
  DEF Next, Refresh, Reconnect, Subscribe

-----------------------------------------------------------------------------
(* The tasks' shared tables are right in every reachable state.            *)
THEOREM Invariance == Spec => []IInv
BY InitIInv, StepIInv, PTL DEF Spec

(* Every variable has its type; in particular there is always a primary    *)
(* shard and never more than MAX_SHARDS, whichever refreshers adjust the   *)
(* list at the same time.                                                  *)
THEOREM TypeCorrect == Spec => []TypeOK
<1>1. IInv => TypeOK
  BY DEF IInv, QueueOK, ShardsOK, LinesOK, TasksOK, ListsOK, CountsOK, TypeOK
<1> QED
  BY <1>1, Invariance, PTL

(* What is marked as queued is in the queue, and every ticker's shard is   *)
(* in the list: queue_subscription, subscription_loop, _adjust_shards and  *)
(* reconnect_loop, interleaved at their awaits.                            *)
THEOREM BooksAgreeHolds == Spec => []BooksAgree
<1>1. IInv => BooksAgree
  BY DEF IInv, QueueOK, ShardsOK, BooksAgree
<1> QED
  BY <1>1, Invariance, PTL

(* Between two refreshes there is no ticker of a symbol that is on neither *)
(* list: refresh_watchlist and refresh_active_symbols cancel what they     *)
(* found gone although they computed it before an await.                   *)
THEOREM UnwantedIsDroppedHolds == Spec => []UnwantedIsDropped
<1>1. IInv => UnwantedIsDropped
  <2> SUFFICES ASSUME IInv, \A t \in Refresher : task[t].pc = "idle", NEW s \in HasTicker
               PROVE  s \in Wanted
    BY DEF UnwantedIsDropped
  <2>1. s \in Symbols /\ owner[s] # 0
    BY DEF HasTicker
  <2>2. ~Leaving(s)
    BY DEF Leaving
  <2> QED
    BY <2>1, <2>2 DEF IInv, NoStrangers
<1> QED
  BY <1>1, Invariance, PTL

(* The real-time bars keep to MAX_REALTIME_BAR_SUBSCRIPTIONS, and market   *)
(* data lines to the connections that are up: no reconnection revives a    *)
(* line of before.                                                         *)
THEOREM LimitsHold == Spec => [](BarsCapped /\ LinesNeedLink)
<1>1. IInv => BarsCapped /\ LinesNeedLink
  BY DEF IInv, ListsOK, LinesOK
<1> QED
  BY <1>1, Invariance, PTL
=============================================================================
