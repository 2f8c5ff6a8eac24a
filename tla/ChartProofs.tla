---------------------------- MODULE ChartProofs ----------------------------
(***************************************************************************)
(* Proofs about the three parts of a chart.                                *)
(*                                                                         *)
(* Its drawings (ChartDrawings), for any number of drawings, edits, bars   *)
(* and places and any limit of the undo stack.  A drawing is selected,     *)
(* dragged or restored long after it was made, so the invariant speaks of  *)
(* every document of the history and not of the current one only; and it   *)
(* holds on to what a drag was when it began.                              *)
(*                                                                         *)
(* Its bars (ChartFeed), for any number of charts and symbols, any window  *)
(* and any number of bars kept.  An answer comes long after its question,  *)
(* so the invariant says of every request under way whom it will reach     *)
(* and what it will fit, and of every timer and poll which entry it is of. *)
(*                                                                         *)
(* The indicators of its page (ChartPageIndicators), for any names,        *)
(* symbols and panes and any number of changes.  Engine, page and store    *)
(* differ as long as effects are due, so the invariant says what each      *)
(* round of effects has still to do and that it has only to do it once.    *)
(***************************************************************************)
EXTENDS ChartMC, SequenceTheorems, FiniteSetTheorems, TLAPS

(* The documents that can come about with n drawings made. *)
GoodDocs(n) ==
    {doc \in Docs : \A i \in Ids : doc[i] # None =>
        /\ i <= n
        /\ doc[i].kind # "trendline" => /\ doc[i].a \in 0 .. Bars - 1
                                        /\ doc[i].b \in 0 .. Bars - 1
        /\ doc[i].kind = "text" => doc[i].a = doc[i].b}

Drafts == [from: Places, to: Places, points: 1 .. 2]
Drags == [id: Ids, from: Places, at: Places, a: Int, b: Int,
          part: {"start", "end", "whole"}]

Documents ==
    /\ made \in 0 .. MaxDrawings
    /\ edits \in 0 .. MaxEdits
    /\ drawings \in GoodDocs(made)
    /\ undo \in Seq(GoodDocs(made))
    /\ redo \in Seq(GoodDocs(made))

Controls ==
    /\ selected \in Ids \union {None}
    /\ tool \in Tools
    /\ draft \in Drafts \union {None}
    /\ pointer \in BOOLEAN
    /\ drag \in Drags \union {None}
    /\ menu \in Ids \union {None}
    /\ textAt \in Places \union {None}
    /\ button \in BOOLEAN
    /\ before \in Docs
    /\ rewound \in BOOLEAN

(* Drafts and drags last as long as the button is held, and are not made   *)
(* at once.                                                                *)
Gestures ==
    /\ pointer => button /\ draft \in Drafts
    /\ drag # None => button /\ ~pointer

(* What is dragged, unless undo or redo has come between, is the drawing   *)
(* that was under the pointer, and it was not locked.                      *)
Grasp ==
    drag # None /\ ~rewound =>
      LET was == before[drag.id]
          is == drawings[drag.id]
      IN  /\ was # None /\ is # None
          /\ ~was.locked /\ ~is.locked /\ is.kind = was.kind
          /\ drag.a = was.a /\ drag.b = was.b
          /\ drag.part # "whole" => was.kind = "trendline"
          /\ was.kind = "text" => was.a \in 0 .. Bars - 1 /\ was.a = was.b

IInv == Documents /\ Controls /\ Gestures /\ SelectionTold /\ Grasp /\ DragIsOneEdit

-----------------------------------------------------------------------------
(* The constants, one by one. *)
LEMMA Constants ==
    /\ MaxDrawings \in Nat /\ MaxEdits \in Nat
    /\ Bars \in Nat \ {0} /\ Places \subseteq 0 .. Bars - 1 /\ Places \subseteq Int
    /\ UndoLimit \in Nat \ {0}
    /\ None \notin Int
    /\ \A i \in Ids : i # None
  BY DrawingAssumption DEF Ids

(* A push: the stack stays a stack of documents, with the pushed one on    *)
(* top; the limit costs it the other end.                                  *)
LEMMA CappedFacts ==
    ASSUME NEW S, NEW s \in Seq(S), NEW d \in S
    PROVE  /\ Capped(Append(s, d)) \in Seq(S)
           /\ Capped(Append(s, d)) # <<>>
           /\ Capped(Append(s, d))[Len(Capped(Append(s, d)))] = d
<1> DEFINE t == Append(s, d)
<1>1. t \in Seq(S) /\ Len(t) = Len(s) + 1 /\ t[Len(t)] = d /\ Len(s) \in Nat
  OBVIOUS
<1>2. CASE Len(t) > UndoLimit
  <2>1. Capped(t) = Tail(t) /\ Len(t) >= 2
    BY <1>1, <1>2, Constants DEF Capped
  <2>2. Tail(t) \in Seq(S) /\ Len(Tail(t)) = Len(t) - 1
    BY <1>1, <2>1
  <2>3. Tail(t)[Len(t) - 1] = t[Len(t)]
    BY <1>1, <2>1
  <2> QED
    BY <1>1, <2>1, <2>2, <2>3
<1>3. CASE ~(Len(t) > UndoLimit)
  BY <1>1, <1>3 DEF Capped
<1> QED
  BY <1>2, <1>3

(* A pop. *)
LEMMA ButlastFacts ==
    ASSUME NEW S, NEW s \in Seq(S), s # <<>>
    PROVE  /\ Butlast(s) \in Seq(S)
           /\ Len(Butlast(s)) = Len(s) - 1
           /\ s[Len(s)] \in S
<1>1. Len(s) \in Nat \ {0}
  OBVIOUS
<1>2. Butlast(s) \in Seq(S) /\ Len(Butlast(s)) = Len(s) - 1
  <2> DEFINE n == Len(s) - 1
  <2>1. n \in Nat /\ \A i \in 1 .. n : s[i] \in S
    BY <1>1
  <2>2. Butlast(s) = SubSeq(s, 1, n)
    BY DEF Butlast
  <2> HIDE DEF n
  <2>3. SubSeq(s, 1, n) \in Seq(S) /\ Len(SubSeq(s, 1, n)) = IF 1 <= n THEN n - 1 + 1 ELSE 0
    BY <2>1, SubSeqProperties
  <2>4. Len(SubSeq(s, 1, n)) = n
    BY <2>1, <2>3
  <2> QED
    BY <2>2, <2>3, <2>4 DEF n
<1> QED
  BY <1>1, <1>2

(* Another drawing leaves the documents of the history what they are. *)
LEMMA GoodDocsGrow ==
    ASSUME NEW n \in Nat
    PROVE  /\ GoodDocs(n) \subseteq GoodDocs(n + 1)
           /\ Seq(GoodDocs(n)) \subseteq Seq(GoodDocs(n + 1))
           /\ GoodDocs(n) \subseteq Docs
           /\ Seq(GoodDocs(n)) \subseteq Seq(Docs)
<1>1. GoodDocs(n) \subseteq GoodDocs(n + 1) /\ GoodDocs(n) \subseteq Docs
  BY DEF GoodDocs, Ids
<1>2. ASSUME NEW S, NEW T, S \subseteq T, NEW s \in Seq(S)
      PROVE  s \in Seq(T)
  BY <1>2
<1> QED
  BY <1>1, <1>2

LEMMA EmptyIsGood == \A n \in Nat : Empty \in GoodDocs(n)
  BY DEF Empty, GoodDocs, Docs

-----------------------------------------------------------------------------
(* The invariant contains the type invariant. *)
LEMMA IInvTypes == IInv => TypeOK
<1> SUFFICES ASSUME IInv PROVE TypeOK
  OBVIOUS
<1>1. drawings \in Docs /\ undo \in Seq(Docs) /\ redo \in Seq(Docs)
  BY GoodDocsGrow DEF IInv, Documents
<1>2. \A i \in Ids : drawings[i] # None /\ drawings[i].kind # "trendline"
                     => {drawings[i].a, drawings[i].b} \subseteq 0 .. Bars - 1
  BY DEF IInv, Documents, GoodDocs
<1>3. told \in [id: Ids, kind: Kinds, locked: BOOLEAN] \union {None}
  <2>1. CASE selected = None \/ drawings[selected] = None
    BY <2>1 DEF IInv, SelectionTold, SelectionOf
  <2>2. CASE selected \in Ids /\ drawings[selected] \in Shape
    BY <2>2 DEF IInv, SelectionTold, SelectionOf, Shape
  <2> QED
    BY <1>1, <2>1, <2>2 DEF IInv, Controls, Docs
<1> QED
  BY <1>1, <1>2, <1>3 DEF IInv, Documents, Controls, TypeOK, Drafts, Drags
  
(* The initial states satisfy the invariant. *)
LEMMA InitIInv == Init => IInv
<1> SUFFICES ASSUME Init PROVE IInv
  OBVIOUS
<1>1. Documents
  BY Constants, EmptyIsGood DEF Init, Documents
<1>2. Controls
  BY Constants, EmptyIsGood, GoodDocsGrow DEF Init, Controls, Tools
<1>3. Gestures /\ SelectionTold /\ Grasp /\ DragIsOneEdit
  BY DEF Init, Gestures, SelectionTold, SelectionOf, Grasp, DragIsOneEdit,
         DragUndoneAtOnce, DragFollowsPointer, Dragging
<1> QED
  BY <1>1, <1>2, <1>3 DEF IInv

-----------------------------------------------------------------------------
(* What the actions have in common.  First the documents.                  *)
LEMMA PushKeepsDocuments ==
    ASSUME IInv, PushUndo, made' \in {made, made + 1}, made' \in 0 .. MaxDrawings,
           drawings' \in GoodDocs(made')
    PROVE  /\ Documents'
           /\ undo' # <<>> /\ undo'[Len(undo')] = drawings /\ redo' = <<>>
<1>1. made \in Nat /\ edits' \in 0 .. MaxEdits
  BY Constants DEF IInv, Documents, PushUndo
<1>2. /\ undo' \in Seq(GoodDocs(made))
      /\ undo' # <<>> /\ undo'[Len(undo')] = drawings
  BY ZenonT(60), CappedFacts DEF IInv, Documents, PushUndo
<1>3. redo' = <<>> /\ redo' \in Seq(GoodDocs(made'))
  BY DEF PushUndo
<1>4. undo' \in Seq(GoodDocs(made'))
  BY <1>1, <1>2, GoodDocsGrow
<1> QED
  BY <1>1, <1>2, <1>3, <1>4 DEF Documents

LEMMA RewindKeepsDocuments ==
    ASSUME IInv, KeyUndo \/ KeyRedo
    PROVE  Documents'
<1>1. made' = made /\ edits' = edits
  BY DEF KeyUndo, KeyRedo, Restored
<1>2. CASE KeyUndo
  <2>1. redo' \in Seq(GoodDocs(made))
    BY <1>2 DEF KeyUndo, IInv, Documents
  <2>2. undo' \in Seq(GoodDocs(made)) /\ drawings' \in GoodDocs(made)
    BY <1>2, ButlastFacts DEF KeyUndo, IInv, Documents
  <2> QED
    BY <1>1, <2>1, <2>2 DEF IInv, Documents
<1>3. CASE KeyRedo
  <2>1. undo' \in Seq(GoodDocs(made))
    BY <1>3 DEF KeyRedo, IInv, Documents
  <2>2. redo' \in Seq(GoodDocs(made)) /\ drawings' \in GoodDocs(made)
    BY <1>3, ButlastFacts DEF KeyRedo, IInv, Documents
  <2> QED
    BY <1>1, <2>1, <2>2 DEF IInv, Documents
<1> QED
  BY <1>2, <1>3

(* A drawing is added under an id that no document has used. *)
LEMMA AddFacts ==
    ASSUME IInv, NEW shape \in Shape, Add(shape),
           shape.kind # "trendline" => shape.a \in 0 .. Bars - 1 /\ shape.b \in 0 .. Bars - 1,
           shape.kind = "text" => shape.a = shape.b
    PROVE  /\ made' = made + 1 /\ made' \in 0 .. MaxDrawings /\ made + 1 \in Ids
           /\ drawings' \in GoodDocs(made')
           /\ drawings'[made + 1] = shape /\ shape # None
           /\ \A i \in Ids : i # made + 1 => drawings'[i] = drawings[i]
           /\ selected # made + 1
<1>1. made' = made + 1 /\ made' \in 0 .. MaxDrawings /\ made + 1 \in Ids /\ made \in Nat
  BY Constants DEF IInv, Documents, Add, Ids
<1>2. drawings \in Docs
  BY DEF IInv, Documents, GoodDocs
<1>3. /\ drawings' \in Docs
      /\ drawings'[made + 1] = shape
      /\ \A i \in Ids : i # made + 1 => drawings'[i] = drawings[i]
  BY <1>1, <1>2 DEF Add, Docs
<1>4. drawings[made + 1] = None
  BY <1>1 DEF IInv, Documents, GoodDocs
<1>5. selected # made + 1
  BY <1>1, <1>4, Constants DEF IInv, SelectionTold, Exists
<1>6. drawings' \in GoodDocs(made')
  BY <1>1, <1>3 DEF IInv, Documents, GoodDocs, Ids
<1> QED
  BY <1>1, <1>3, <1>5, <1>6, NoneIsNoShape

(* The component is told of the selection when it changes; when it does    *)
(* not, what it was told is still true.                                    *)
LEMMA SelectTells ==
    ASSUME IInv, NEW i \in Ids \union {None}, Select(i),
           i # None => drawings'[i] # None,
           i # None /\ selected = i => drawings'[i] = drawings[i],
           menu' # None => drawings'[menu'] # None
    PROVE  SelectionTold'
<1>1. selected' = i
  BY DEF Select
<1>2. told' = SelectionOf(drawings', selected')
  BY <1>1 DEF Select, IInv, SelectionTold, SelectionOf
<1> QED
  BY <1>1, <1>2 DEF SelectionTold, Exists

LEMMA SelectionStays ==
    ASSUME IInv, selected' = selected, told' = told,
           selected # None => drawings'[selected] = drawings[selected],
           menu' # None => drawings'[menu'] # None
    PROVE  SelectionTold'
  BY DEF IInv, SelectionTold, SelectionOf, Exists

(* What is said of a drag holds on while its document does, and of none.   *)
LEMMA DragStays ==
    ASSUME IInv, UNCHANGED <<drawings, undo, redo, drag, ghosts>>
    PROVE  Grasp' /\ DragIsOneEdit'
  BY DEF IInv, ghosts, Grasp, DragIsOneEdit, DragUndoneAtOnce, DragFollowsPointer,
         Dragging

LEMMA NoDragHolds ==
    ASSUME drag' = None \/ rewound'
    PROVE  Grasp' /\ DragIsOneEdit'
  BY DEF Grasp, DragIsOneEdit, DragUndoneAtOnce, DragFollowsPointer, Dragging

LEMMA ButtonUpNoDrag ==
    ASSUME IInv, ~button
    PROVE  drag = None /\ ~pointer
  BY DEF IInv, Gestures, Controls

-----------------------------------------------------------------------------
(* The button goes down. *)
LEMMA DraftBeginsKeepsIInv ==
    ASSUME IInv, ~button, button' = TRUE, NEW p \in Places, DraftBegins(p),
           UNCHANGED <<tool, menu, textAt, made>>
    PROVE  IInv'
<1>1. Documents'
  BY DEF DraftBegins, NoPush, IInv, Documents
<1>2. draft' \in Drafts /\ selected' = None
  BY DEF DraftBegins, Drafts, Select
<1>3. Controls'
  BY <1>2 DEF DraftBegins, IInv, Controls, ghosts
<1>4. Gestures'
  BY <1>2, ButtonUpNoDrag DEF DraftBegins, Gestures
<1>5. SelectionTold'
  BY SelectTells DEF DraftBegins, IInv, SelectionTold, Exists
<1>6. Grasp' /\ DragIsOneEdit'
  BY DragStays DEF DraftBegins, NoPush
<1> QED
  BY <1>1, <1>3, <1>4, <1>5, <1>6 DEF IInv

LEMMA DragBeginsKeepsIInv ==
    ASSUME IInv, ~button, menu = None, button' = TRUE, NEW i \in Ids, NEW p \in Places,
           NEW piece \in {"start", "end", "whole"}, DragBegins(i, p, piece),
           UNCHANGED <<tool, menu, textAt, made>>
    PROVE  IInv'
<1>1. drawings \in Docs /\ drawings[i] \in Shape /\ drawings[i] # None /\ i # None
  BY Constants DEF DragBegins, Exists, IInv, Documents, GoodDocs, Docs
<1>2. /\ Documents'
      /\ undo' # <<>> /\ undo'[Len(undo')] = drawings /\ redo' = <<>>
  BY PushKeepsDocuments DEF DragBegins, IInv, Documents
<1>3. /\ drag' = [id |-> i, from |-> p, at |-> p,
                  a |-> drawings[i].a, b |-> drawings[i].b, part |-> piece]
      /\ before' = drawings /\ rewound' = FALSE /\ selected' = i /\ drawings' = drawings
  BY DEF DragBegins, Grab, Select
<1>4. drag' \in Drags
  BY <1>1, <1>3 DEF Drags, Shape
<1>5. Controls'
  BY <1>1, <1>3, <1>4 DEF DragBegins, IInv, Controls
<1>6. Gestures'
  BY ButtonUpNoDrag DEF DragBegins, Gestures
<1>7. SelectionTold'
  BY <1>1, <1>3, SelectTells DEF DragBegins
<1>8. Grasp'
  BY <1>1, <1>3 DEF DragBegins, Grasp, IInv, Documents, GoodDocs
<1>9. DragIsOneEdit'
  <2>1. DragUndoneAtOnce'
    BY <1>2, <1>3 DEF DragUndoneAtOnce
  <2>2. drawings[i].kind = "text" => /\ drawings[i].a = Clamp(drawings[i].a + (p - p))
                                     /\ drawings[i].a = drawings[i].b
    BY Constants DEF IInv, Documents, GoodDocs, Clamp, DragBegins, Exists
  <2>3. p - p = 0 /\ drawings[i].a \in Int /\ drawings[i].b \in Int
    BY <1>1, Constants DEF Shape
  <2>4. DragFollowsPointer'
    BY <1>1, <1>3, <2>2, <2>3 DEF DragFollowsPointer, Clamp
  <2> QED
    BY <2>1, <2>4 DEF DragIsOneEdit
<1> QED
  BY <1>2, <1>5, <1>6, <1>7, <1>8, <1>9 DEF IInv

(* A locked drawing, or none, is under the pointer. *)
LEMMA HitKeepsIInv ==
    ASSUME IInv, ~button, button' = TRUE, NEW i \in Ids \union {None},
           i # None => Exists(i), Select(i),
           UNCHANGED <<drawings, undo, redo, edits, draft, pointer, drag, ghosts>>,
           UNCHANGED <<tool, menu, textAt, made>>
    PROVE  IInv'
<1>1. Documents'
  BY DEF IInv, Documents
<1>2. Controls'
  BY DEF IInv, Controls, Select, ghosts
<1>3. Gestures'
  BY DEF IInv, Gestures
<1>4. SelectionTold'
  BY SelectTells DEF IInv, SelectionTold, Exists
<1>5. Grasp' /\ DragIsOneEdit'
  BY DragStays
<1> QED
  BY <1>1, <1>2, <1>3, <1>4, <1>5 DEF IInv

LEMMA MouseDownKeepsIInv ==
    ASSUME IInv, NEW p \in Places, MouseDown(p)
    PROVE  IInv'
<1>1. ~button /\ button' = TRUE /\ menu = None /\ UNCHANGED <<tool, menu, textAt, made>>
  BY DEF MouseDown
<1>2. CASE DraftBegins(p)
  BY <1>1, <1>2, DraftBeginsKeepsIInv
<1>3. ASSUME NEW i \in Ids, NEW piece \in {"start", "end", "whole"}, DragBegins(i, p, piece)
      PROVE  IInv'
  BY <1>1, <1>3, DragBeginsKeepsIInv
<1>4. ASSUME NEW i \in Ids, LockedHit(i)
      PROVE  IInv'
  BY <1>1, <1>4, HitKeepsIInv DEF LockedHit, NoPush
<1>5. CASE MissHit
  BY <1>1, <1>5, HitKeepsIInv DEF MissHit, NoPush
<1> QED
  BY <1>2, <1>3, <1>4, <1>5 DEF MouseDown

-----------------------------------------------------------------------------
(* A draft follows the pointer. *)
LEMMA DraftTo ==
    ASSUME NEW d \in Drafts, NEW p \in Places, NEW n \in 1 .. 2
    PROVE  [d EXCEPT !.to = p, !.points = n] \in Drafts
  BY DEF Drafts

(* The mouse moves.  What is dragged keeps its kind and its lock, and a    *)
(* text or a stroke stays on the bars.                                     *)
LEMMA MovedFacts ==
    ASSUME IInv, drag # None, NEW p \in Places, NEW s \in Shape
    PROVE  /\ Moved(s, p) \in Shape
           /\ Moved(s, p).kind = s.kind /\ Moved(s, p).locked = s.locked
           /\ s.kind # "trendline" => /\ Moved(s, p).a \in 0 .. Bars - 1
                                      /\ Moved(s, p).b \in 0 .. Bars - 1
           /\ s.kind = "text" => /\ Moved(s, p).a = Clamp(drag.a + (p - drag.from))
                                 /\ Moved(s, p).b = Moved(s, p).a
           /\ s.kind = "trendline" =>
                /\ Moved(s, p).a = IF drag.part = "end" THEN s.a
                                   ELSE drag.a + (p - drag.from)
                /\ Moved(s, p).b = IF drag.part = "start" THEN s.b
                                   ELSE drag.b + (p - drag.from)
<1>1. /\ drag \in Drags /\ drag.a \in Int /\ drag.b \in Int
      /\ drag.from \in Int /\ p \in Int
      /\ drag.part \in {"start", "end", "whole"}
      /\ s.a \in Int /\ s.b \in Int /\ s.kind \in Kinds /\ s.locked \in BOOLEAN
  BY Constants DEF IInv, Controls, Drags, Shape
<1>2. \A x \in Int : Clamp(x) \in 0 .. Bars - 1
  BY Constants DEF Clamp
<1> DEFINE d == p - drag.from
<1>3. CASE s.kind = "text"
  <2>1. Moved(s, p) = [s EXCEPT !.a = Clamp(drag.a + d), !.b = Clamp(drag.a + d)]
    BY <1>3 DEF Moved
  <2>2. Clamp(drag.a + d) \in 0 .. Bars - 1
    BY <1>1, <1>2
  <2> DEFINE x == Clamp(drag.a + d)
             y == Clamp(drag.a + d)
  <2>3. x \in Int /\ y \in Int /\ Moved(s, p) = [s EXCEPT !.a = x, !.b = y]
    BY <1>1, <2>1, <2>2
  <2>4. /\ Moved(s, p) \in Shape
        /\ Moved(s, p).kind = s.kind /\ Moved(s, p).locked = s.locked
        /\ Moved(s, p).a = x /\ Moved(s, p).b = y
    <3> HIDE DEF x, y
    <3> QED
      BY <2>3 DEF Shape
  <2> QED
    BY <1>3, <2>2, <2>4
<1>4. CASE s.kind = "brush"
  <2>1. Moved(s, p) = [s EXCEPT !.a = Clamp(@ + d), !.b = Clamp(@ + d)]
    BY <1>4 DEF Moved
  <2>2. Clamp(s.a + d) \in 0 .. Bars - 1 /\ Clamp(s.b + d) \in 0 .. Bars - 1
    BY <1>1, <1>2
  <2> DEFINE x == Clamp(s.a + d)
             y == Clamp(s.b + d)
  <2>3. x \in Int /\ y \in Int /\ Moved(s, p) = [s EXCEPT !.a = x, !.b = y]
    BY <1>1, <2>1, <2>2
  <2>4. /\ Moved(s, p) \in Shape
        /\ Moved(s, p).kind = s.kind /\ Moved(s, p).locked = s.locked
        /\ Moved(s, p).a = x /\ Moved(s, p).b = y
    <3> HIDE DEF x, y
    <3> QED
      BY <2>3 DEF Shape
  <2> QED
    BY <1>4, <2>2, <2>4
<1>5. CASE s.kind = "trendline"
  <2>1. Moved(s, p) = [s EXCEPT !.a = IF drag.part = "end" THEN @ ELSE drag.a + d,
                                !.b = IF drag.part = "start" THEN @ ELSE drag.b + d]
    BY <1>5 DEF Moved
  <2>2. d \in Int
    BY <1>1
  <2> DEFINE x == IF drag.part = "end" THEN s.a ELSE drag.a + d
             y == IF drag.part = "start" THEN s.b ELSE drag.b + d
  <2>3. x \in Int /\ y \in Int /\ Moved(s, p) = [s EXCEPT !.a = x, !.b = y]
    BY <1>1, <2>1, <2>2
  <2>4. /\ Moved(s, p) \in Shape
        /\ Moved(s, p).kind = s.kind /\ Moved(s, p).locked = s.locked
        /\ Moved(s, p).a = x /\ Moved(s, p).b = y
    <3> HIDE DEF x, y
    <3> QED
      BY <2>3 DEF Shape
  <2> QED
    BY <1>5, <2>2, <2>4
<1> QED
  BY <1>1, <1>3, <1>4, <1>5 DEF Kinds

LEMMA DragMovesKeepsIInv ==
    ASSUME IInv, NEW p \in Places, DragMoves(p),
           UNCHANGED <<undo, redo, selected, tool, pointer, component, button, made, edits,
                       ghosts>>
    PROVE  IInv'
<1> DEFINE k == drag.id
<1>1. drag # None /\ drag \in Drags /\ k \in Ids
  BY DEF DragMoves, IInv, Controls, Drags
<1>2. drawings \in Docs /\ drawings \in GoodDocs(made)
  BY DEF IInv, Documents, GoodDocs
<1>3. /\ \A i \in Ids : i # k => drawings'[i] = drawings[i]
      /\ ~Exists(k) => drawings' = drawings
      /\ Exists(k) => drawings[k] \in Shape /\ drawings'[k] = Moved(drawings[k], p)
      /\ drawings' \in Docs
  BY <1>1, <1>2, MovedFacts DEF DragMoves, Exists, Docs
<1>4. /\ Exists(k) => /\ drawings'[k] \in Shape /\ drawings'[k] # None
                      /\ drawings'[k].kind = drawings[k].kind
                      /\ drawings'[k].locked = drawings[k].locked
  BY <1>1, <1>3, MovedFacts, NoneIsNoShape
<1>5. /\ drag' \in Drags
      /\ drag'.id = drag.id /\ drag'.a = drag.a /\ drag'.b = drag.b
      /\ drag'.part = drag.part /\ drag'.at = p
      /\ Exists(k) /\ drawings[k].kind # "brush" => drag'.from = drag.from
  BY <1>1 DEF DragMoves, Drags
<1>6. Documents'
  <2>1. drawings' \in GoodDocs(made)
    <3> SUFFICES ASSUME NEW i \in Ids, drawings'[i] # None
                 PROVE  /\ i <= made
                        /\ drawings'[i].kind # "trendline" =>
                             /\ drawings'[i].a \in 0 .. Bars - 1
                             /\ drawings'[i].b \in 0 .. Bars - 1
                        /\ drawings'[i].kind = "text" => drawings'[i].a = drawings'[i].b
      BY <1>3 DEF GoodDocs
    <3>1. CASE i # k \/ ~Exists(k)
      BY <1>2, <1>3, <3>1 DEF GoodDocs
    <3>2. CASE i = k /\ Exists(k)
      BY <1>1, <1>2, <1>3, <3>2, MovedFacts DEF GoodDocs, Exists
    <3> QED
      BY <3>1, <3>2
  <2> QED
    BY <2>1 DEF IInv, Documents
<1>7. Controls'
  BY <1>5 DEF DragMoves, IInv, Controls, component, ghosts
<1>8. Gestures'
  BY <1>1, <1>5 DEF DragMoves, IInv, Gestures
<1>9. SelectionTold'
  BY <1>1, <1>3, <1>4 DEF IInv, SelectionTold, SelectionOf, Exists, component, Controls
<1>10. Grasp'
  BY <1>1, <1>3, <1>4, <1>5 DEF IInv, Grasp, Exists, ghosts
<1>11. DragIsOneEdit'
  <2>1. DragUndoneAtOnce'
    BY <1>1 DEF IInv, DragIsOneEdit, DragUndoneAtOnce, Dragging, ghosts
  <2>2. DragFollowsPointer'
    <3> SUFFICES ASSUME ~rewound, before[k].kind # "brush"
                 PROVE  IF before[k].kind = "text"
                        THEN /\ drawings'[k].a = Clamp(before[k].a + (p - drag.from))
                             /\ drawings'[k].b = drawings'[k].a
                        ELSE /\ drawings'[k].a = before[k].a
                                  + (IF drag.part = "end" THEN 0 ELSE p - drag.from)
                             /\ drawings'[k].b = before[k].b
                                  + (IF drag.part = "start" THEN 0 ELSE p - drag.from)
      BY <1>1, <1>4, <1>5, Zenon DEF DragFollowsPointer, ghosts, IInv, Grasp, Exists
    <3>1. /\ Exists(k) /\ drawings[k].kind = before[k].kind
          /\ drag.a = before[k].a /\ drag.b = before[k].b
          /\ drawings[k] \in Shape /\ drawings'[k] = Moved(drawings[k], p)
          /\ drawings[k].a \in Int /\ drawings[k].b \in Int
          /\ drag.a \in Int /\ drag.b \in Int
      BY <1>1, <1>3 DEF IInv, Grasp, Exists, Shape, Drags
    <3>2. CASE before[k].kind = "text"
      BY <1>1, <3>1, <3>2, MovedFacts
    <3>3. CASE before[k].kind = "trendline"
      <4>1. /\ drag.part = "end" => drawings[k].a = before[k].a
            /\ drag.part = "start" => drawings[k].b = before[k].b
        BY <1>1, <3>1, <3>3 DEF IInv, DragIsOneEdit, DragFollowsPointer, Dragging
      <4> QED
        BY <1>1, <3>1, <3>3, <4>1, MovedFacts
    <3> QED
      BY <3>1, <3>2, <3>3 DEF Shape, Kinds
  <2> QED
    BY <2>1, <2>2 DEF DragIsOneEdit
<1> QED
  BY <1>6, <1>7, <1>8, <1>9, <1>10, <1>11 DEF IInv

LEMMA MouseMoveKeepsIInv ==
    ASSUME IInv, NEW p \in Places, MouseMove(p)
    PROVE  IInv'
<1>1. CASE DragMoves(p)
  BY <1>1, DragMovesKeepsIInv DEF MouseMove
<1>2. CASE DraftMoves(p)
  <2>1. draft \in Drafts /\ (IF p # draft.to THEN 2 ELSE draft.points) \in 1 .. 2
    BY SMTT(60), <1>2 DEF DraftMoves, IInv, Gestures, Drafts
  <2>2. draft' \in Drafts
    BY <1>2, <2>1, DraftTo DEF DraftMoves
  <2>3. Documents' /\ Controls' /\ Gestures'
    BY <1>2, <2>1, <2>2 DEF MouseMove, DraftMoves, IInv, Documents, Controls, Gestures,
                      component, ghosts
  <2>4. SelectionTold'
    BY <1>2 DEF MouseMove, DraftMoves, IInv, SelectionTold, SelectionOf, Exists, component
  <2>5. Grasp' /\ DragIsOneEdit'
    BY <1>2, DragStays DEF MouseMove, DraftMoves
  <2> QED
    BY <2>3, <2>4, <2>5 DEF IInv
<1> QED
  BY <1>1, <1>2 DEF MouseMove

-----------------------------------------------------------------------------
(* The button is let go, or the window loses the focus. *)
LEMMA NewShapeIsShape ==
    ASSUME NEW kind \in Kinds, NEW a \in Places, NEW b \in Places
    PROVE  /\ NewShape(kind, a, b) \in Shape
           /\ NewShape(kind, a, b).kind = kind
           /\ NewShape(kind, a, b).a = a /\ NewShape(kind, a, b).b = b
           /\ a \in 0 .. Bars - 1 /\ b \in 0 .. Bars - 1
  BY Constants DEF NewShape, Shape

LEMMA DraftEndsKeepsIInv ==
    ASSUME IInv, DraftEnds, button' = FALSE, UNCHANGED <<tool, menu>>
    PROVE  IInv'
<1>1. /\ pointer /\ draft \in Drafts /\ draft.from \in Places /\ draft.to \in Places
      /\ drag = None /\ drag' = None /\ draft' = None /\ pointer' = FALSE
      /\ before' = before /\ rewound' = rewound
  BY DEF DraftEnds, NoDraft, IInv, Gestures, Drafts, ghosts
<1>2. Gestures' /\ Grasp' /\ DragIsOneEdit'
  BY <1>1, NoDragHolds DEF Gestures
<1>3. CASE NoPush /\ UNCHANGED <<drawings, selected, told, made>>
  <2>1. Documents' /\ SelectionTold'
    BY <1>3 DEF NoPush, DraftEnds, IInv, Documents, SelectionTold, SelectionOf, Exists
  <2>2. textAt' \in Places \union {None}
    BY <1>1 DEF DraftEnds, IInv, Controls
  <2>3. Controls'
    BY <1>1, <1>3, <2>2 DEF IInv, Controls
  <2> QED
    BY <1>2, <2>1, <2>3 DEF IInv
<1>4. CASE /\ tool \in {"brush", "trendline"}
           /\ tool = "brush" \/ draft.from # draft.to
           /\ PushUndo
           /\ Add(NewShape(tool, draft.from, draft.to))
           /\ Select(made + 1)
           /\ UNCHANGED textAt
  <2> DEFINE shape == NewShape(tool, draft.from, draft.to)
  <2>1. /\ made' = made + 1 /\ made' \in 0 .. MaxDrawings /\ made + 1 \in Ids
        /\ drawings' \in GoodDocs(made')
        /\ drawings'[made + 1] # None
        /\ \A i \in Ids : i # made + 1 => drawings'[i] = drawings[i]
        /\ selected # made + 1
    <3>1. /\ shape \in Shape /\ Add(shape)
          /\ shape.kind # "trendline" => shape.a \in 0 .. Bars - 1 /\ shape.b \in 0 .. Bars - 1
          /\ shape.kind # "text"
      BY <1>1, <1>4, NewShapeIsShape DEF Kinds
    <3> QED
      BY <3>1, AddFacts
  <2>2. Documents'
    BY <1>4, <2>1, PushKeepsDocuments
  <2>3. Controls'
    BY <1>1, <1>4, <2>1 DEF Select, IInv, Controls
  <2>4. menu' # None => drawings'[menu'] # None
    BY <2>1 DEF IInv, SelectionTold, Exists, Controls
  <2>5. SelectionTold'
    BY <1>4, <2>1, <2>4, SelectTells
  <2> QED
    BY <1>2, <2>2, <2>3, <2>5 DEF IInv
<1>5. \/ NoPush /\ UNCHANGED <<drawings, selected, told, made>>
      \/ /\ tool \in {"brush", "trendline"}
         /\ tool = "brush" \/ draft.from # draft.to
         /\ PushUndo
         /\ Add(NewShape(tool, draft.from, draft.to))
         /\ Select(made + 1)
         /\ UNCHANGED textAt
  BY Zenon DEF DraftEnds
<1> QED
  BY <1>3, <1>4, <1>5

LEMMA MouseUpKeepsIInv ==
    ASSUME IInv, MouseUp
    PROVE  IInv'
<1>1. CASE DraftEnds
  BY <1>1, DraftEndsKeepsIInv DEF MouseUp
<1>2. CASE DragEnds
  <2>1. Documents' /\ SelectionTold'
    BY <1>2 DEF MouseUp, DragEnds, NoPush, IInv, Documents, SelectionTold, SelectionOf, Exists
  <2>2. Empty \in Docs
    BY DEF Empty, Docs
  <2>3. Controls'
    BY <1>2, <2>2 DEF MouseUp, DragEnds, Forget, IInv, Controls
  <2>4. Gestures' /\ Grasp' /\ DragIsOneEdit'
    BY <1>2, NoDragHolds DEF MouseUp, DragEnds, Gestures
  <2> QED
    BY <2>1, <2>3, <2>4 DEF IInv
<1> QED
  BY <1>1, <1>2 DEF MouseUp

LEMMA BlurKeepsIInv ==
    ASSUME IInv, Blur
    PROVE  IInv'
<1>1. Documents' /\ SelectionTold'
  BY DEF Blur, component, IInv, Documents, SelectionTold, SelectionOf, Exists
<1>2. Empty \in Docs
  BY DEF Empty, Docs
<1>3. Controls'
  BY <1>2 DEF Blur, Forget, component, IInv, Controls
<1>4. Gestures' /\ Grasp' /\ DragIsOneEdit'
  BY NoDragHolds DEF Blur, Gestures
<1> QED
  BY <1>1, <1>3, <1>4 DEF IInv

-----------------------------------------------------------------------------
(* The menu. *)
LEMMA ContextMenuKeepsIInv ==
    ASSUME IInv, NEW i \in Ids, ContextMenu(i)
    PROVE  IInv'
<1>1. Documents' /\ Gestures'
  BY DEF ContextMenu, IInv, Documents, Gestures
<1>2. Controls'
  BY DEF ContextMenu, Select, IInv, Controls, ghosts
<1>3. SelectionTold'
  BY SelectTells DEF ContextMenu, Exists
<1>4. Grasp' /\ DragIsOneEdit'
  BY DragStays DEF ContextMenu
<1> QED
  BY <1>1, <1>2, <1>3, <1>4 DEF IInv

LEMMA MenuDeleteKeepsIInv ==
    ASSUME IInv, MenuDelete
    PROVE  IInv'
<1>1. menu \in Ids /\ made \in 0 .. MaxDrawings /\ made' = made
  BY DEF MenuDelete, IInv, Controls, Documents
<1>2. drawings' \in GoodDocs(made) /\ \A i \in Ids : i # menu => drawings'[i] = drawings[i]
  BY <1>1 DEF MenuDelete, IInv, Documents, GoodDocs, Docs
<1>3. Documents'
  BY <1>1, <1>2, PushKeepsDocuments DEF MenuDelete
<1>4. SelectionTold'
  <2>1. CASE selected = menu
    BY <2>1, SelectTells DEF MenuDelete
  <2>2. CASE selected # menu
    BY <1>2, <2>2, SelectionStays DEF MenuDelete, IInv, Controls
  <2> QED
    BY <2>1, <2>2
<1>5. selected' \in Ids \union {None}
  BY DEF MenuDelete, Select, IInv, Controls
<1>6. Controls' /\ Gestures'
  BY <1>5 DEF MenuDelete, IInv, Controls, Gestures, ghosts
<1>7. Grasp' /\ DragIsOneEdit'
  BY ButtonUpNoDrag, NoDragHolds DEF MenuDelete
<1> QED
  BY <1>3, <1>4, <1>6, <1>7 DEF IInv

LEMMA MenuColorKeepsIInv ==
    ASSUME IInv, MenuColor
    PROVE  IInv'
<1>1. Documents'
  BY PushKeepsDocuments DEF MenuColor, IInv, Documents
<1>2. Controls' /\ Gestures'
  BY DEF MenuColor, IInv, Controls, Gestures, component, ghosts
<1>3. SelectionTold'
  BY DEF MenuColor, IInv, SelectionTold, SelectionOf, Exists, component
<1>4. Grasp' /\ DragIsOneEdit'
  BY ButtonUpNoDrag, NoDragHolds DEF MenuColor
<1> QED
  BY <1>1, <1>2, <1>3, <1>4 DEF IInv

(* Closing the menu, with the mouse or with a key that finds nothing to    *)
(* undo, and the text box.                                                 *)
LEMMA ClosingKeepsIInv ==
    ASSUME IInv, MenuClose \/ KeyIdle \/ CancelText
    PROVE  IInv'
<1>1. /\ UNCHANGED <<engineVars, told, button, made, edits, ghosts>>
      /\ menu' \in {menu, None} /\ textAt' \in {textAt, None}
  BY DEF MenuClose, KeyIdle, CancelText
<1>2. Documents' /\ Controls' /\ Gestures'
  BY <1>1 DEF IInv, Documents, Controls, Gestures, engineVars, ghosts
<1>3. SelectionTold'
  BY <1>1 DEF IInv, SelectionTold, SelectionOf, Exists, engineVars
<1>4. Grasp' /\ DragIsOneEdit'
  BY <1>1, DragStays DEF engineVars
<1> QED
  BY <1>2, <1>3, <1>4 DEF IInv

-----------------------------------------------------------------------------
(* The keys. *)
LEMMA RewindKeepsIInv ==
    ASSUME IInv, KeyUndo \/ KeyRedo
    PROVE  IInv'
<1>1. Documents'
  BY RewindKeepsDocuments
<1>2. Restored
  BY DEF KeyUndo, KeyRedo
<1>3. rewound' \in BOOLEAN /\ (drag # None => rewound')
  BY <1>2 DEF Restored
<1>4. Controls' /\ Gestures'
  BY <1>2, <1>3 DEF Restored, Select, IInv, Controls, Gestures
<1>5. SelectionTold'
  BY <1>2, SelectTells DEF Restored
<1>6. Grasp' /\ DragIsOneEdit'
  BY <1>2, <1>3, NoDragHolds DEF Restored
<1> QED
  BY <1>1, <1>4, <1>5, <1>6 DEF IInv

-----------------------------------------------------------------------------
(* The tool bar and the text box. *)
LEMMA SelectToolKeepsIInv ==
    ASSUME IInv, NEW t \in Tools, SelectTool(t)
    PROVE  IInv'
<1>1. Documents' /\ SelectionTold'
  BY DEF SelectTool, IInv, Documents, SelectionTold, SelectionOf, Exists
<1>2. Controls' /\ Gestures'
  BY ButtonUpNoDrag DEF SelectTool, NoDraft, IInv, Controls, Gestures, Tools, ghosts
<1>3. Grasp' /\ DragIsOneEdit'
  BY DragStays DEF SelectTool
<1> QED
  BY <1>1, <1>2, <1>3 DEF IInv

LEMMA ClearDrawingsKeepsIInv ==
    ASSUME IInv, ClearDrawings
    PROVE  IInv'
<1>1. made \in 0 .. MaxDrawings /\ made \in Nat /\ made' = made /\ drawings' \in GoodDocs(made)
  BY EmptyIsGood, Constants DEF ClearDrawings, IInv, Documents
<1>2. Documents'
  <2>1. CASE PushUndo
    BY <1>1, <2>1, PushKeepsDocuments
  <2>2. CASE NoPush
    BY <1>1, <2>2 DEF NoPush, IInv, Documents
  <2> QED
    BY <2>1, <2>2 DEF ClearDrawings
<1>3. Controls' /\ Gestures'
  BY ButtonUpNoDrag
  DEF ClearDrawings, NoDraft, Select, IInv, Controls, Gestures, Tools, ghosts
<1>4. SelectionTold'
  BY SelectTells DEF ClearDrawings
<1>5. Grasp' /\ DragIsOneEdit'
  BY ButtonUpNoDrag, NoDragHolds DEF ClearDrawings
<1> QED
  BY <1>2, <1>3, <1>4, <1>5 DEF IInv

LEMMA ToggleLockKeepsIInv ==
    ASSUME IInv, ToggleLock
    PROVE  IInv'
<1>1. /\ selected \in Ids /\ told.id = selected /\ drawings[selected] \in Shape
      /\ told.locked \in BOOLEAN /\ drawings \in Docs
  BY DEF ToggleLock, IInv, SelectionTold, SelectionOf, Exists, Controls, Documents, GoodDocs,
         Docs, Shape
<1>2. /\ drawings' \in Docs
      /\ \A i \in Ids : i # selected => drawings'[i] = drawings[i]
      /\ drawings'[selected] \in Shape
      /\ drawings'[selected].kind = drawings[selected].kind
      /\ drawings'[selected].a = drawings[selected].a
      /\ drawings'[selected].b = drawings[selected].b
  <2> DEFINE shape == [drawings[selected] EXCEPT !.locked = ~told.locked]
  <2>1. drawings' = [drawings EXCEPT ![selected] = shape]
    BY <1>1 DEF ToggleLock
  <2>2. /\ shape \in Shape /\ shape.kind = drawings[selected].kind
        /\ shape.a = drawings[selected].a /\ shape.b = drawings[selected].b
    <3>1. \A b \in BOOLEAN : (~b) \in BOOLEAN
      OBVIOUS
    <3> QED
      BY <1>1, <3>1 DEF Shape
  <2> HIDE DEF shape
  <2> QED
    BY <1>1, <2>1, <2>2 DEF Docs
<1>3. drawings' \in GoodDocs(made)
  <2> SUFFICES ASSUME NEW i \in Ids, drawings'[i] # None
               PROVE  /\ i <= made
                      /\ drawings'[i].kind # "trendline" =>
                           drawings'[i].a \in 0 .. Bars - 1 /\ drawings'[i].b \in 0 .. Bars - 1
                      /\ drawings'[i].kind = "text" => drawings'[i].a = drawings'[i].b
    BY <1>2 DEF GoodDocs
  <2>1. drawings[i] # None
    BY <1>1, <1>2, NoneIsNoShape
  <2>2. /\ drawings'[i].kind = drawings[i].kind
        /\ drawings'[i].a = drawings[i].a /\ drawings'[i].b = drawings[i].b
    BY <1>2
  <2> QED
    BY <2>1, <2>2 DEF IInv, Documents, GoodDocs
<1>4. Documents'
  BY <1>3, PushKeepsDocuments DEF ToggleLock, IInv, Documents
<1>5. Controls' /\ Gestures'
  BY DEF ToggleLock, IInv, Controls, Gestures, ghosts
<1>6. SelectionTold'
  BY <1>2, NoneIsNoShape DEF ToggleLock, SelectionTold, Exists
<1>7. Grasp' /\ DragIsOneEdit'
  BY ButtonUpNoDrag, NoDragHolds DEF ToggleLock
<1> QED
  BY <1>4, <1>5, <1>6, <1>7 DEF IInv

LEMMA CommitTextKeepsIInv ==
    ASSUME IInv, CommitText
    PROVE  IInv'
<1> DEFINE shape == NewShape("text", textAt, textAt)
<1>1. textAt \in Places
  BY DEF CommitText, IInv, Controls
<1>2. /\ made' = made + 1 /\ made' \in 0 .. MaxDrawings /\ made + 1 \in Ids
      /\ drawings' \in GoodDocs(made')
      /\ drawings'[made + 1] # None
      /\ \A i \in Ids : i # made + 1 => drawings'[i] = drawings[i]
      /\ selected # made + 1
  <2>1. /\ shape \in Shape /\ Add(shape) /\ shape.a = shape.b
        /\ shape.a \in 0 .. Bars - 1 /\ shape.b \in 0 .. Bars - 1
    BY <1>1, NewShapeIsShape DEF Kinds, CommitText
  <2> QED
    BY <2>1, AddFacts
<1>3. Documents'
  BY <1>2, PushKeepsDocuments DEF CommitText
<1>4. Controls' /\ Gestures'
  BY <1>2 DEF CommitText, Select, IInv, Controls, Gestures, ghosts
<1>5. menu' # None => drawings'[menu'] # None
  BY <1>2 DEF CommitText, IInv, SelectionTold, Exists, Controls
<1>6. SelectionTold'
  BY <1>2, <1>5, SelectTells DEF CommitText
<1>7. Grasp' /\ DragIsOneEdit'
  BY ButtonUpNoDrag, NoDragHolds DEF CommitText
<1> QED
  BY <1>3, <1>4, <1>6, <1>7 DEF IInv

-----------------------------------------------------------------------------
(* Every step preserves the invariant. *)
LEMMA NextKeepsIInv == IInv /\ [Next]_vars => IInv'
<1> SUFFICES ASSUME IInv, [Next]_vars PROVE IInv'
  OBVIOUS
<1>1. CASE UNCHANGED vars
  <2>1. Documents' /\ Controls' /\ Gestures' /\ SelectionTold'
    BY <1>1 DEF vars, engineVars, component, ghosts, IInv, Documents, Controls, Gestures,
                SelectionTold, SelectionOf, Exists
  <2>2. Grasp' /\ DragIsOneEdit'
    BY <1>1, DragStays DEF vars, engineVars
  <2> QED
    BY <2>1, <2>2 DEF IInv
<1>2. ASSUME NEW p \in Places, MouseDown(p) \/ MouseMove(p)
      PROVE  IInv'
  BY <1>2, MouseDownKeepsIInv, MouseMoveKeepsIInv
<1>3. CASE MouseUp \/ Blur
  BY <1>3, MouseUpKeepsIInv, BlurKeepsIInv
<1>4. ASSUME NEW i \in Ids, ContextMenu(i)
      PROVE  IInv'
  BY <1>4, ContextMenuKeepsIInv
<1>5. CASE MenuDelete \/ MenuColor
  BY <1>5, MenuDeleteKeepsIInv, MenuColorKeepsIInv
<1>6. CASE MenuClose \/ KeyIdle \/ CancelText
  BY <1>6, ClosingKeepsIInv
<1>7. CASE KeyUndo \/ KeyRedo
  BY <1>7, RewindKeepsIInv
<1>8. ASSUME NEW t \in Tools, SelectTool(t)
      PROVE  IInv'
  BY <1>8, SelectToolKeepsIInv
<1>9. CASE ClearDrawings \/ ToggleLock \/ CommitText
  BY <1>9, ClearDrawingsKeepsIInv, ToggleLockKeepsIInv, CommitTextKeepsIInv
<1> QED
  BY <1>1, <1>2, <1>3, <1>4, <1>5, <1>6, <1>7, <1>8, <1>9 DEF Next

(* The invariant holds in every behaviour. *)
THEOREM Invariance == Spec => []IInv
  BY InitIInv, NextKeepsIInv, PTL DEF Spec

(* The types: documents, stacks, selection and gestures are what they are  *)
(* said to be, and texts and strokes stay on the bars.                     *)
THEOREM TypeCorrect == Spec => []TypeOK
  BY Invariance, IInvTypes, PTL

(* The tool bar knows the selected drawing as it is. *)
THEOREM SelectionToldHolds == Spec => []SelectionTold
<1>1. IInv => SelectionTold
  BY DEF IInv
<1> QED
  BY <1>1, Invariance, PTL

(* A drag follows the pointer and is undone at once. *)
THEOREM DragIsOneEditHolds == Spec => []DragIsOneEdit
<1>1. IInv => DragIsOneEdit
  BY DEF IInv
<1> QED
  BY <1>1, Invariance, PTL

-----------------------------------------------------------------------------
(* The step of the editing history that a step of the chart is.            *)
LEMMA StepIsHistoryStep ==
    ASSUME IInv, IInv', [Next]_vars
    PROVE  [History!Next]_(History!vars)
<1>1. /\ drawings' \in Docs /\ Dragging' \in BOOLEAN
      /\ \A s : Capped(s) = History!Capped(s) /\ Butlast(s) = History!Butlast(s)
  BY DEF IInv, Documents, GoodDocs, Dragging, Capped, History!Capped, Butlast, History!Butlast
<1>2. ASSUME PushUndo PROVE History!Edit
  BY <1>1, <1>2 DEF PushUndo, History!Edit
<1>3. CASE UNCHANGED vars
  BY <1>3 DEF vars, engineVars, History!vars, Dragging
<1>4. ASSUME NEW p \in Places, MouseDown(p)
      PROVE  History!Edit \/ UNCHANGED <<drawings, undo, redo>>
  BY <1>2, <1>4 DEF MouseDown, DraftBegins, DragBegins, LockedHit, MissHit, NoPush
<1>5. ASSUME NEW p \in Places, MouseMove(p)
      PROVE  History!Adjust \/ UNCHANGED <<drawings, undo, redo>>
  BY <1>1, <1>5 DEF MouseMove, DraftMoves, DragMoves, History!Adjust, Dragging
<1>6. CASE MouseUp \/ Blur
  <2>1. History!Edit \/ UNCHANGED <<drawings, undo, redo>>
    BY <1>2, <1>6 DEF MouseUp, DraftEnds, DragEnds, NoPush, Blur
  <2> QED
    BY <1>1, <2>1 DEF History!Next
<1>7. CASE MenuDelete \/ MenuColor \/ ClearDrawings \/ ToggleLock \/ CommitText
  <2>1. History!Edit \/ UNCHANGED <<drawings, undo, redo>>
    BY <1>2, <1>7
    DEF MenuDelete, MenuColor, ClearDrawings, ToggleLock, CommitText, NoPush
  <2> QED
    BY <1>1, <2>1 DEF History!Next
<1>8. CASE (\E i \in Ids : ContextMenu(i)) \/ (\E t \in Tools : SelectTool(t))
  BY <1>1, <1>8 DEF ContextMenu, SelectTool, History!Next
<1>9. CASE MenuClose \/ KeyIdle \/ CancelText
  BY <1>1, <1>9 DEF MenuClose, KeyIdle, CancelText, engineVars, History!Next
<1>10. CASE KeyUndo
  BY <1>1, <1>10 DEF KeyUndo, History!Next, History!Undo
<1>11. CASE KeyRedo
  BY <1>1, <1>11 DEF KeyRedo, History!Next, History!Redo
<1> QED
  BY <1>1, <1>3, <1>4, <1>5, <1>6, <1>7, <1>8, <1>9, <1>10, <1>11 DEF Next, History!Next

(* The drawings, with undo and redo, implement the editing history.        *)
THEOREM Refinement == Spec => OneLineOfDocuments
<1>1. Init => History!Init
  BY DEF Init, History!Init, Empty, Docs, Dragging
<1>2. IInv /\ IInv' /\ [Next]_vars => [History!Next]_(History!vars)
  BY StepIsHistoryStep
<1> QED
  BY <1>1, <1>2, Invariance, PTL DEF Spec, OneLineOfDocuments, History!Spec

(* A step of an editing history keeps what is undone and what can be       *)
(* undone within the limit together.                                       *)
LEMMA HistoryStepKeepsBound ==
    ASSUME IInv, HistoryBounded, [History!Next]_(History!vars)
    PROVE  HistoryBounded'
<1>1. /\ drawings \in Docs /\ undo \in Seq(Docs) /\ redo \in Seq(Docs)
      /\ Len(undo) \in Nat /\ Len(redo) \in Nat
      /\ Len(undo) + Len(redo) <= UndoLimit /\ UndoLimit \in Nat
  BY GoodDocsGrow, Constants DEF IInv, Documents, HistoryBounded, History!HistoryBounded
<1>2. CASE UNCHANGED <<undo, redo>>
  BY <1>1, <1>2 DEF HistoryBounded, History!HistoryBounded
<1>3. CASE History!Edit
  <2>1. Len(undo') <= UndoLimit /\ Len(undo') \in Nat
    BY <1>1, <1>3 DEF History!Edit, History!Capped
  <2>2. Len(redo') = 0
    BY <1>3 DEF History!Edit
  <2> QED
    BY <1>1, <2>1, <2>2 DEF HistoryBounded, History!HistoryBounded
<1>4. CASE History!Undo
  <2>1. Len(undo') = Len(undo) - 1 /\ Len(redo') = Len(redo) + 1
    BY <1>1, <1>4, ButlastFacts DEF History!Undo, History!Butlast, Butlast
  <2> QED
    BY <1>1, <2>1 DEF HistoryBounded, History!HistoryBounded
<1>5. CASE History!Redo
  <2>1. Len(undo') = Len(undo) + 1 /\ Len(redo') = Len(redo) - 1
    BY <1>1, <1>5, ButlastFacts DEF History!Redo, History!Butlast, Butlast
  <2> QED
    BY <1>1, <2>1 DEF HistoryBounded, History!HistoryBounded
<1> QED
  BY <1>2, <1>3, <1>4, <1>5 DEF History!Next, History!vars, History!Adjust

THEOREM HistoryBoundedHolds == Spec => []HistoryBounded
<1>1. Init => HistoryBounded
  BY Constants DEF Init, HistoryBounded, History!HistoryBounded
<1>2. IInv /\ IInv' /\ [Next]_vars /\ HistoryBounded => HistoryBounded'
  BY StepIsHistoryStep, HistoryStepKeepsBound
<1> QED
  BY <1>1, <1>2, Invariance, PTL DEF Spec

-----------------------------------------------------------------------------
(* What a step does to a locked drawing. *)
Stays(i) == drawings'[i].a = drawings[i].a /\ drawings'[i].b = drawings[i].b

LEMMA RewindIsSeen ==
    ASSUME IInv, KeyUndo \/ KeyRedo
    PROVE  Rewinds
<1>1. undo \in Seq(GoodDocs(made)) /\ drawings \in GoodDocs(made) /\ Len(undo) \in Nat
  BY DEF IInv, Documents
<1>2. edits' = edits
  BY DEF KeyUndo, KeyRedo, Restored
<1>3. CASE KeyUndo
  <2>1. Len(undo') = Len(undo) - 1
    BY <1>1, <1>3, ButlastFacts DEF KeyUndo
  <2> QED
    BY <1>1, <1>2, <2>1 DEF Rewinds
<1>4. CASE KeyRedo
  <2>1. Len(undo') = Len(undo) + 1
    BY <1>1, <1>4 DEF KeyRedo
  <2> QED
    BY <1>1, <1>2, <2>1 DEF Rewinds
<1> QED
  BY <1>3, <1>4

LEMMA LockedStays ==
    ASSUME IInv, [Next]_vars, NEW i \in Ids, Exists(i), drawings[i].locked,
           drawings'[i] # None, ~rewound, ~Rewinds
    PROVE  Stays(i)
<1>1. drawings \in Docs /\ made \in Nat /\ i <= made
  BY Constants DEF IInv, Documents, GoodDocs, Exists
<1>2. CASE drawings' = drawings
  BY <1>2 DEF Stays
<1>3. ASSUME NEW p \in Places, DragMoves(p)
      PROVE  Stays(i)
  <2>1. drag.id # i
    BY <1>3 DEF DragMoves, IInv, Grasp
  <2> QED
    BY <1>1, <1>3, <2>1 DEF DragMoves, Stays, Docs
<1>4. ASSUME NEW shape, Add(shape)
      PROVE  Stays(i)
  BY <1>1, <1>4 DEF Add, Stays, Docs
<1>5. CASE MouseUp
  BY <1>2, <1>4, <1>5 DEF MouseUp, DraftEnds, DragEnds
<1>6. CASE MenuDelete
  <2>1. i # menu
    BY <1>1, <1>6 DEF MenuDelete, Docs
  <2> QED
    BY <1>1, <1>6, <2>1 DEF MenuDelete, Stays, Docs
<1>7. CASE ToggleLock
  BY <1>1, <1>7 DEF ToggleLock, Stays, Docs, Shape, Exists
<1>8. CASE ClearDrawings
  BY <1>8 DEF ClearDrawings, Empty
<1>9. CASE CommitText
  BY <1>4, <1>9 DEF CommitText
<1>10. ASSUME NEW p \in Places, MouseDown(p) \/ MouseMove(p)
       PROVE  Stays(i)
  BY <1>2, <1>3, <1>10
  DEF MouseDown, DraftBegins, DragBegins, LockedHit, MissHit, MouseMove, DraftMoves
<1>11. CASE MenuClose \/ KeyIdle \/ CancelText \/ UNCHANGED vars
  BY <1>2, <1>11 DEF MenuClose, KeyIdle, CancelText, engineVars, vars
<1>12. CASE Blur \/ MenuColor \/ (\E j \in Ids : ContextMenu(j)) \/ (\E t \in Tools : SelectTool(t))
  BY <1>2, <1>12 DEF Blur, MenuColor, ContextMenu, SelectTool
<1>13. CASE KeyUndo \/ KeyRedo
  BY <1>13, RewindIsSeen
<1> QED
  BY <1>5, <1>6, <1>7, <1>8, <1>9, <1>10, <1>11, <1>12, <1>13 DEF Next

(* A locked drawing stays where it is. *)
THEOREM LockedStaysPutHolds == Spec => LockedStaysPut
<1>1. IInv /\ [Next]_vars =>
        [\A i \in Ids :
           (/\ Exists(i) /\ drawings[i].locked
            /\ drawings'[i] # None /\ ~rewound /\ ~Rewinds)
           => drawings'[i].a = drawings[i].a /\ drawings'[i].b = drawings[i].b]_vars
  BY LockedStays DEF Stays
<1> QED
  BY <1>1, Invariance, PTL DEF Spec, LockedStaysPut

-----------------------------------------------------------------------------
(* Bars.  A bar is its time; those of a chart are numbers up to the newest.*)
BarsTo(n) == {b \in Seq(Nat) : \A i \in 1 .. Len(b) : b[i] \in 1 .. n}
Rising(b) == \A i, j \in 1 .. Len(b) : i < j => b[i] < b[j]

LEMMA MaxOfTwo ==
    ASSUME NEW x \in Int, NEW y \in Int
    PROVE  /\ Feed!Max({x, y}) \in {x, y}
           /\ x <= Feed!Max({x, y}) /\ y <= Feed!Max({x, y})
<1>1. \E m \in {x, y} : \A z \in {x, y} : m >= z
  <2>1. CASE x >= y
    BY <2>1
  <2>2. CASE y >= x
    BY <2>2
  <2> QED
    BY <2>1, <2>2
<1>2. Feed!Max({x, y}) \in {x, y} /\ \A z \in {x, y} : Feed!Max({x, y}) >= z
  BY <1>1 DEF Feed!Max
<1> QED
  BY <1>2

LEMMA MinOfTwo ==
    ASSUME NEW x \in Int, NEW y \in Int
    PROVE  Feed!Min({x, y}) \in {x, y} /\ Feed!Min({x, y}) <= x /\ Feed!Min({x, y}) <= y
<1>1. \E m \in {x, y} : \A z \in {x, y} : m <= z
  <2>1. CASE x <= y
    BY <2>1
  <2>2. CASE y <= x
    BY <2>2
  <2> QED
    BY <2>1, <2>2
<1>2. Feed!Min({x, y}) \in {x, y} /\ \A z \in {x, y} : Feed!Min({x, y}) <= z
  BY <1>1 DEF Feed!Min
<1> QED
  BY <1>2

LEMMA EmptyIsBars == \A n \in Nat : <<>> \in BarsTo(n) /\ Rising(<<>>)
BY DEF BarsTo, Rising

LEMMA MoreBars == \A n \in Nat : BarsTo(n) \subseteq BarsTo(n + 1)
<1> SUFFICES ASSUME NEW n \in Nat, NEW b \in BarsTo(n) PROVE b \in BarsTo(n + 1)
  OBVIOUS
<1>1. \A i \in 1 .. Len(b) : b[i] \in 1 .. n
  BY DEF BarsTo
<1>2. \A i \in 1 .. Len(b) : b[i] \in 1 .. n + 1
  BY <1>1
<1> QED
  BY <1>2 DEF BarsTo

(* The times from a to b. *)
LEMMA FromToIsBars ==
    ASSUME NEW n \in Nat, NEW b \in 0 .. n, NEW a \in 1 .. b + 1
    PROVE  /\ Feed!FromTo(a, b) \in BarsTo(n) /\ Rising(Feed!FromTo(a, b))
           /\ Len(Feed!FromTo(a, b)) = b - a + 1
           /\ \A i \in 1 .. b - a + 1 : Feed!FromTo(a, b)[i] = a + i - 1
<1> DEFINE new == Feed!FromTo(a, b)
           len == b - a + 1
<1>1. len \in Nat /\ new = [i \in 1 .. len |-> a + i - 1]
  BY DEF Feed!FromTo
<1>2. \A i \in 1 .. len : a + i - 1 \in Nat /\ a + i - 1 \in 1 .. n
  OBVIOUS
<1>3. new \in Seq(Nat) /\ Len(new) = len /\ \A i \in 1 .. len : new[i] = a + i - 1
  <2>1. \A i \in 1 .. len : a + i - 1 \in Nat
    BY <1>2
  <2> HIDE DEF new, len
  <2> QED
    BY <1>1, <2>1
<1>4. new \in BarsTo(n)
  <2> HIDE DEF new, len
  <2> QED
    BY <1>2, <1>3 DEF BarsTo
<1>5. Rising(new)
  <2> HIDE DEF new
  <2> QED
    BY <1>3 DEF Rising
<1> QED
  BY <1>3, <1>4, <1>5

(* A part of bars: the newest, or the oldest. *)
LEMMA PartIsBars ==
    ASSUME NEW n \in Nat, NEW b \in BarsTo(n), NEW m \in Nat \ {0}, NEW k \in Nat, k <= Len(b)
    PROVE  /\ SubSeq(b, m, k) \in BarsTo(n)
           /\ Len(SubSeq(b, m, k)) = IF m <= k THEN k - m + 1 ELSE 0
           /\ Rising(b) => Rising(SubSeq(b, m, k))
<1> DEFINE new == SubSeq(b, m, k)
<1>1. Len(b) \in Nat /\ b \in Seq(Nat) /\ \A i \in 1 .. Len(b) : b[i] \in 1 .. n
  BY DEF BarsTo
<1>2. \A i \in m .. k : b[i] \in Nat
  BY <1>1
<1>3. /\ new \in Seq(Nat)
      /\ Len(new) = IF m <= k THEN k - m + 1 ELSE 0
      /\ \A i \in 1 .. k - m + 1 : new[i] = b[m + i - 1]
  BY <1>2, SubSeqProperties
<1> HIDE DEF new
<1>4. \A i \in 1 .. Len(new) : new[i] = b[m + i - 1] /\ m + i - 1 \in 1 .. Len(b)
  <2> SUFFICES ASSUME NEW i \in 1 .. Len(new)
               PROVE  new[i] = b[m + i - 1] /\ m + i - 1 \in 1 .. Len(b)
    OBVIOUS
  <2>1. m <= k /\ i \in 1 .. k - m + 1
    BY <1>3
  <2> QED
    BY SMTT(60), <1>1, <1>3, <2>1
<1>5. new \in BarsTo(n)
  BY <1>1, <1>3, <1>4 DEF BarsTo
<1>6. Rising(b) => Rising(new)
  <2> SUFFICES ASSUME Rising(b), NEW i \in 1 .. Len(new), NEW j \in 1 .. Len(new), i < j
               PROVE  new[i] < new[j]
    BY DEF Rising
  <2>1. i \in Int /\ j \in Int /\ m + i - 1 < m + j - 1
    BY <1>3
  <2> QED
    BY <1>4, <2>1 DEF Rising
<1> QED
  BY <1>3, <1>5, <1>6 DEF new

LEMMA NewestIsBars ==
    ASSUME NEW n \in Nat, NEW b \in BarsTo(n)
    PROVE  /\ Feed!KeepNewest(b) \in BarsTo(n) /\ Len(Feed!KeepNewest(b)) <= Keep
           /\ Rising(b) => Rising(Feed!KeepNewest(b))
           /\ b # <<>> => Feed!KeepNewest(b) # <<>>
<1> DEFINE len == Len(b)
           least == len - Keep + 1
           m == Feed!Max({1, least})
<1>1. Keep \in Nat \ {0} /\ len \in Nat /\ b \in Seq(Nat)
  BY FeedAssumption DEF BarsTo
<1>2. Feed!KeepNewest(b) = SubSeq(b, m, len)
  BY DEF Feed!KeepNewest
<1> HIDE DEF len
<1>3. least \in Int
  BY <1>1
<1>4. m \in {1, least} /\ 1 <= m /\ least <= m
  <2> HIDE DEF least
  <2> QED
    BY <1>3, MaxOfTwo
<1> HIDE DEF m
<1>5. m \in Nat \ {0} /\ (len # 0 => m <= len) /\ len - m + 1 <= Keep
  BY <1>1, <1>4
<1> DEFINE new == SubSeq(b, m, len)
<1>6. /\ new \in BarsTo(n) /\ Len(new) = (IF m <= len THEN len - m + 1 ELSE 0)
      /\ Rising(b) => Rising(new)
  BY <1>1, <1>5, PartIsBars DEF len
<1> HIDE DEF new
<1>7. Len(new) <= Keep
  BY <1>1, <1>5, <1>6
<1>8. b # <<>> => new # <<>>
  <2>1. b # <<>> => len # 0
    BY <1>1 DEF len
  <2>2. len # 0 => Len(new) # 0
    BY <1>1, <1>5, <1>6
  <2> QED
    BY <2>1, <2>2
<1> QED
  BY <1>2, <1>6, <1>7, <1>8 DEF new

LEMMA OldestIsBars ==
    ASSUME NEW n \in Nat, NEW b \in BarsTo(n)
    PROVE  /\ Feed!KeepOldest(b) \in BarsTo(n) /\ Len(Feed!KeepOldest(b)) <= Keep
           /\ Rising(b) => Rising(Feed!KeepOldest(b))
<1> DEFINE len == Len(b)
           m == Feed!Min({Keep, len})
<1>1. Keep \in Nat \ {0} /\ len \in Nat
  BY FeedAssumption DEF BarsTo
<1>2. Feed!KeepOldest(b) = SubSeq(b, 1, m)
  BY DEF Feed!KeepOldest
<1>3. m \in {Keep, len} /\ m <= Keep /\ m <= len
  <2> HIDE DEF len
  <2>1. Keep \in Int /\ len \in Int
    BY <1>1
  <2> QED
    BY <2>1, MinOfTwo
<1> HIDE DEF m, len
<1>4. m \in Nat
  BY <1>1, <1>3
<1> DEFINE new == SubSeq(b, 1, m)
<1>5. /\ new \in BarsTo(n) /\ Len(new) = (IF 1 <= m THEN m - 1 + 1 ELSE 0)
      /\ Rising(b) => Rising(new)
  BY <1>3, <1>4, PartIsBars DEF len
<1> HIDE DEF new
<1> QED
  BY <1>1, <1>2, <1>3, <1>4, <1>5 DEF new

(* Among finitely many numbers each rank below their number is taken by    *)
(* exactly one.                                                            *)
Rank(S, k) == Cardinality({m \in S : m < k})

LEMMA RankGrows ==
    ASSUME NEW S, S \subseteq Nat, IsFiniteSet(S), NEW k \in S
    PROVE  /\ Rank(S, k) \in 0 .. (Cardinality(S) - 1)
           /\ \A m \in S : m < k => Rank(S, m) < Rank(S, k)
<1> DEFINE below(x) == {m \in S : m < x}
<1>1. \A x : IsFiniteSet(below(x)) /\ Cardinality(below(x)) \in Nat
  <2> SUFFICES ASSUME NEW x PROVE IsFiniteSet(below(x)) /\ Cardinality(below(x)) \in Nat
    OBVIOUS
  <2>1. below(x) \in SUBSET S
    OBVIOUS
  <2> HIDE DEF below
  <2> QED
    BY <2>1, FS_Subset, FS_CardinalityType
<1>2. ASSUME NEW T, NEW U, IsFiniteSet(U), T \subseteq U, NEW x \in U, x \notin T
      PROVE  Cardinality(T) < Cardinality(U)
  <2>1. Cardinality(T) <= Cardinality(U) /\ Cardinality(T) # Cardinality(U)
    BY <1>2, FS_Subset
  <2>2. Cardinality(T) \in Nat /\ Cardinality(U) \in Nat
    BY <1>2, FS_Subset, FS_CardinalityType
  <2> QED
    BY <2>1, <2>2
<1>3. below(k) \subseteq S /\ k \notin below(k)
  OBVIOUS
<1>4. \A m \in S : m < k => below(m) \subseteq below(k) /\ m \in below(k) /\ m \notin below(m)
  <2> SUFFICES ASSUME NEW m \in S, m < k
               PROVE  below(m) \subseteq below(k) /\ m \in below(k) /\ m \notin below(m)
    OBVIOUS
  <2>1. \A x \in S : x \in Nat
    OBVIOUS
  <2>2. k \in Nat /\ m \in Nat /\ m < k
    BY <2>1
  <2>3. \A x \in Nat : x < m => x < k
    BY <2>2
  <2>4. below(m) \subseteq below(k)
    BY <2>1, <2>3
  <2>5. ~(m < m)
    BY <2>2
  <2> QED
    BY <2>4, <2>5
<1>5. Rank(S, k) = Cardinality(below(k)) /\ \A m \in S : Rank(S, m) = Cardinality(below(m))
  BY DEF Rank
<1> HIDE DEF below
<1>6. Cardinality(below(k)) < Cardinality(S)
  BY <1>2, <1>3
<1>7. \A m \in S : m < k => Cardinality(below(m)) < Cardinality(below(k))
  BY <1>1, <1>2, <1>4
<1>8. Cardinality(S) \in Nat /\ Cardinality(below(k)) \in Nat
  BY <1>1, FS_CardinalityType
<1> QED
  BY <1>5, <1>6, <1>7, <1>8

LEMMA RanksApart ==
    ASSUME NEW S, S \subseteq Nat, IsFiniteSet(S), NEW k \in S, NEW m \in S,
           Rank(S, k) = Rank(S, m)
    PROVE  k = m
<1>1. k \in Nat /\ m \in Nat
  OBVIOUS
<1>2. /\ Rank(S, k) \in 0 .. (Cardinality(S) - 1)
      /\ m < k => Rank(S, m) < Rank(S, k)
      /\ k < m => Rank(S, k) < Rank(S, m)
  BY RankGrows
<1>3. Rank(S, k) \in Int
  BY <1>2, FS_CardinalityType
<1> QED
  BY <1>1, <1>2, <1>3

LEMMA RankTaken ==
    ASSUME NEW S, S \subseteq Nat, IsFiniteSet(S), NEW j \in 0 .. (Cardinality(S) - 1)
    PROVE  \E k \in S : Rank(S, k) = j
<1> DEFINE n == Cardinality(S)
           all == 0 .. (n - 1)
           rank == [k \in S |-> Rank(S, k)]
<1>1. n \in Nat
  BY FS_CardinalityType
<1>2. IsFiniteSet(all) /\ Cardinality(all) = n
  BY <1>1, FS_Interval
<1>3. rank \in Injection(S, all)
  <2>1. rank \in [S -> all]
    BY RankGrows
  <2>2. \A a, b \in S : rank[a] = rank[b] => a = b
    BY RanksApart
  <2> HIDE DEF rank, all
  <2> QED
    BY <2>1, <2>2 DEF Injection, IsInjective
<1> HIDE DEF all, n
<1>4. rank \in Surjection(S, all)
  <2> HIDE DEF rank
  <2> QED
    BY <1>2, <1>3, FS_Injection DEF n
<1>5. j \in all
  BY DEF all, n
<1>6. \E k \in S : rank[k] = j
  <2> HIDE DEF rank
  <2> QED
    BY <1>4, <1>5 DEF Surjection
<1> QED
  BY <1>6

(* Merged bars are those of both, each once, in order. *)
LEMMA MergedIsBars ==
    ASSUME NEW n \in Nat, NEW old \in BarsTo(n), NEW new \in BarsTo(n)
    PROVE  /\ Feed!Merged(old, new) \in BarsTo(n) /\ Rising(Feed!Merged(old, new))
           /\ new # <<>> => Feed!Merged(old, new) # <<>>
<1> DEFINE times == Feed!ToSet(old) \union Feed!ToSet(new)
           len == Cardinality(times)
           at(i) == CHOOSE t \in times : Rank(times, t) = i - 1
           merged == [i \in 1 .. len |-> at(i)]
<1>1. times \subseteq 1 .. n /\ (new # <<>> => new[1] \in times)
  <2>1. \A i \in DOMAIN old : old[i] \in 1 .. n
    BY DEF BarsTo
  <2>2. \A i \in DOMAIN new : new[i] \in 1 .. n
    BY DEF BarsTo
  <2>3. new # <<>> => 1 \in DOMAIN new
    BY DEF BarsTo
  <2> QED
    BY <2>1, <2>2, <2>3 DEF Feed!ToSet
<1>2. Feed!Merged(old, new) = merged
  BY DEF Feed!Merged, Rank, Feed!Cardinality, Cardinality
<1> HIDE DEF times
<1>3. times \subseteq Nat /\ IsFiniteSet(times) /\ len \in Nat
  <2>1. IsFiniteSet(1 .. n)
    BY FS_Interval
  <2>2. times \in SUBSET (1 .. n)
    BY <1>1
  <2>3. IsFiniteSet(times)
    BY <2>1, <2>2, FS_Subset
  <2>4. Cardinality(times) \in Nat
    BY <2>3, FS_CardinalityType
  <2> QED
    BY <1>1, <2>3, <2>4
<1>4. \A i \in 1 .. len : at(i) \in times /\ Rank(times, at(i)) = i - 1
  <2> SUFFICES ASSUME NEW i \in 1 .. len PROVE at(i) \in times /\ Rank(times, at(i)) = i - 1
    OBVIOUS
  <2>1. i - 1 \in 0 .. (Cardinality(times) - 1)
    <3>1. Cardinality(times) \in Nat /\ i \in 1 .. Cardinality(times)
      BY <1>3
    <3> HIDE DEF len
    <3> QED
      BY <3>1
  <2>2. \E t \in times : Rank(times, t) = i - 1
    BY <1>3, <2>1, RankTaken
  <2> QED
    BY <2>2
<1> HIDE DEF at
<1>5. \A i, j \in 1 .. len : i < j => at(i) < at(j)
  <2> SUFFICES ASSUME NEW i \in 1 .. len, NEW j \in 1 .. len, i < j PROVE at(i) < at(j)
    OBVIOUS
  <2>1. at(i) \in times /\ at(j) \in times /\ Rank(times, at(i)) = i - 1 /\ Rank(times, at(j)) = j - 1
    BY <1>4
  <2>2. at(j) < at(i) => Rank(times, at(j)) < Rank(times, at(i))
    BY <1>3, <2>1, RankGrows
  <2>3. at(i) \in Nat /\ at(j) \in Nat /\ i \in Int /\ j \in Int
    <3>1. \A x \in times : x \in Nat
      BY <1>3
    <3>2. i \in Int /\ j \in Int
      BY <1>3
    <3> QED
      BY <2>1, <3>1, <3>2
  <2>4. at(i) # at(j)
    BY <2>1, <2>3
  <2> QED
    BY <2>1, <2>2, <2>3, <2>4
<1>6. \A i \in 1 .. len : at(i) \in 1 .. n
  BY <1>1, <1>4
<1> HIDE DEF len
<1>7. merged \in Seq(Nat) /\ Len(merged) = len /\ \A i \in 1 .. len : merged[i] = at(i)
  <2>1. \A i \in 1 .. len : at(i) \in Nat
    BY <1>6
  <2> QED
    BY <1>3, <2>1
<1> HIDE DEF merged
<1>8. merged \in BarsTo(n)
  BY <1>6, <1>7 DEF BarsTo
<1>9. Rising(merged)
  BY <1>5, <1>7 DEF Rising
<1>10. new # <<>> => merged # <<>>
  <2> SUFFICES ASSUME new # <<>>, merged = <<>> PROVE FALSE
    OBVIOUS
  <2>1. len = 0
    BY <1>7
  <2>2. times = {}
    BY <1>3, <2>1, FS_EmptySet DEF len
  <2> QED
    BY <1>1, <2>2
<1> QED
  BY <1>2, <1>8, <1>9, <1>10

LEMMA LastIsBar ==
    ASSUME NEW n \in Nat, NEW b \in BarsTo(n), b # <<>>
    PROVE  Feed!Last(b) \in 1 .. n
BY DEF BarsTo, Feed!Last

(* What the server answers. *)
LEMMA WindowIsBars ==
    ASSUME now \in Nat \ {0}
    PROVE  Feed!WindowNow \in BarsTo(now) /\ Rising(Feed!WindowNow) /\ Feed!WindowNow # <<>>
<1> DEFINE least == now - Window + 1
           m == Feed!Max({1, least})
<1>1. Window \in Nat \ {0}
  BY FeedAssumption
<1>2. Feed!WindowNow = Feed!FromTo(m, now)
  BY DEF Feed!WindowNow, Feed!first
<1>3. m \in {1, least} /\ 1 <= m
  <2>1. least \in Int
    BY <1>1
  <2> HIDE DEF least
  <2> QED
    BY <2>1, MaxOfTwo
<1> HIDE DEF m
<1>4. m \in 1 .. now + 1 /\ m <= now
  BY <1>1, <1>3
<1>5. /\ Feed!FromTo(m, now) \in BarsTo(now) /\ Rising(Feed!FromTo(m, now))
      /\ Len(Feed!FromTo(m, now)) = now - m + 1
  BY <1>4, FromToIsBars
<1>6. Feed!FromTo(m, now) # <<>>
  BY <1>4, <1>5
<1> QED
  BY <1>2, <1>5, <1>6

LEMMA SinceIsBars ==
    ASSUME now \in Nat \ {0}, NEW since \in 0 .. now
    PROVE  LET bars == Feed!FromTo(Feed!Max({Feed!first, since}), now)
           IN  bars \in BarsTo(now) /\ Rising(bars) /\ bars # <<>>
<1> DEFINE m == Feed!Max({1, since})
           b == Feed!FromTo(m, now)
<1>1. m \in {1, since} /\ 1 <= m
  BY MaxOfTwo
<1> HIDE DEF m
<1>2. m \in 1 .. now + 1 /\ m <= now
  BY <1>1
<1>3. b \in BarsTo(now) /\ Rising(b) /\ Len(b) = now - m + 1
  BY <1>2, FromToIsBars
<1>4. b # <<>>
  BY <1>2, <1>3
<1> QED
  BY <1>3, <1>4 DEF m, Feed!first

LEMMA OlderIsBars ==
    ASSUME NEW end \in Nat
    PROVE  Feed!OlderUpTo(end) \in BarsTo(end) /\ Rising(Feed!OlderUpTo(end))
<1> DEFINE least == end - Window + 1
           m == Feed!Max({1, least})
<1>1. Window \in Nat \ {0}
  BY FeedAssumption
<1>2. Feed!OlderUpTo(end) = Feed!FromTo(m, end)
  BY DEF Feed!OlderUpTo, Feed!first
<1>3. m \in {1, least} /\ 1 <= m
  <2>1. least \in Int
    BY <1>1
  <2> HIDE DEF least
  <2> QED
    BY <2>1, MaxOfTwo
<1> HIDE DEF m
<1>4. m \in 1 .. end + 1
  BY <1>1, <1>3
<1> QED
  BY <1>2, <1>4, FromToIsBars

(* Older bars before those there are, which begin after them. *)
LEMMA BeforeIsBars ==
    ASSUME NEW n \in Nat, NEW end \in 0 .. n, NEW b \in BarsTo(n), NEW old \in BarsTo(end)
    PROVE  /\ old \o b \in BarsTo(n)
           /\ Rising(old) /\ Rising(b) /\ (b # <<>> => end = b[1] - 1) => Rising(old \o b)
<1> DEFINE new == old \o b
<1>1. old \in Seq(Nat) /\ b \in Seq(Nat) /\ Len(old) \in Nat /\ Len(b) \in Nat
  BY DEF BarsTo
<1>2. /\ new \in Seq(Nat) /\ Len(new) = Len(old) + Len(b)
      /\ \A i \in 1 .. Len(old) + Len(b) : new[i] = IF i <= Len(old) THEN old[i] ELSE b[i - Len(old)]
  BY <1>1, ConcatProperties
<1> HIDE DEF new
<1>3. \A i \in 1 .. Len(old) : old[i] \in 1 .. end
  BY DEF BarsTo
<1>4. \A i \in 1 .. Len(b) : b[i] \in 1 .. n
  BY DEF BarsTo
<1>5. \A i \in 1 .. Len(new) : new[i] \in 1 .. n
  <2> SUFFICES ASSUME NEW i \in 1 .. Len(new) PROVE new[i] \in 1 .. n
    OBVIOUS
  <2>1. CASE i <= Len(old)
    <3>1. i \in 1 .. Len(old) /\ new[i] = old[i]
      BY <1>1, <1>2, <2>1
    <3>2. old[i] \in 1 .. end
      BY <1>3, <3>1
    <3>3. end \in Nat /\ end <= n
      OBVIOUS
    <3> QED
      BY <3>1, <3>2, <3>3
  <2>2. CASE i > Len(old)
    <3>1. i - Len(old) \in 1 .. Len(b) /\ new[i] = b[i - Len(old)]
      BY <1>1, <1>2, <2>2
    <3> QED
      BY <1>4, <3>1
  <2> QED
    BY <1>1, <2>1, <2>2
<1>6. ASSUME Rising(old), Rising(b), b # <<>> => end = b[1] - 1 PROVE Rising(new)
  <2> SUFFICES ASSUME NEW i \in 1 .. Len(new), NEW j \in 1 .. Len(new), i < j
               PROVE  new[i] < new[j]
    BY DEF Rising
  <2>1. i \in Int /\ j \in Int
    BY <1>1, <1>2
  <2>2. CASE j <= Len(old)
    <3>1. i \in 1 .. Len(old) /\ j \in 1 .. Len(old)
      BY <1>1, <1>2, <2>1, <2>2
    <3>2. old[i] < old[j]
      BY <1>6, <3>1 DEF Rising
    <3>3. new[i] = old[i] /\ new[j] = old[j]
      BY <1>1, <1>2, <2>1, <2>2
    <3> QED
      BY <3>2, <3>3
  <2>3. CASE i > Len(old)
    <3>0. j > Len(old) /\ i - Len(old) < j - Len(old)
      BY <1>1, <2>1, <2>3
    <3>1. /\ i - Len(old) \in 1 .. Len(b) /\ new[i] = b[i - Len(old)]
          /\ j - Len(old) \in 1 .. Len(b) /\ new[j] = b[j - Len(old)]
          /\ i - Len(old) < j - Len(old)
      <4>1. \A k \in 1 .. Len(new) : k > Len(old) =>
               k - Len(old) \in 1 .. Len(b) /\ new[k] = b[k - Len(old)]
        BY <1>1, <1>2
      <4> QED
        BY <2>3, <3>0, <4>1
    <3> QED
      BY <1>6, <3>1 DEF Rising
  <2>4. CASE i <= Len(old) /\ j > Len(old)
    <3>1. new[i] = old[i] /\ i \in 1 .. Len(old)
      BY <1>1, <1>2, <2>1, <2>4
    <3>2. new[j] = b[j - Len(old)] /\ j - Len(old) \in 1 .. Len(b)
      BY <1>1, <1>2, <2>1, <2>4
    <3>3. b # <<>> /\ 1 \in 1 .. Len(b)
      BY <1>1, <3>2
    <3>4. b[1] <= b[j - Len(old)]
      <4>1. CASE j - Len(old) = 1
        BY <1>4, <3>3, <4>1
      <4>2. CASE 1 < j - Len(old)
        BY SMTT(60), <1>4, <1>6, <3>2, <3>3, <4>2 DEF Rising
      <4> QED
        BY <3>2, <4>1, <4>2
    <3>5. old[i] \in 1 .. end
      BY <1>3, <3>1
    <3>6. b[1] \in 1 .. n /\ b[j - Len(old)] \in 1 .. n
      BY <1>4, <3>2, <3>3
    <3>7. end = b[1] - 1
      BY <1>6, <3>3
    <3>8. \A x, y, z \in Int : x <= end /\ end = y - 1 /\ y <= z => x < z
      OBVIOUS
    <3>9. /\ old[i] \in Int /\ old[i] <= end
          /\ b[1] \in Int /\ b[j - Len(old)] \in Int
      <4>1. \A k \in 1 .. end : k \in Int /\ k <= end
        OBVIOUS
      <4>2. \A k \in 1 .. n : k \in Int
        OBVIOUS
      <4> QED
        BY <3>5, <3>6, <4>1, <4>2, Zenon
    <3>10. old[i] < b[j - Len(old)]
      BY <3>4, <3>7, <3>8, <3>9, Zenon
    <3> QED
      BY <3>1, <3>2, <3>10, Zenon
  <2> QED
    BY <1>1, <2>1, <2>2, <2>3, <2>4
<1>7. new \in BarsTo(n)
  BY <1>2, <1>5 DEF BarsTo
<1> QED
  BY <1>6, <1>7 DEF new

-----------------------------------------------------------------------------
(* The inductive invariant of the bars.  First the types.                  *)
ShortTo(n) == {b \in BarsTo(n) : Len(b) <= Keep}
Hooks(n) == [sym: Tickers \union {Nobody}, bars: ShortTo(n), of: Tickers \union {Nobody},
             loading: BOOLEAN, debounce: BOOLEAN, panTimer: BOOLEAN, pan: BOOLEAN,
             extent: {0, 1}, pend: BarsTo(n)]
Entries(n) == [last: 0 .. n, timer: BOOLEAN, fetching: BOOLEAN]
Counts == [own: Nat, other: Nat]
CacheEntries(n) == [bars: {b \in ShortTo(n) : Rising(b)}, extent: {0, 1}]
Waits == [c: Charts, sym: Tickers, kind: {"full", "background"}, live: BOOLEAN]
OlderRequests(n) == [c: Charts, sym: Tickers, kind: {"pan", "backfill"}, stale: BOOLEAN,
                     end: 0 .. n]

Clock == now \in Nat \ {0} /\ now <= LastTime
PollTypes ==
    /\ entry \in [Tickers -> Entries(now) \union {Nobody}]
    /\ strays \in [Tickers -> Counts]
    /\ polls \in [Tickers -> Seq(0 .. now)]
ChartTypes ==
    /\ chart \in [Charts -> Hooks(now)]
    /\ cached \in [Tickers -> CacheEntries(now)]
    /\ waits \subseteq Waits
    /\ older \subseteq OlderRequests(now)

(* What a symbol's poll does: it goes on while the entry lives; an entry   *)
(* that is gone has no timer of its own; and without a rebirth there is no *)
(* stray timer at all.                                                     *)
Timer(e) == IF e # Nobody /\ e.timer THEN 1 ELSE 0
PollOf(s) ==
    /\ entry[s] # Nobody =>
         entry[s].timer \/ strays[s].own > 0 \/ strays[s].other > 0 \/ polls[s] # <<>>
    /\ entry[s] = Nobody => strays[s].own = 0
    /\ s \notin reborn => /\ strays[s].own = 0 /\ strays[s].other = 0
                          /\ Len(polls[s]) + strays[s].own + strays[s].other
                             + Timer(entry[s]) <= 1
Subscribed(s) == entry[s] # Nobody <=> \E c \in Charts : chart[c].sym = s
Polls == \A s \in Tickers : PollOf(s)
AllSubscribed == \A s \in Tickers : Subscribed(s)

(* A request that is not cancelled or out of date is for the symbol that   *)
(* the chart has; without a symbol nothing is under way.                   *)
NothingOpen == \A c \in Charts : chart[c].sym = Nobody =>
                 chart[c] = Feed!Closed /\ \A o \in older : o.c # c
LiveIsOwn ==
    /\ \A w \in waits : w.live => chart[w.c].sym = w.sym
    /\ \A o \in older : ~o.stale => chart[o.c].sym = o.sym

(* While a chart says that it is loading, its own request is a full one.   *)
FullOnly == \A w \in waits : w.live /\ chart[w.c].loading => w.kind = "full"

(* Older bars that were asked for end where the bars begin, unless they    *)
(* were overtaken.                                                         *)
Fits(c) == /\ Rising(chart[c].bars)
           /\ \A o \in older : o.c = c /\ ~o.stale /\ chart[c].bars # <<>>
                               => o.end = chart[c].bars[1] - 1
OlderFit == \A c \in Charts : c \notin crossed => Fits(c)

PollSide == PollTypes /\ Polls
ChartSide == /\ ChartTypes /\ NothingOpen /\ LiveIsOwn /\ FullOnly /\ OlderFit
             /\ Feed!ShowsItsSymbol /\ Feed!PanEnds /\ Feed!LoadingEnds
FeedInv == Clock /\ PollSide /\ ChartSide /\ AllSubscribed

-----------------------------------------------------------------------------
LEMMA FeedConstants ==
    /\ Window \in Nat \ {0} /\ Keep \in Nat \ {0} /\ LastTime \in Nat \ {0, 1}
    /\ Nobody \notin Tickers
    /\ \A n \in Nat : \A e \in Entries(n) : e # Nobody
<1>1. \A n \in Nat : Entries(n) \subseteq [last : Nat, timer : BOOLEAN, fetching : BOOLEAN]
  BY DEF Entries
<1> QED
  BY <1>1, FeedAssumption

(* The invariant says what the runs check. *)
LEMMA FeedInvGives ==
    ASSUME FeedInv
    PROVE  Feed!TypeOK /\ Feed!BarsAreRight /\ Feed!NothingStalls
<1>1. Feed!TypeOK
  <2>1. ASSUME NEW c \in Charts
        PROVE  /\ chart[c].sym \in Tickers \union {Nobody}
               /\ {chart[c].loading, chart[c].debounce, chart[c].panTimer, chart[c].pan}
                    \subseteq BOOLEAN
               /\ Len(chart[c].bars) <= Keep
    <3>1. chart[c] \in Hooks(now)
      BY DEF FeedInv, ChartSide, ChartTypes
    <3> QED
      BY <3>1 DEF Hooks, ShortTo
  <2>2. ASSUME NEW s \in Tickers
        PROVE  /\ (entry[s] = Nobody) = (Feed!Listeners(s) = {})
               /\ entry[s] = Nobody => strays[s].own = 0
               /\ strays[s].own >= 0 /\ strays[s].other >= 0
    <3>1. strays[s] \in Counts
      BY DEF FeedInv, PollSide, PollTypes
    <3>2. PollOf(s) /\ Subscribed(s)
      BY DEF FeedInv, PollSide, Polls, AllSubscribed
    <3>3. (entry[s] = Nobody) <=> (Feed!Listeners(s) = {})
      BY <3>2 DEF Subscribed, Feed!Listeners
    <3>4. (entry[s] = Nobody) = (Feed!Listeners(s) = {})
      BY <3>3
    <3>5. entry[s] = Nobody => strays[s].own = 0
      BY <3>2 DEF PollOf
    <3>6. strays[s].own >= 0 /\ strays[s].other >= 0
      BY <3>1 DEF Counts
    <3> QED
      BY <3>4, <3>5, <3>6
  <2>3. now \in 1 .. LastTime
    BY FeedConstants DEF FeedInv, Clock
  <2> QED
    BY <2>1, <2>2, <2>3 DEF Feed!TypeOK
<1>2. Feed!BarsAreRight
  <2>1. Feed!Ordered
    <3> SUFFICES ASSUME NEW c \in Charts, c \notin crossed,
                        NEW i \in 1 .. Len(chart[c].bars) - 1
                 PROVE  chart[c].bars[i] < chart[c].bars[i + 1]
      BY DEF Feed!Ordered
    <3>1. Rising(chart[c].bars)
      BY DEF FeedInv, ChartSide, OlderFit, Fits
    <3>2. Len(chart[c].bars) \in Nat
      BY DEF FeedInv, ChartSide, ChartTypes, Hooks, ShortTo, BarsTo
    <3>3. i \in 1 .. Len(chart[c].bars) /\ i + 1 \in 1 .. Len(chart[c].bars) /\ i < i + 1
      BY <3>2
    <3> QED
      BY <3>1, <3>3 DEF Rising
  <2> QED
    BY <2>1 DEF Feed!BarsAreRight, FeedInv, ChartSide
<1>3. Feed!PollKeepsGoing
  BY DEF FeedInv, PollSide, Polls, PollOf, Feed!PollKeepsGoing
<1>4. Feed!OneChain
  <2> SUFFICES ASSUME NEW s \in Tickers, s \notin reborn PROVE Feed!Chains(s) <= 1
    BY DEF Feed!OneChain
  <2>1. PollOf(s)
    BY DEF FeedInv, PollSide, Polls
  <2> QED
    BY <2>1 DEF PollOf, Feed!Chains, Timer
<1>5. Feed!WaitsEnd
  BY DEF Feed!WaitsEnd, FeedInv, ChartSide
<1> QED
  BY <1>1, <1>2, <1>3, <1>4, <1>5 DEF Feed!NothingStalls, Feed!OneTimer

LEMMA FeedInit == Feed!Init => FeedInv
<1> SUFFICES ASSUME Feed!Init PROVE FeedInv
  OBVIOUS
<1>1. Clock
  BY FeedConstants DEF Clock, Feed!Init
<1>2. <<>> \in BarsTo(now) /\ Rising(<<>>) /\ <<>> \in ShortTo(now)
  <2>1. <<>> \in BarsTo(now) /\ Rising(<<>>)
    BY <1>1, EmptyIsBars DEF Clock
  <2> QED
    BY <2>1, FeedConstants DEF ShortTo
<1>3. PollSide
  <2>1. PollTypes
    BY DEF Feed!Init, PollTypes, Counts
  <2>2. Polls
    BY DEF Feed!Init, Polls, PollOf, Timer
  <2> QED
    BY <2>1, <2>2 DEF PollSide
<1>4. AllSubscribed
  BY FeedConstants DEF Feed!Init, Feed!Closed, AllSubscribed, Subscribed
<1>5. ChartTypes
  <2>1. Feed!Closed \in Hooks(now)
    BY <1>2 DEF Feed!Closed, Hooks
  <2>2. Feed!NotCached \in CacheEntries(now)
    BY <1>2 DEF Feed!NotCached, CacheEntries
  <2> QED
    BY <2>1, <2>2 DEF Feed!Init, ChartTypes
<1>6. NothingOpen /\ LiveIsOwn /\ FullOnly
  BY DEF Feed!Init, NothingOpen, LiveIsOwn, FullOnly
<1>7. OlderFit
  <2>1. \A c \in Charts : chart[c].bars = <<>> /\ older = {}
    BY DEF Feed!Init, Feed!Closed
  <2> QED
    BY <1>2, <2>1 DEF OlderFit, Fits
<1>8. Feed!ShowsItsSymbol /\ Feed!PanEnds /\ Feed!LoadingEnds
  BY DEF Feed!Init, Feed!Closed, Feed!ShowsItsSymbol, Feed!PanEnds, Feed!LoadingEnds
<1> QED
  BY <1>1, <1>3, <1>4, <1>5, <1>6, <1>7, <1>8 DEF FeedInv, ChartSide

-----------------------------------------------------------------------------
(* The poll.  Setting the timer of an entry.                               *)
LEMMA ScheduleFacts ==
    ASSUME Clock, PollTypes, NEW s \in Tickers, NEW e \in Entries(now) \union {Nobody},
           NEW stray \in Counts, Feed!Schedule(s, e, stray)
    PROVE  /\ entry' \in [Tickers -> Entries(now) \union {Nobody}]
           /\ strays' \in [Tickers -> Counts]
           /\ \A t \in Tickers : t # s => entry'[t] = entry[t] /\ strays'[t] = strays[t]
           /\ e = Nobody => entry'[s] = Nobody /\ strays'[s] = stray
           /\ e # Nobody => /\ entry'[s] # Nobody /\ entry'[s].timer = TRUE
                            /\ strays'[s].other = stray.other
                            /\ strays'[s].own = stray.own + Timer(e)
<1> DEFINE on == [e EXCEPT !.timer = TRUE]
           more == [stray EXCEPT !.own = @ + 1]
<1>1. e # Nobody => on \in Entries(now) /\ on.timer = TRUE /\ on # Nobody
  <2> SUFFICES ASSUME e # Nobody PROVE on \in Entries(now) /\ on.timer = TRUE /\ on # Nobody
    OBVIOUS
  <2>1. e \in Entries(now)
    OBVIOUS
  <2>2. on \in Entries(now) /\ on.timer = TRUE
    BY <2>1 DEF Entries
  <2> QED
    BY <2>2, FeedConstants DEF Clock
<1>2. more \in Counts /\ more.own = stray.own + 1 /\ more.other = stray.other /\ stray.own \in Nat
  BY DEF Counts
<1>3. /\ entry' = [entry EXCEPT ![s] = IF e = Nobody THEN e ELSE on]
      /\ strays' = [strays EXCEPT ![s] = IF e # Nobody /\ e.timer THEN more ELSE stray]
  BY DEF Feed!Schedule
<1> HIDE DEF on, more
<1>4. /\ entry' \in [Tickers -> Entries(now) \union {Nobody}]
      /\ strays' \in [Tickers -> Counts]
      /\ \A t \in Tickers : t # s => entry'[t] = entry[t] /\ strays'[t] = strays[t]
      /\ entry'[s] = (IF e = Nobody THEN e ELSE on)
      /\ strays'[s] = (IF e # Nobody /\ e.timer THEN more ELSE stray)
  BY <1>1, <1>2, <1>3 DEF PollTypes
<1>5. e # Nobody => strays'[s].other = stray.other /\ strays'[s].own = stray.own + Timer(e)
  BY <1>2, <1>4 DEF Timer
<1> QED
  BY <1>1, <1>4, <1>5

(* Only the poll of one symbol has changed. *)
LEMMA OneSymbolChanged ==
    ASSUME Polls, NEW s \in Tickers, reborn' = reborn, PollOf(s)',
           \A t \in Tickers : t # s => /\ entry'[t] = entry[t] /\ strays'[t] = strays[t]
                                       /\ polls'[t] = polls[t]
    PROVE  Polls'
<1> SUFFICES ASSUME NEW t \in Tickers, t # s PROVE PollOf(t)'
  BY DEF Polls
<1> QED
  BY DEF Polls, PollOf

(* A timer has gone off, which is one link of the chain less, and the poll *)
(* begins or is put off.                                                   *)
LEMMA RunPollFacts ==
    ASSUME Clock, PollSide, NEW s \in Tickers, NEW e \in Entries(now) \union {Nobody},
           NEW stray \in Counts, Feed!RunPoll(s, e, stray),
           e = Nobody <=> entry[s] = Nobody,
           e = Nobody => stray.own = 0,
           s \notin reborn => stray.own = 0 /\ stray.other = 0 /\ Timer(e) = 0
                              /\ Len(polls[s]) = 0
    PROVE  /\ PollSide'
           /\ \A t \in Tickers : entry'[t] # Nobody <=> entry[t] # Nobody
<1>1. PollTypes /\ Polls /\ now' = now /\ reborn' = reborn
  BY DEF PollSide, Feed!RunPoll
<1>2. stray.own \in Nat /\ stray.other \in Nat /\ polls[s] \in Seq(0 .. now) /\ Len(polls[s]) \in Nat
  BY <1>1 DEF Counts, PollTypes
<1>3. CASE e = Nobody \/ e.fetching \/ e.last = 0
  <2>1. Feed!Schedule(s, e, stray) /\ polls' = polls
    BY <1>3 DEF Feed!RunPoll
  <2>2. /\ entry' \in [Tickers -> Entries(now) \union {Nobody}]
        /\ strays' \in [Tickers -> Counts]
        /\ \A t \in Tickers : t # s => entry'[t] = entry[t] /\ strays'[t] = strays[t]
        /\ e = Nobody => entry'[s] = Nobody /\ strays'[s] = stray
        /\ e # Nobody => /\ entry'[s] # Nobody /\ entry'[s].timer = TRUE
                         /\ strays'[s].other = stray.other
                         /\ strays'[s].own = stray.own + Timer(e)
    BY <1>1, <2>1, ScheduleFacts
  <2>3. PollTypes'
    BY <1>1, <2>1, <2>2 DEF PollTypes
  <2>4. PollOf(s)'
    <3>1. CASE e = Nobody
      <4>1. Timer(entry'[s]) = 0
        BY <2>2, <3>1 DEF Timer
      <4>2. strays'[s].own = 0
        BY <2>2, <3>1
      <4>3. s \notin reborn => Len(polls[s]) + stray.own + stray.other + 0 <= 1
        <5>1. s \notin reborn => stray.own = 0 /\ stray.other = 0 /\ Len(polls[s]) = 0
          OBVIOUS
        <5> QED
          BY <5>1
      <4>4. s \notin reborn =>
              /\ strays'[s].own = 0 /\ strays'[s].other = 0
              /\ Len(polls'[s]) + strays'[s].own + strays'[s].other + Timer(entry'[s]) <= 1
        BY <2>1, <2>2, <3>1, <4>1, <4>3
      <4>5. entry'[s] = Nobody
        BY <2>2, <3>1
      <4>6. entry'[s] # Nobody =>
              entry'[s].timer \/ strays'[s].own > 0 \/ strays'[s].other > 0 \/ polls'[s] # <<>>
        BY <4>5
      <4>7. entry'[s] = Nobody => strays'[s].own = 0
        BY <4>2
      <4>8. s \notin reborn' =>
              /\ strays'[s].own = 0 /\ strays'[s].other = 0
              /\ Len(polls'[s]) + strays'[s].own + strays'[s].other + Timer(entry'[s]) <= 1
        BY <1>1, <4>4
      <4> QED
        BY <4>6, <4>7, <4>8 DEF PollOf
    <3>2. CASE e # Nobody
      <4>1. Timer(entry'[s]) = 1
        BY <2>2, <3>2 DEF Timer
      <4>2. entry'[s].timer /\ entry'[s] # Nobody
        BY <2>2, <3>2
      <4>3. s \notin reborn =>
              /\ strays'[s].own = 0 /\ strays'[s].other = 0
              /\ Len(polls[s]) + strays'[s].own + strays'[s].other + 1 <= 1
        <5>1. s \notin reborn => /\ strays'[s].own = 0 + 0 /\ strays'[s].other = 0
                                 /\ Len(polls[s]) = 0
          BY <2>2, <3>2
        <5> QED
          BY <5>1
      <4>4. s \notin reborn =>
              /\ strays'[s].own = 0 /\ strays'[s].other = 0
              /\ Len(polls'[s]) + strays'[s].own + strays'[s].other + Timer(entry'[s]) <= 1
        BY <2>1, <4>1, <4>3
      <4> QED
        BY <1>1, <4>2, <4>4 DEF PollOf
    <3> QED
      BY <3>1, <3>2
  <2>5. Polls'
    BY <1>1, <2>1, <2>2, <2>4, OneSymbolChanged
  <2> QED
    BY <2>2, <2>3, <2>5 DEF PollSide
<1>4. CASE ~(e = Nobody \/ e.fetching \/ e.last = 0)
  <2> DEFINE busy == [e EXCEPT !.fetching = TRUE]
             since == e.last - 1
  <2>1. /\ entry' = [entry EXCEPT ![s] = busy]
        /\ polls' = [polls EXCEPT ![s] = Append(@, since)]
        /\ strays' = [strays EXCEPT ![s] = stray]
    BY <1>4 DEF Feed!RunPoll
  <2>2. e \in Entries(now)
    BY <1>4
  <2>3. busy \in Entries(now) /\ busy.timer = e.timer /\ since \in 0 .. now
    <3>1. busy \in Entries(now) /\ busy.timer = e.timer
      BY <2>2 DEF Entries
    <3>2. e.last \in 0 .. now /\ e.last # 0 /\ now \in Nat
      BY <1>4, <2>2 DEF Entries, Clock
    <3> QED
      BY <3>1, <3>2
  <2>4. busy # Nobody
    BY <2>3, FeedConstants DEF Clock
  <2> HIDE DEF busy, since
  <2>5. /\ entry' \in [Tickers -> Entries(now) \union {Nobody}]
        /\ strays' \in [Tickers -> Counts]
        /\ polls' \in [Tickers -> Seq(0 .. now)]
        /\ entry'[s] = busy /\ strays'[s] = stray /\ polls'[s] = Append(polls[s], since)
        /\ \A t \in Tickers : t # s => /\ entry'[t] = entry[t] /\ strays'[t] = strays[t]
                                       /\ polls'[t] = polls[t]
    BY <1>1, <1>2, <2>1, <2>3 DEF PollTypes
  <2>6. PollTypes'
    BY <1>1, <2>5 DEF PollTypes
  <2>7. polls'[s] # <<>> /\ Len(polls'[s]) = Len(polls[s]) + 1
    BY <1>2, <2>3, <2>5
  <2>8. Timer(entry'[s]) = Timer(e)
    BY <1>4, <2>3, <2>4, <2>5 DEF Timer
  <2>9. PollOf(s)'
    BY <1>1, <1>2, <2>4, <2>5, <2>7, <2>8 DEF PollOf
  <2>10. Polls'
    BY <1>1, <2>5, <2>9, OneSymbolChanged
  <2> QED
    BY <1>4, <2>4, <2>5, <2>6, <2>10 DEF PollSide
<1> QED
  BY <1>3, <1>4

LEMMA TimersKeepPolls ==
    ASSUME Clock, PollSide, NEW s \in Tickers,
           Feed!TimerFires(s) \/ Feed!StrayFires(s) \/ Feed!LostTimerFires(s)
    PROVE  /\ PollSide'
           /\ \A t \in Tickers : entry'[t] # Nobody <=> entry[t] # Nobody
<1> DEFINE off == [entry[s] EXCEPT !.timer = FALSE]
           fewer == [strays[s] EXCEPT !.own = @ - 1]
           lost == [strays[s] EXCEPT !.other = @ - 1]
<1>1. PollTypes /\ PollOf(s)
  BY DEF PollSide, Polls
<1>2. /\ entry[s] \in Entries(now) \union {Nobody} /\ strays[s] \in Counts
      /\ polls[s] \in Seq(0 .. now) /\ Len(polls[s]) \in Nat
      /\ strays[s].own \in Nat /\ strays[s].other \in Nat
  BY <1>1 DEF PollTypes, Counts
<1>3. entry[s] # Nobody => off \in Entries(now) /\ off # Nobody /\ Timer(off) = 0
  <2> SUFFICES ASSUME entry[s] # Nobody
               PROVE  off \in Entries(now) /\ off # Nobody /\ Timer(off) = 0
    OBVIOUS
  <2>1. off \in Entries(now) /\ off.timer = FALSE
    BY <1>2 DEF Entries
  <2>2. off # Nobody
    BY <2>1, FeedConstants DEF Clock
  <2> QED
    BY <2>1, <2>2 DEF Timer
<1>4. strays[s].own > 0 => fewer \in Counts /\ fewer.own = strays[s].own - 1
                           /\ fewer.other = strays[s].other
  BY <1>2 DEF Counts
<1>5. strays[s].other > 0 => lost \in Counts /\ lost.own = strays[s].own
                             /\ lost.other = strays[s].other - 1
  BY <1>2 DEF Counts
<1>6. Timer(entry[s]) \in {0, 1} /\ (entry[s] # Nobody /\ entry[s].timer => Timer(entry[s]) = 1)
  BY DEF Timer
<1>7. CASE Feed!TimerFires(s)
  <2>1. entry[s] # Nobody /\ entry[s].timer /\ Feed!RunPoll(s, off, strays[s])
    BY <1>7 DEF Feed!TimerFires
  <2> HIDE DEF off, fewer, lost
  <2>2. s \notin reborn => strays[s].own = 0 /\ strays[s].other = 0 /\ Timer(off) = 0
                           /\ Len(polls[s]) = 0
    BY <1>1, <1>2, <1>3, <1>6, <2>1 DEF PollOf
  <2> QED
    BY <1>2, <1>3, <2>1, <2>2, RunPollFacts
<1>8. CASE Feed!StrayFires(s)
  <2>1. /\ strays[s].own > 0
        /\ Feed!RunPoll(s, off, IF entry[s].timer THEN strays[s] ELSE fewer)
    BY <1>8 DEF Feed!StrayFires
  <2> DEFINE stray == IF entry[s].timer THEN strays[s] ELSE fewer
  <2> HIDE DEF off, fewer, lost
  <2>2. entry[s] # Nobody
    BY <1>1, <1>2, <2>1 DEF PollOf
  <2>3. stray \in Counts
    BY <1>2, <1>4, <2>1
  <2>4. s \in reborn
    BY <1>1, <1>2, <2>1 DEF PollOf
  <2>5. Feed!RunPoll(s, off, stray)
    BY <2>1
  <2> HIDE DEF stray
  <2> QED
    BY <1>3, <2>2, <2>3, <2>4, <2>5, RunPollFacts
<1>9. CASE Feed!LostTimerFires(s)
  <2>1. strays[s].other > 0 /\ Feed!RunPoll(s, entry[s], lost)
    BY <1>9 DEF Feed!LostTimerFires
  <2> HIDE DEF off, fewer, lost
  <2>2. s \in reborn
    BY <1>1, <1>2, <2>1 DEF PollOf
  <2>3. lost \in Counts /\ (entry[s] = Nobody => lost.own = 0)
    BY <1>1, <1>5, <2>1 DEF PollOf
  <2> QED
    BY <1>2, <2>1, <2>2, <2>3, RunPollFacts
<1> QED
  BY <1>7, <1>8, <1>9

(* A poll has ended, with or without an answer.                            *)
LEMMA PollEndFacts ==
    ASSUME Clock, PollSide, NEW s \in Tickers, polls[s] # <<>>,
           NEW e \in Entries(now) \union {Nobody}, Feed!Schedule(s, e, strays[s]),
           e = Nobody <=> entry[s] = Nobody, Timer(e) = Timer(entry[s]),
           polls' = [polls EXCEPT ![s] = Tail(@)], now' = now, reborn' = reborn
    PROVE  /\ PollSide'
           /\ \A t \in Tickers : entry'[t] # Nobody <=> entry[t] # Nobody
<1>1. PollTypes /\ Polls /\ PollOf(s)
  BY DEF PollSide, Polls
<1>2. /\ strays[s] \in Counts /\ polls[s] \in Seq(0 .. now)
      /\ Len(polls[s]) \in Nat \ {0}
      /\ strays[s].own \in Nat /\ strays[s].other \in Nat
  BY <1>1 DEF PollTypes, Counts
<1>3. /\ entry' \in [Tickers -> Entries(now) \union {Nobody}]
      /\ strays' \in [Tickers -> Counts]
      /\ \A t \in Tickers : t # s => entry'[t] = entry[t] /\ strays'[t] = strays[t]
      /\ e = Nobody => entry'[s] = Nobody /\ strays'[s] = strays[s]
      /\ e # Nobody => /\ entry'[s] # Nobody /\ entry'[s].timer = TRUE
                       /\ strays'[s].other = strays[s].other
                       /\ strays'[s].own = strays[s].own + Timer(e)
  BY <1>1, <1>2, ScheduleFacts
<1>4. /\ polls' \in [Tickers -> Seq(0 .. now)]
      /\ Len(polls'[s]) = Len(polls[s]) - 1
      /\ \A t \in Tickers : t # s => polls'[t] = polls[t]
  <2>1. Tail(polls[s]) \in Seq(0 .. now) /\ Len(Tail(polls[s])) = Len(polls[s]) - 1
    BY <1>2, HeadTailProperties
  <2> QED
    BY <1>1, <2>1 DEF PollTypes
<1>5. PollTypes'
  BY <1>3, <1>4 DEF PollTypes
<1>6. Timer(e) \in {0, 1}
  BY DEF Timer
<1>7. PollOf(s)'
  <2>1. CASE e = Nobody
    <3>1. Timer(entry'[s]) = 0
      BY <1>3, <2>1 DEF Timer
    <3> QED
      BY <1>1, <1>2, <1>3, <1>4, <2>1, <3>1 DEF PollOf
  <2>2. CASE e # Nobody
    <3>1. Timer(entry'[s]) = 1
      BY <1>3, <2>2 DEF Timer
    <3>2. entry'[s].timer /\ entry'[s] # Nobody
      BY <1>3, <2>2
    <3>3. s \notin reborn =>
            /\ strays[s].own = 0 /\ strays[s].other = 0 /\ Len(polls[s]) = 1
            /\ Timer(e) = 0
      <4>1. Timer(entry[s]) \in {0, 1}
        BY <1>6
      <4>2. s \notin reborn => /\ strays[s].own = 0 /\ strays[s].other = 0
                               /\ Len(polls[s]) + 0 + 0 + Timer(entry[s]) <= 1
        BY <1>1 DEF PollOf
      <4>3. \A x \in Nat \ {0} : \A y \in {0, 1} : x + 0 + 0 + y <= 1 => x = 1 /\ y = 0
        OBVIOUS
      <4>4. Len(polls[s]) \in Nat \ {0}
        BY <1>2
      <4>5. Len(polls[s]) + 0 + 0 + Timer(entry[s]) <= 1
              => Len(polls[s]) = 1 /\ Timer(entry[s]) = 0
        BY <4>1, <4>3, <4>4
      <4> QED
        BY <4>2, <4>5
    <3>4. s \notin reborn =>
            /\ strays'[s].own = 0 /\ strays'[s].other = 0
            /\ Len(polls'[s]) + strays'[s].own + strays'[s].other + 1 <= 1
      BY <1>3, <1>4, <2>2, <3>3
    <3>5. s \notin reborn =>
            /\ strays'[s].own = 0 /\ strays'[s].other = 0
            /\ Len(polls'[s]) + strays'[s].own + strays'[s].other + Timer(entry'[s]) <= 1
      BY <3>1, <3>4
    <3> QED
      BY <3>2, <3>5 DEF PollOf
  <2> QED
    BY <2>1, <2>2
<1>8. Polls'
  BY <1>1, <1>3, <1>4, <1>7, OneSymbolChanged
<1> QED
  BY <1>3, <1>5, <1>8 DEF PollSide

LEMMA PollFailsKeepsPolls ==
    ASSUME Clock, PollSide, NEW s \in Tickers, Feed!PollFails(s)
    PROVE  /\ PollSide'
           /\ \A t \in Tickers : entry'[t] # Nobody <=> entry[t] # Nobody
<1> DEFINE idle == [entry[s] EXCEPT !.fetching = FALSE]
           e == IF entry[s] = Nobody THEN entry[s] ELSE idle
<1>1. entry[s] \in Entries(now) \union {Nobody}
  BY DEF PollSide, PollTypes
<1>2. entry[s] # Nobody => idle \in Entries(now) /\ idle # Nobody /\ idle.timer = entry[s].timer
  <2> SUFFICES ASSUME entry[s] # Nobody
               PROVE  idle \in Entries(now) /\ idle # Nobody /\ idle.timer = entry[s].timer
    OBVIOUS
  <2>1. idle \in Entries(now) /\ idle.timer = entry[s].timer
    BY <1>1 DEF Entries
  <2> QED
    BY <2>1, FeedConstants DEF Clock
<1>3. /\ polls[s] # <<>> /\ Feed!Schedule(s, e, strays[s])
      /\ polls' = [polls EXCEPT ![s] = Tail(@)] /\ now' = now /\ reborn' = reborn
  BY DEF Feed!PollFails
<1> HIDE DEF idle
<1>4. e \in Entries(now) \union {Nobody} /\ (e = Nobody <=> entry[s] = Nobody)
  BY <1>1, <1>2
<1>5. Timer(e) = Timer(entry[s])
  BY <1>2 DEF Timer
<1> HIDE DEF e
<1> QED
  BY <1>3, <1>4, <1>5, PollEndFacts

(* An answer raises the time that the next poll asks from.                 *)
LEMMA RaisedFacts ==
    ASSUME Clock, NEW e \in Entries(now) \union {Nobody}, NEW bars \in BarsTo(now), bars # <<>>
    PROVE  /\ Feed!Raised(e, bars) \in Entries(now) \union {Nobody}
           /\ Feed!Raised(e, bars) = Nobody <=> e = Nobody
           /\ e # Nobody => Feed!Raised(e, bars).timer = e.timer
<1>1. CASE e = Nobody
  BY <1>1 DEF Feed!Raised
<1>2. CASE e # Nobody
  <2> DEFINE to == Feed!Last(bars)
             m == Feed!Max({e.last, to})
             up == [e EXCEPT !.last = m]
  <2>1. e \in Entries(now)
    BY <1>2
  <2>2. to \in 1 .. now /\ e.last \in 0 .. now
    BY <2>1, LastIsBar DEF Clock, Entries
  <2>3. Feed!Raised(e, bars) = up
    BY <1>2 DEF Feed!Raised
  <2> HIDE DEF to
  <2>4. m \in {e.last, to}
    <3>1. to \in Int /\ e.last \in Int
      BY <2>2
    <3> QED
      BY <3>1, MaxOfTwo
  <2> HIDE DEF m
  <2>5. m \in 0 .. now
    BY <2>2, <2>4
  <2>6. up \in Entries(now) /\ up.timer = e.timer
    BY <2>1, <2>5 DEF Entries
  <2>7. up # Nobody
    BY <2>6, FeedConstants DEF Clock
  <2> QED
    BY <1>2, <2>3, <2>6, <2>7
<1> QED
  BY <1>1, <1>2

LEMMA RaisingKeepsPolls ==
    ASSUME Clock, PollSide, NEW s \in Tickers, NEW bars \in BarsTo(now), bars # <<>>,
           entry' = [entry EXCEPT ![s] = Feed!Raised(@, bars)],
           UNCHANGED <<strays, polls, now, reborn>>
    PROVE  /\ PollSide'
           /\ \A t \in Tickers : entry'[t] # Nobody <=> entry[t] # Nobody
<1> DEFINE up == Feed!Raised(entry[s], bars)
<1>1. PollTypes /\ Polls /\ PollOf(s) /\ entry[s] \in Entries(now) \union {Nobody}
  BY DEF PollSide, Polls, PollTypes
<1>2. /\ up \in Entries(now) \union {Nobody} /\ (up = Nobody <=> entry[s] = Nobody)
      /\ entry[s] # Nobody => up.timer = entry[s].timer
  BY <1>1, RaisedFacts
<1> HIDE DEF up
<1>3. /\ entry' \in [Tickers -> Entries(now) \union {Nobody}]
      /\ entry'[s] = up /\ \A t \in Tickers : t # s => entry'[t] = entry[t]
  BY <1>1, <1>2 DEF PollTypes, up
<1>4. PollTypes'
  BY <1>1, <1>3 DEF PollTypes
<1>5. Timer(entry'[s]) = Timer(entry[s])
  BY <1>2, <1>3 DEF Timer
<1>6. PollOf(s)'
  BY <1>1, <1>2, <1>3, <1>5 DEF PollOf
<1>7. Polls'
  BY <1>1, <1>3, <1>6, OneSymbolChanged
<1> QED
  BY <1>2, <1>3, <1>4, <1>7 DEF PollSide

(* The poll is left alone. *)
LEMMA PollsStay ==
    ASSUME PollSide, UNCHANGED <<entry, strays, polls, now, reborn>>
    PROVE  /\ PollSide'
           /\ \A t \in Tickers : entry'[t] # Nobody <=> entry[t] # Nobody
<1>1. PollTypes'
  BY DEF PollSide, PollTypes
<1>2. Polls'
  BY DEF PollSide, Polls, PollOf, Timer
<1> QED
  BY <1>1, <1>2 DEF PollSide

(* A symbol is subscribed as long as its entry lives.                      *)
LEMMA SubscribedStays ==
    ASSUME AllSubscribed, \A t \in Tickers : entry'[t] # Nobody <=> entry[t] # Nobody,
           \A c \in Charts : chart'[c].sym = chart[c].sym
    PROVE  AllSubscribed'
  BY DEF AllSubscribed, Subscribed

-----------------------------------------------------------------------------
(* The charts.  What the types say of each of them.                        *)
LEMMA RequestFacts ==
    ASSUME ChartTypes
    PROVE  /\ \A w \in waits : w.c \in Charts /\ w.sym \in Tickers
                               /\ w.kind \in {"full", "background"} /\ w.live \in BOOLEAN
           /\ \A o \in older : o.c \in Charts /\ o.sym \in Tickers /\ o.stale \in BOOLEAN
                               /\ o.kind \in {"pan", "backfill"} /\ o.end \in 0 .. now
<1>1. \A w \in waits : w \in Waits
  BY DEF ChartTypes
<1>2. \A o \in older : o \in OlderRequests(now)
  BY DEF ChartTypes
<1>3. \A w \in Waits : w.c \in Charts /\ w.sym \in Tickers
                       /\ w.kind \in {"full", "background"} /\ w.live \in BOOLEAN
  BY DEF Waits
<1>4. \A o \in OlderRequests(now) : o.c \in Charts /\ o.sym \in Tickers /\ o.stale \in BOOLEAN
                               /\ o.kind \in {"pan", "backfill"} /\ o.end \in 0 .. now
  BY DEF OlderRequests
<1> QED
  BY <1>1, <1>2, <1>3, <1>4

LEMMA HookFacts ==
    ASSUME ChartTypes, NEW c \in Charts
    PROVE  /\ chart[c] \in Hooks(now)
           /\ chart[c].sym \in Tickers \union {Nobody}
           /\ chart[c].of \in Tickers \union {Nobody}
           /\ chart[c].bars \in BarsTo(now) /\ Len(chart[c].bars) <= Keep
           /\ chart[c].pend \in BarsTo(now)
           /\ chart[c].extent \in {0, 1}
<1>1. chart[c] \in Hooks(now)
  BY DEF ChartTypes
<1> QED
  BY <1>1 DEF Hooks, ShortTo

(* What an older request is made for, and that what it brings fits, unless *)
(* it was overtaken.                                                       *)
LEMMA OvertakenFacts ==
    ASSUME NEW new, NEW olds, NEW c \in Charts, c \notin Feed!Overtaken(new, olds)
    PROVE  /\ c \notin crossed
           /\ \A o \in olds : o.c = c /\ ~o.stale /\ new[c].bars # <<>>
                              => o.end = new[c].bars[1] - 1
<1> DEFINE live == {o \in olds : o.c = c /\ ~o.stale}
<1>1. c \notin crossed
  BY DEF Feed!Overtaken
<1>2. ~(live # {} /\ new[c].bars # <<>> /\ \E o \in live : o.end # new[c].bars[1] - 1)
  BY DEF Feed!Overtaken
<1>3. \A o \in live : new[c].bars # <<>> => o.end = new[c].bars[1] - 1
  BY <1>2
<1> QED
  BY <1>1, <1>3

LEMMA OlderRequestFacts ==
    ASSUME Clock, ChartTypes, NEW c \in Charts, chart[c].sym \in Tickers,
           NEW kind \in {"pan", "backfill"}
    PROVE  /\ Feed!OlderRequest(c, kind) \in OlderRequests(now)
           /\ Feed!OlderRequest(c, kind).c = c
           /\ Feed!OlderRequest(c, kind).sym = chart[c].sym
<1> DEFINE end == IF chart[c].bars = <<>> THEN now ELSE chart[c].bars[1] - 1
<1>1. end \in 0 .. now
  <2>1. CASE chart[c].bars = <<>>
    BY <2>1 DEF Clock
  <2>2. CASE chart[c].bars # <<>>
    <3>1. chart[c].bars[1] \in 1 .. now
      <4>1. chart[c].bars \in BarsTo(now)
        BY HookFacts
      <4>2. 1 \in 1 .. Len(chart[c].bars)
        BY <2>2, <4>1 DEF BarsTo
      <4> QED
        BY <4>1, <4>2 DEF BarsTo
    <3> QED
      BY <2>2, <3>1 DEF Clock
  <2> QED
    BY <2>1, <2>2
<1>2. Feed!OlderRequest(c, kind) = [c |-> c, sym |-> chart[c].sym, kind |-> kind,
                                    stale |-> FALSE, end |-> end]
  BY DEF Feed!OlderRequest
<1> HIDE DEF end
<1> QED
  BY <1>1, <1>2 DEF OlderRequests

(* The charts and their requests are left alone. *)
LEMMA ChartsStay ==
    ASSUME ChartSide, ChartTypes', UNCHANGED <<chart, waits, older, crossed, refused>>
    PROVE  ChartSide'
<1>1. NothingOpen' /\ LiveIsOwn' /\ FullOnly' /\ OlderFit'
  BY DEF ChartSide, NothingOpen, LiveIsOwn, FullOnly, OlderFit, Fits
<1>2. Feed!ShowsItsSymbol' /\ Feed!PanEnds' /\ Feed!LoadingEnds'
  BY DEF ChartSide, Feed!ShowsItsSymbol, Feed!PanEnds, Feed!LoadingEnds
<1> QED
  BY <1>1, <1>2 DEF ChartSide

(* A chart without a symbol is left alone. *)
LEMMA NothingOpenStays ==
    ASSUME NothingOpen,
           \A c \in Charts : chart'[c].sym = chart[c].sym,
           \A c \in Charts : chart[c].sym = Nobody => chart'[c] = chart[c],
           \A o \in older' : o \in older \/ chart[o.c].sym # Nobody
    PROVE  NothingOpen'
<1> SUFFICES ASSUME NEW c \in Charts, chart'[c].sym = Nobody
             PROVE  chart'[c] = Feed!Closed /\ \A o \in older' : o.c # c
  BY DEF NothingOpen, Feed!Closed
<1>1. chart[c].sym = Nobody
  OBVIOUS
<1>2. chart[c] = Feed!Closed /\ \A o \in older : o.c # c
  BY <1>1 DEF NothingOpen
<1>3. chart'[c] = Feed!Closed
  BY <1>1, <1>2
<1>4. \A o \in older' : o.c # c
  BY <1>1, <1>2
<1> QED
  BY <1>3, <1>4

LEMMA TypesStay ==
    ASSUME ChartTypes, UNCHANGED <<chart, waits, older, cached, now>>
    PROVE  ChartTypes'
  BY DEF ChartTypes

LEMMA TimersKeepFeedInv ==
    ASSUME FeedInv, NEW s \in Tickers,
           \/ Feed!TimerFires(s) \/ Feed!StrayFires(s) \/ Feed!LostTimerFires(s)
           \/ Feed!PollFails(s)
    PROVE  FeedInv'
<1>1. UNCHANGED <<chart, waits, older, cached, now, switches, crossed, refused>>
  BY DEF Feed!TimerFires, Feed!StrayFires, Feed!LostTimerFires, Feed!PollFails, Feed!RunPoll
<1>2. PollSide' /\ \A t \in Tickers : entry'[t] # Nobody <=> entry[t] # Nobody
  BY TimersKeepPolls, PollFailsKeepsPolls DEF FeedInv
<1>3. ChartSide'
  BY <1>1, ChartsStay, TypesStay DEF FeedInv, ChartSide
<1>4. AllSubscribed'
  BY <1>1, <1>2, SubscribedStays DEF FeedInv
<1> QED
  BY <1>1, <1>2, <1>3, <1>4 DEF FeedInv, Clock

LEMMA NewBarKeepsFeedInv ==
    ASSUME FeedInv, Feed!NewBar
    PROVE  FeedInv'
<1>1. /\ now' = now + 1 /\ now < LastTime /\ now \in Nat \ {0}
      /\ UNCHANGED <<chart, entry, strays, polls, waits, older, cached, reborn, crossed, refused>>
  BY DEF Feed!NewBar, FeedInv, Clock
<1>2. Clock'
  BY <1>1, FeedConstants DEF Clock
<1>3. /\ 0 .. now \subseteq 0 .. now' /\ 0 .. now \subseteq Int
      /\ BarsTo(now) \subseteq BarsTo(now')
  BY <1>1, MoreBars
<1>4. PollSide'
  <2>1. Entries(now) \subseteq Entries(now')
    BY <1>3 DEF Entries
  <2>2. \A q \in Seq(0 .. now) : q \in Seq(0 .. now')
    <3>1. ASSUME NEW S, NEW T, S \subseteq T, NEW q \in Seq(S)
          PROVE  q \in Seq(T)
      BY <3>1
    <3> QED
      BY <1>3, <3>1
  <2>3. PollTypes'
    BY <1>1, <2>1, <2>2 DEF FeedInv, PollSide, PollTypes
  <2>4. Polls'
    BY <1>1 DEF FeedInv, PollSide, Polls, PollOf, Timer
  <2> QED
    BY <2>3, <2>4 DEF PollSide
<1>5. ChartTypes'
  <2>1. ShortTo(now) \subseteq ShortTo(now')
    BY <1>3 DEF ShortTo
  <2>2. Hooks(now) \subseteq Hooks(now')
    BY <1>3, <2>1 DEF Hooks
  <2>3. CacheEntries(now) \subseteq CacheEntries(now')
    BY <2>1 DEF CacheEntries
  <2>4. OlderRequests(now) \subseteq OlderRequests(now')
    BY <1>3 DEF OlderRequests
  <2> QED
    BY <1>1, <2>2, <2>3, <2>4 DEF FeedInv, ChartSide, ChartTypes
<1>6. ChartSide'
  BY <1>1, <1>5, ChartsStay DEF FeedInv
<1>7. AllSubscribed'
  BY <1>1 DEF FeedInv, AllSubscribed, Subscribed
<1> QED
  BY <1>2, <1>4, <1>6, <1>7 DEF FeedInv

LEMMA ExpiresKeepsFeedInv ==
    ASSUME FeedInv, NEW s \in Tickers, Feed!Expires(s)
    PROVE  FeedInv'
<1>1. /\ cached' = [cached EXCEPT ![s] = Feed!NotCached]
      /\ UNCHANGED <<chart, entry, strays, polls, waits, older, now, reborn, crossed, refused>>
  BY DEF Feed!Expires
<1>2. Feed!NotCached \in CacheEntries(now)
  BY EmptyIsBars, FeedConstants DEF FeedInv, Clock, Feed!NotCached, CacheEntries, ShortTo
<1>3. ChartTypes'
  BY <1>1, <1>2 DEF FeedInv, ChartSide, ChartTypes
<1>4. ChartSide'
  BY <1>1, <1>3, ChartsStay DEF FeedInv
<1>5. PollSide' /\ AllSubscribed'
  BY <1>1, PollsStay, SubscribedStays DEF FeedInv
<1> QED
  BY <1>1, <1>4, <1>5 DEF FeedInv, Clock

(* An answer that is an error. *)
LEMMA RefusedKeepsFeedInv ==
    ASSUME FeedInv, NEW s \in Tickers, Feed!Refused(s)
    PROVE  FeedInv'
<1>1. /\ waits' = waits \ Feed!Asking(s)
      /\ refused' = refused \union {w.c : w \in Feed!Alive(s)}
      /\ UNCHANGED <<chart, entry, strays, polls, older, cached, now, reborn, crossed>>
  BY DEF Feed!Refused
<1>2. ChartTypes'
  BY <1>1 DEF FeedInv, ChartSide, ChartTypes
<1>3. NothingOpen' /\ LiveIsOwn' /\ FullOnly' /\ OlderFit'
  BY <1>1 DEF FeedInv, ChartSide, NothingOpen, LiveIsOwn, FullOnly, OlderFit, Fits
<1>4. Feed!ShowsItsSymbol' /\ Feed!PanEnds'
  BY <1>1 DEF FeedInv, ChartSide, Feed!ShowsItsSymbol, Feed!PanEnds
<1>5. Feed!LoadingEnds'
  <2> SUFFICES ASSUME NEW c \in Charts, chart[c].loading, c \notin refused', ~chart[c].debounce
               PROVE  \E w \in waits' : w.c = c /\ w.live /\ w.kind = "full"
    BY <1>1 DEF Feed!LoadingEnds
  <2>1. PICK w \in waits : w.c = c /\ w.live /\ w.kind = "full"
    BY <1>1 DEF FeedInv, ChartSide, Feed!LoadingEnds
  <2>2. w \notin Feed!Asking(s)
    BY <1>1, <2>1 DEF Feed!Alive
  <2> QED
    BY <1>1, <2>1, <2>2
<1>6. ChartSide'
  BY <1>2, <1>3, <1>4, <1>5 DEF ChartSide
<1>7. PollSide' /\ AllSubscribed'
  BY <1>1, PollsStay, SubscribedStays DEF FeedInv
<1> QED
  BY <1>1, <1>6, <1>7 DEF FeedInv, Clock

(* None at all. *)
LEMMA FailsKeepsFeedInv ==
    ASSUME FeedInv, NEW s \in Tickers, Feed!Fails(s)
    PROVE  FeedInv'
<1>1. /\ waits' = waits \ Feed!Asking(s)
      /\ chart' = [c \in Charts |-> IF \E w \in Feed!Alive(s) : w.c = c /\ w.kind = "full"
                                    THEN [chart[c] EXCEPT !.loading = FALSE] ELSE chart[c]]
      /\ UNCHANGED <<entry, strays, polls, older, cached, now, reborn, crossed, refused>>
  BY DEF Feed!Fails
<1>2. ChartTypes /\ NothingOpen /\ LiveIsOwn
  BY DEF FeedInv, ChartSide
<1>3. \A c \in Charts :
        /\ chart'[c] \in Hooks(now)
        /\ chart'[c].sym = chart[c].sym /\ chart'[c].bars = chart[c].bars
        /\ chart'[c].of = chart[c].of /\ chart'[c].pan = chart[c].pan
        /\ chart'[c].debounce = chart[c].debounce
        /\ chart'[c].loading => chart[c].loading
        /\ (\E w \in Feed!Alive(s) : w.c = c /\ w.kind = "full") => ~chart'[c].loading
        /\ ~(\E w \in Feed!Alive(s) : w.c = c) => chart'[c] = chart[c]
  <2> SUFFICES ASSUME NEW c \in Charts
               PROVE  /\ chart'[c] \in Hooks(now)
                      /\ chart'[c].sym = chart[c].sym /\ chart'[c].bars = chart[c].bars
                      /\ chart'[c].of = chart[c].of /\ chart'[c].pan = chart[c].pan
                      /\ chart'[c].debounce = chart[c].debounce
                      /\ chart'[c].loading => chart[c].loading
                      /\ (\E w \in Feed!Alive(s) : w.c = c /\ w.kind = "full")
                           => ~chart'[c].loading
                      /\ ~(\E w \in Feed!Alive(s) : w.c = c) => chart'[c] = chart[c]
    OBVIOUS
  <2>1. chart[c] \in Hooks(now)
    BY <1>2, HookFacts
  <2>2. CASE \E w \in Feed!Alive(s) : w.c = c /\ w.kind = "full"
    <3>1. chart'[c] = [chart[c] EXCEPT !.loading = FALSE]
      BY <1>1, <2>2
    <3> QED
      BY <2>1, <2>2, <3>1 DEF Hooks
  <2>3. CASE ~\E w \in Feed!Alive(s) : w.c = c /\ w.kind = "full"
    <3>1. chart'[c] = chart[c]
      BY <1>1, <2>3
    <3> QED
      BY <2>1, <2>3, <3>1
  <2> QED
    BY <2>2, <2>3
<1>4. ChartTypes'
  BY <1>1, <1>2, <1>3 DEF ChartTypes
<1>5. NothingOpen'
  <2> SUFFICES ASSUME NEW c \in Charts, chart[c].sym = Nobody
               PROVE  chart'[c] = chart[c]
    BY <1>1, <1>2, <1>3, NothingOpenStays
  <2>1. \A w \in Feed!Alive(s) : w.c # c
    <3> SUFFICES ASSUME NEW w \in waits, w.live, w.c = c PROVE FALSE
      BY DEF Feed!Alive, Feed!Asking
    <3>1. chart[c].sym = w.sym /\ w.sym \in Tickers
      BY <1>2, RequestFacts DEF LiveIsOwn
    <3> QED
      BY <3>1, FeedConstants
  <2> QED
    BY <1>3, <2>1
<1>6. LiveIsOwn' /\ FullOnly'
  BY <1>1, <1>2, <1>3, RequestFacts DEF FeedInv, ChartSide, LiveIsOwn, FullOnly
<1>7. OlderFit' /\ Feed!ShowsItsSymbol' /\ Feed!PanEnds'
  BY <1>1, <1>3 DEF FeedInv, ChartSide, OlderFit, Fits, Feed!ShowsItsSymbol, Feed!PanEnds
<1>8. Feed!LoadingEnds'
  <2> SUFFICES ASSUME NEW c \in Charts, chart'[c].loading, c \notin refused, ~chart'[c].debounce
               PROVE  \E w \in waits' : w.c = c /\ w.live /\ w.kind = "full"
    BY <1>1 DEF Feed!LoadingEnds
  <2>1. chart[c].loading /\ ~chart[c].debounce
    BY <1>3
  <2>2. PICK w \in waits : w.c = c /\ w.live /\ w.kind = "full"
    BY <2>1 DEF FeedInv, ChartSide, Feed!LoadingEnds
  <2>3. w \notin Feed!Asking(s)
    BY <1>3, <2>2 DEF Feed!Alive
  <2> QED
    BY <1>1, <2>2, <2>3
<1>9. ChartSide'
  BY <1>4, <1>5, <1>6, <1>7, <1>8 DEF ChartSide
<1>10. PollSide' /\ AllSubscribed'
  BY <1>1, <1>3, PollsStay, SubscribedStays DEF FeedInv
<1> QED
  BY <1>1, <1>9, <1>10 DEF FeedInv, Clock

-----------------------------------------------------------------------------
(* The request of a chart that waited for the user to stop clicking.       *)
LEMMA DebounceKeepsFeedInv ==
    ASSUME FeedInv, NEW c \in Charts, Feed!DebounceFires(c)
    PROVE  FeedInv'
<1> DEFINE request == [c |-> c, sym |-> chart[c].sym, kind |-> "full", live |-> TRUE]
<1>1. /\ chart[c].debounce
      /\ chart' = [chart EXCEPT ![c].debounce = FALSE]
      /\ waits' = waits \union {request}
      /\ UNCHANGED <<entry, strays, polls, older, cached, now, reborn, crossed, refused>>
  BY DEF Feed!DebounceFires
<1>2. ChartTypes /\ NothingOpen /\ LiveIsOwn /\ FullOnly
  BY DEF FeedInv, ChartSide
<1>3. /\ chart' \in [Charts -> Hooks(now)]
      /\ \A d \in Charts : d # c => chart'[d] = chart[d]
      /\ chart'[c] = [chart[c] EXCEPT !.debounce = FALSE]
  <2>1. chart[c] \in Hooks(now)
    BY <1>2, HookFacts
  <2>2. [chart[c] EXCEPT !.debounce = FALSE] \in Hooks(now)
    BY <2>1 DEF Hooks
  <2> QED
    BY <1>1, <1>2, <2>2 DEF ChartTypes
<1>4. \A d \in Charts :
        /\ chart'[d].sym = chart[d].sym /\ chart'[d].bars = chart[d].bars
        /\ chart'[d].of = chart[d].of /\ chart'[d].pan = chart[d].pan
        /\ chart'[d].loading = chart[d].loading
  BY <1>2, <1>3, HookFacts DEF Hooks
<1>5. chart[c].sym \in Tickers
  <2>1. chart[c].sym # Nobody
    BY <1>1, <1>2 DEF NothingOpen, Feed!Closed
  <2> QED
    BY <1>2, <2>1, HookFacts
<1>6. request \in Waits
  BY <1>5 DEF Waits
<1> HIDE DEF request
<1>7. ChartTypes'
  BY <1>1, <1>2, <1>3, <1>6 DEF ChartTypes
<1>8. NothingOpen'
  <2>1. \A d \in Charts : chart[d].sym = Nobody => d # c
    BY <1>5, FeedConstants
  <2> QED
    BY <1>1, <1>2, <1>3, <1>4, <2>1, NothingOpenStays
<1>9. LiveIsOwn' /\ FullOnly'
  <2>1. \A w \in waits' : w \in waits \/ (w.c = c /\ w.sym = chart[c].sym /\ w.kind = "full")
    BY <1>1 DEF request
  <2> QED
    BY <1>1, <1>2, <1>4, <2>1, RequestFacts DEF LiveIsOwn, FullOnly
<1>10. OlderFit' /\ Feed!ShowsItsSymbol' /\ Feed!PanEnds'
  BY <1>1, <1>4 DEF FeedInv, ChartSide, OlderFit, Fits, Feed!ShowsItsSymbol, Feed!PanEnds
<1>11. Feed!LoadingEnds'
  <2> SUFFICES ASSUME NEW d \in Charts, chart'[d].loading, d \notin refused, ~chart'[d].debounce
               PROVE  \E w \in waits' : w.c = d /\ w.live /\ w.kind = "full"
    BY <1>1 DEF Feed!LoadingEnds
  <2>1. CASE d = c
    <3>1. request \in waits' /\ request.c = c /\ request.live /\ request.kind = "full"
      BY <1>1 DEF request
    <3> QED
      BY <2>1, <3>1
  <2>2. CASE d # c
    <3>1. chart[d].loading /\ ~chart[d].debounce
      BY <1>3, <2>2
    <3>2. PICK w \in waits : w.c = d /\ w.live /\ w.kind = "full"
      BY <3>1 DEF FeedInv, ChartSide, Feed!LoadingEnds
    <3> QED
      BY <1>1, <3>2
  <2> QED
    BY <2>1, <2>2
<1>12. ChartSide'
  BY <1>7, <1>8, <1>9, <1>10, <1>11 DEF ChartSide
<1>13. PollSide' /\ AllSubscribed'
  BY <1>1, <1>4, PollsStay, SubscribedStays DEF FeedInv
<1> QED
  BY <1>1, <1>12, <1>13 DEF FeedInv, Clock

(* The bars that came with the poll. *)
LEMMA FrameKeepsFeedInv ==
    ASSUME FeedInv, NEW c \in Charts, Feed!Frame(c)
    PROVE  FeedInv'
<1> DEFINE new == Feed!KeepNewest(Feed!Merged(chart[c].bars, chart[c].pend))
           hook == [chart[c] EXCEPT !.bars = new, !.of = chart[c].sym, !.pend = <<>>]
           s == chart[c].sym
<1>1. ChartTypes /\ NothingOpen /\ LiveIsOwn /\ FullOnly /\ chart[c] \in Hooks(now)
      /\ now \in Nat \ {0}
  BY HookFacts DEF FeedInv, ChartSide, Clock
<1>2. /\ chart[c].pend # <<>>
      /\ chart' = [chart EXCEPT ![c] = hook]
      /\ entry' = [entry EXCEPT ![s] = Feed!Raised(@, chart'[c].bars)]
      /\ crossed' = Feed!Overtaken(chart', older)
      /\ UNCHANGED <<strays, polls, waits, older, cached, now, reborn, refused>>
  BY <1>1 DEF Feed!Frame, ChartTypes, Hooks
<1>3. new \in BarsTo(now) /\ Len(new) <= Keep /\ Rising(new) /\ new # <<>>
  <2> DEFINE all == Feed!Merged(chart[c].bars, chart[c].pend)
  <2>1. all \in BarsTo(now) /\ Rising(all) /\ all # <<>>
    BY <1>1, <1>2, HookFacts, MergedIsBars
  <2> HIDE DEF all
  <2>2. Feed!KeepNewest(all) \in BarsTo(now) /\ Len(Feed!KeepNewest(all)) <= Keep
        /\ Rising(Feed!KeepNewest(all)) /\ Feed!KeepNewest(all) # <<>>
    BY <1>1, <2>1, NewestIsBars
  <2> QED
    BY <2>2 DEF all
<1>4. s \in Tickers
  <2>1. s # Nobody
    BY <1>1, <1>2 DEF NothingOpen, Feed!Closed
  <2> QED
    BY <1>1, <2>1, HookFacts
<1> HIDE DEF new
<1>5. hook \in Hooks(now) /\ hook.bars = new /\ hook.of = s
      /\ hook.sym = s /\ hook.pan = chart[c].pan /\ hook.loading = chart[c].loading
      /\ hook.debounce = chart[c].debounce
  <2>1. new \in ShortTo(now) /\ <<>> \in BarsTo(now)
    BY <1>1, <1>3, EmptyIsBars DEF ShortTo
  <2> QED
    BY <1>1, <1>4, <2>1 DEF Hooks
<1> HIDE DEF hook
<1>6. /\ chart' \in [Charts -> Hooks(now)] /\ chart'[c] = hook
      /\ \A d \in Charts : d # c => chart'[d] = chart[d]
  BY <1>1, <1>2, <1>5 DEF ChartTypes
<1>7. \A d \in Charts :
        /\ chart'[d].sym = chart[d].sym /\ chart'[d].pan = chart[d].pan
        /\ chart'[d].loading = chart[d].loading /\ chart'[d].debounce = chart[d].debounce
  BY <1>5, <1>6
<1>8. ChartTypes'
  BY <1>1, <1>2, <1>6 DEF ChartTypes
<1>9. NothingOpen'
  <2>1. \A d \in Charts : chart[d].sym = Nobody => d # c
    BY <1>4, FeedConstants
  <2> QED
    BY <1>1, <1>2, <1>6, <1>7, <2>1, NothingOpenStays
<1>10. LiveIsOwn' /\ FullOnly'
  BY <1>1, <1>2, <1>7, RequestFacts DEF LiveIsOwn, FullOnly
<1>11. OlderFit'
  <2> SUFFICES ASSUME NEW d \in Charts, d \notin Feed!Overtaken(chart', older)
               PROVE  Fits(d)'
    BY <1>2 DEF OlderFit
  <2>1. d \notin crossed /\ \A o \in older : o.c = d /\ ~o.stale /\ chart'[d].bars # <<>>
                                             => o.end = chart'[d].bars[1] - 1
    BY OvertakenFacts
  <2>2. Rising(chart'[d].bars)
    <3>1. CASE d = c
      BY <1>3, <1>5, <1>6, <3>1
    <3>2. CASE d # c
      BY <1>6, <2>1, <3>2 DEF FeedInv, ChartSide, OlderFit, Fits
    <3> QED
      BY <3>1, <3>2
  <2> QED
    BY <1>2, <2>1, <2>2 DEF Fits
<1>12. Feed!ShowsItsSymbol'
  BY <1>5, <1>6 DEF FeedInv, ChartSide, Feed!ShowsItsSymbol
<1>13. Feed!PanEnds' /\ Feed!LoadingEnds'
  BY <1>2, <1>7 DEF FeedInv, ChartSide, Feed!PanEnds, Feed!LoadingEnds
<1>14. ChartSide'
  BY <1>8, <1>9, <1>10, <1>11, <1>12, <1>13 DEF ChartSide
<1>15. PollSide' /\ \A t \in Tickers : entry'[t] # Nobody <=> entry[t] # Nobody
  <2>1. entry' = [entry EXCEPT ![s] = Feed!Raised(@, new)]
    BY <1>2, <1>5, <1>6
  <2> HIDE DEF s
  <2> QED
    BY <1>2, <1>3, <1>4, <2>1, RaisingKeepsPolls DEF FeedInv
<1>16. AllSubscribed'
  BY <1>7, <1>15, SubscribedStays DEF FeedInv
<1> QED
  BY <1>2, <1>14, <1>15, <1>16 DEF FeedInv, Clock

(* Panning: the timer, the request and its answers.                        *)
LEMMA PanLeftKeepsFeedInv ==
    ASSUME FeedInv, NEW c \in Charts, Feed!PanLeft(c)
    PROVE  FeedInv'
<1>1. /\ chart[c].sym # Nobody /\ chart' = [chart EXCEPT ![c].panTimer = TRUE]
      /\ UNCHANGED <<entry, strays, polls, waits, older, cached, now, reborn, crossed, refused>>
  BY DEF Feed!PanLeft
<1>2. ChartSide'
  <2>1. ChartTypes /\ NothingOpen /\ LiveIsOwn /\ FullOnly /\ chart[c] \in Hooks(now)
    BY HookFacts DEF FeedInv, ChartSide
  <2>2. [chart[c] EXCEPT !.panTimer = TRUE] \in Hooks(now)
    BY <2>1 DEF Hooks
  <2>3. /\ chart' \in [Charts -> Hooks(now)]
        /\ \A d \in Charts : d # c => chart'[d] = chart[d]
        /\ chart'[c] = [chart[c] EXCEPT !.panTimer = TRUE]
    BY <1>1, <2>1, <2>2 DEF ChartTypes
  <2>4. \A d \in Charts :
          /\ chart'[d].sym = chart[d].sym /\ chart'[d].bars = chart[d].bars
          /\ chart'[d].of = chart[d].of /\ chart'[d].pan = chart[d].pan
          /\ chart'[d].loading = chart[d].loading /\ chart'[d].debounce = chart[d].debounce
    BY <2>1, <2>3 DEF Hooks
  <2>5. ChartTypes'
    BY <1>1, <2>1, <2>3 DEF ChartTypes
  <2>6. NothingOpen'
    BY <1>1, <2>1, <2>3, <2>4, NothingOpenStays
  <2>7. LiveIsOwn' /\ FullOnly'
    BY <1>1, <2>1, <2>4, RequestFacts DEF LiveIsOwn, FullOnly
  <2>8. OlderFit' /\ Feed!ShowsItsSymbol' /\ Feed!PanEnds' /\ Feed!LoadingEnds'
    BY <1>1, <2>4 DEF FeedInv, ChartSide, OlderFit, Fits, Feed!ShowsItsSymbol, Feed!PanEnds,
                      Feed!LoadingEnds
  <2> QED
    BY <2>5, <2>6, <2>7, <2>8 DEF ChartSide
<1>3. \A d \in Charts : chart'[d].sym = chart[d].sym
  BY <1>1, HookFacts DEF FeedInv, ChartSide, ChartTypes, Hooks
<1>4. PollSide' /\ AllSubscribed'
  BY <1>1, <1>3, PollsStay, SubscribedStays DEF FeedInv
<1> QED
  BY <1>1, <1>2, <1>4 DEF FeedInv, Clock

LEMMA PanFiresKeepsFeedInv ==
    ASSUME FeedInv, NEW c \in Charts, Feed!PanFires(c)
    PROVE  FeedInv'
<1> DEFINE request == Feed!OlderRequest(c, "pan")
<1>1. /\ chart[c].panTimer
      /\ UNCHANGED <<entry, strays, polls, waits, cached, now, reborn, refused>>
  BY DEF Feed!PanFires
<1>2. ChartTypes /\ NothingOpen /\ LiveIsOwn /\ FullOnly /\ chart[c] \in Hooks(now) /\ Clock
  BY HookFacts DEF FeedInv, ChartSide
<1>3. chart[c].sym \in Tickers
  <2>1. chart[c].sym # Nobody
    BY <1>1, <1>2 DEF NothingOpen, Feed!Closed
  <2> QED
    BY <1>2, <2>1, HookFacts
<1>4. request \in OlderRequests(now) /\ request.c = c /\ request.sym = chart[c].sym
  BY <1>2, <1>3, OlderRequestFacts
<1> HIDE DEF request
<1>5. /\ chart' \in [Charts -> Hooks(now)]
      /\ \A d \in Charts : d # c => chart'[d] = chart[d]
      /\ chart'[c].sym = chart[c].sym /\ chart'[c].bars = chart[c].bars
      /\ chart'[c].of = chart[c].of /\ chart'[c].loading = chart[c].loading
      /\ chart'[c].debounce = chart[c].debounce
      /\ older' \in {older, older \union {request}}
      /\ chart'[c].pan => chart[c].pan \/ request \in older'
      /\ (crossed' = crossed /\ older' = older) \/ crossed' = Feed!Overtaken(chart', older')
  <2>1. CASE chart[c].pan
    <3> DEFINE hook == [chart[c] EXCEPT !.panTimer = FALSE]
    <3>1. chart' = [chart EXCEPT ![c].panTimer = FALSE] /\ UNCHANGED <<older, crossed>>
      BY <2>1 DEF Feed!PanFires
    <3>2. hook \in Hooks(now)
      BY <1>2 DEF Hooks
    <3>3. /\ chart' \in [Charts -> Hooks(now)] /\ chart'[c] = hook
          /\ \A d \in Charts : d # c => chart'[d] = chart[d]
      BY <1>2, <3>1, <3>2 DEF ChartTypes
    <3> QED
      BY <1>2, <2>1, <3>1, <3>3 DEF Hooks
  <2>2. CASE ~chart[c].pan
    <3> DEFINE hook == [chart[c] EXCEPT !.panTimer = FALSE, !.pan = TRUE]
    <3>1. /\ chart' = [chart EXCEPT ![c].panTimer = FALSE, ![c].pan = TRUE]
          /\ older' = older \union {request}
          /\ crossed' = Feed!Overtaken(chart', older')
      BY <2>2 DEF Feed!PanFires, request
    <3>2. hook \in Hooks(now)
      BY <1>2 DEF Hooks
    <3>3. chart' = [chart EXCEPT ![c] = hook]
      BY <1>2, <3>1 DEF ChartTypes, Hooks
    <3>4. /\ chart' \in [Charts -> Hooks(now)] /\ chart'[c] = hook
          /\ \A d \in Charts : d # c => chart'[d] = chart[d]
      BY <1>2, <3>2, <3>3 DEF ChartTypes
    <3> QED
      BY <1>2, <3>1, <3>4 DEF Hooks
  <2> QED
    BY <2>1, <2>2
<1>6. \A d \in Charts :
        /\ chart'[d].sym = chart[d].sym /\ chart'[d].bars = chart[d].bars
        /\ chart'[d].of = chart[d].of /\ chart'[d].loading = chart[d].loading
        /\ chart'[d].debounce = chart[d].debounce
  BY <1>5
<1>7. ChartTypes'
  BY <1>1, <1>2, <1>4, <1>5 DEF ChartTypes
<1>8. NothingOpen'
  <2>1. \A d \in Charts : chart[d].sym = Nobody => d # c
    BY <1>3, FeedConstants
  <2>2. \A o \in older' : o \in older \/ chart[o.c].sym # Nobody
    BY <1>3, <1>4, <1>5, FeedConstants
  <2> QED
    BY <1>2, <1>5, <1>6, <2>1, <2>2, NothingOpenStays
<1>9. LiveIsOwn' /\ FullOnly'
  <2>1. \A o \in older' : o \in older \/ (o.c = c /\ o.sym = chart[c].sym)
    BY <1>4, <1>5
  <2>2. \A o \in older' : ~o.stale => chart'[o.c].sym = o.sym
    BY <1>2, <1>6, <2>1, RequestFacts DEF LiveIsOwn
  <2>3. (\A w \in waits' : w.live => chart'[w.c].sym = w.sym) /\ FullOnly'
    BY <1>1, <1>2, <1>6, RequestFacts DEF LiveIsOwn, FullOnly
  <2> QED
    BY <2>2, <2>3 DEF LiveIsOwn
<1>10. OlderFit'
  <2>1. CASE crossed' = crossed /\ older' = older
    BY <1>6, <2>1 DEF FeedInv, ChartSide, OlderFit, Fits
  <2>2. CASE crossed' = Feed!Overtaken(chart', older')
    <3> SUFFICES ASSUME NEW d \in Charts, d \notin Feed!Overtaken(chart', older')
                 PROVE  Fits(d)'
      BY <2>2 DEF OlderFit
    <3>1. d \notin crossed /\ \A o \in older' : o.c = d /\ ~o.stale /\ chart'[d].bars # <<>>
                                               => o.end = chart'[d].bars[1] - 1
      BY OvertakenFacts
    <3>2. Rising(chart'[d].bars)
      BY <1>6, <3>1 DEF FeedInv, ChartSide, OlderFit, Fits
    <3> QED
      BY <3>1, <3>2 DEF Fits
  <2> QED
    BY <1>5, <2>1, <2>2
<1>11. Feed!ShowsItsSymbol' /\ Feed!LoadingEnds'
  BY <1>1, <1>6 DEF FeedInv, ChartSide, Feed!ShowsItsSymbol, Feed!LoadingEnds
<1>12. Feed!PanEnds'
  BY <1>4, <1>5 DEF FeedInv, ChartSide, Feed!PanEnds
<1>13. ChartSide'
  BY <1>7, <1>8, <1>9, <1>10, <1>11, <1>12 DEF ChartSide
<1>14. PollSide' /\ AllSubscribed'
  BY <1>1, <1>6, PollsStay, SubscribedStays DEF FeedInv
<1> QED
  BY <1>1, <1>13, <1>14 DEF FeedInv, Clock

(* An answer of older bars, which are put before those there are.          *)
LEMMA OlderAnswersKeepsFeedInv ==
    ASSUME FeedInv, NEW o \in older, Feed!OlderAnswers(o)
    PROVE  FeedInv'
<1> DEFINE c == o.c
           all == Feed!OlderUpTo(o.end) \o chart[c].bars
           hook == Feed!Prepended(chart[c], o)
<1>1. /\ older' = older \ {o}
      /\ chart' = [chart EXCEPT ![c] = hook]
      /\ crossed' = Feed!Overtaken(chart', older')
      /\ UNCHANGED <<entry, strays, polls, waits, cached, now, reborn, refused>>
  <2>1. /\ older' = older \ {o}
        /\ chart' = [chart EXCEPT ![o.c] = Feed!Prepended(@, o)]
        /\ crossed' = Feed!Overtaken(chart', older')
        /\ UNCHANGED <<entry, strays, polls, waits, cached, now, reborn, refused>>
    BY DEF Feed!OlderAnswers
  <2> QED
    BY <2>1
<1>2. /\ ChartTypes /\ NothingOpen /\ LiveIsOwn /\ FullOnly /\ Clock
      /\ o.c \in Charts /\ o.sym \in Tickers /\ o.stale \in BOOLEAN
      /\ o.kind \in {"pan", "backfill"} /\ o.end \in 0 .. now
  BY RequestFacts DEF FeedInv, ChartSide
<1>3. chart[c] \in Hooks(now) /\ chart[c].bars \in BarsTo(now) /\ now \in Nat /\ o.end \in Nat
  BY <1>2, HookFacts DEF Clock
<1>4. /\ Feed!KeepOldest(all) \in ShortTo(now)
      /\ c \notin crossed /\ ~o.stale => Rising(Feed!KeepOldest(all))
  <2> DEFINE old == Feed!OlderUpTo(o.end)
             bars == chart[c].bars
  <2>1. old \in BarsTo(o.end) /\ Rising(old)
    BY <1>3, OlderIsBars
  <2>2. bars \in BarsTo(now)
    BY <1>3
  <2>3. c \notin crossed /\ ~o.stale => Rising(bars) /\ (bars # <<>> => o.end = bars[1] - 1)
    BY <1>2 DEF FeedInv, ChartSide, OlderFit, Fits
  <2> HIDE DEF old, bars
  <2>4. old \o bars \in BarsTo(now)
        /\ (Rising(old) /\ Rising(bars) /\ (bars # <<>> => o.end = bars[1] - 1)
              => Rising(old \o bars))
    BY <1>2, <1>3, <2>1, <2>2, BeforeIsBars
  <2>5. all = old \o bars
    BY DEF old, bars
  <2> HIDE DEF all
  <2>6. /\ Feed!KeepOldest(all) \in BarsTo(now) /\ Len(Feed!KeepOldest(all)) <= Keep
        /\ Rising(all) => Rising(Feed!KeepOldest(all))
    BY <1>3, <2>4, <2>5, OldestIsBars
  <2> QED
    BY <2>1, <2>3, <2>4, <2>5, <2>6 DEF ShortTo
<1> HIDE DEF all
<1>5. /\ hook \in Hooks(now)
      /\ hook.sym = chart[c].sym /\ hook.loading = chart[c].loading
      /\ hook.debounce = chart[c].debounce /\ hook.pan = FALSE
      /\ o.stale => hook.bars = chart[c].bars /\ hook.of = chart[c].of
      /\ ~o.stale => hook.bars = Feed!KeepOldest(all) /\ hook.of = o.sym
  <2> DEFINE bars == IF o.stale THEN chart[c].bars ELSE Feed!KeepOldest(all)
             of == IF o.stale THEN chart[c].of ELSE o.sym
             extent == IF o.stale /\ o.kind = "backfill" THEN chart[c].extent ELSE 1
  <2>1. hook = [chart[c] EXCEPT !.bars = bars, !.of = of, !.extent = extent, !.pan = FALSE]
    <3>1. hook = [chart[c] EXCEPT
                    !.bars = IF o.stale THEN chart[c].bars ELSE Feed!KeepOldest(all),
                    !.of = IF o.stale THEN chart[c].of ELSE o.sym,
                    !.extent = IF o.stale /\ o.kind = "backfill" THEN chart[c].extent ELSE 1,
                    !.pan = FALSE]
      BY <1>3 DEF Feed!Prepended, Feed!first, all, Hooks
    <3> QED
      BY <3>1
  <2>2. bars \in ShortTo(now) /\ of \in Tickers \union {Nobody} /\ extent \in {0, 1}
    BY <1>2, <1>3, <1>4 DEF Hooks
  <2> HIDE DEF hook
  <2>3. /\ o.stale => bars = chart[c].bars /\ of = chart[c].of
        /\ ~o.stale => bars = Feed!KeepOldest(all) /\ of = o.sym
    OBVIOUS
  <2> HIDE DEF bars, of, extent
  <2> QED
    BY <1>3, <2>1, <2>2, <2>3 DEF Hooks
<1> HIDE DEF hook
<1>6. /\ chart' \in [Charts -> Hooks(now)] /\ chart'[c] = hook
      /\ \A d \in Charts : d # c => chart'[d] = chart[d]
  BY <1>1, <1>2, <1>5 DEF ChartTypes
<1>7. \A d \in Charts :
        /\ chart'[d].sym = chart[d].sym /\ chart'[d].loading = chart[d].loading
        /\ chart'[d].debounce = chart[d].debounce
  BY <1>5, <1>6
<1>8. ChartTypes'
  BY <1>1, <1>2, <1>6 DEF ChartTypes
<1>9. NothingOpen'
  <2>1. \A d \in Charts : chart[d].sym = Nobody => d # c
    BY <1>2 DEF NothingOpen
  <2> QED
    BY <1>1, <1>2, <1>6, <1>7, <2>1, NothingOpenStays
<1>10. LiveIsOwn' /\ FullOnly'
  BY <1>1, <1>2, <1>7, RequestFacts DEF LiveIsOwn, FullOnly
<1>11. OlderFit'
  <2> SUFFICES ASSUME NEW d \in Charts, d \notin Feed!Overtaken(chart', older')
               PROVE  Fits(d)'
    BY <1>1 DEF OlderFit
  <2>1. d \notin crossed /\ \A p \in older' : p.c = d /\ ~p.stale /\ chart'[d].bars # <<>>
                                             => p.end = chart'[d].bars[1] - 1
    BY OvertakenFacts
  <2>2. Rising(chart[d].bars)
    BY <2>1 DEF FeedInv, ChartSide, OlderFit, Fits
  <2>3. Rising(chart'[d].bars)
    <3>1. CASE d = c /\ o.stale
      BY <1>5, <1>6, <2>2, <3>1
    <3>2. CASE d = c /\ ~o.stale
      BY <1>4, <1>5, <1>6, <2>1, <3>2
    <3>3. CASE d # c
      BY <1>6, <2>2, <3>3
    <3> QED
      BY <3>1, <3>2, <3>3
  <2> QED
    BY <2>1, <2>3 DEF Fits
<1>12. Feed!ShowsItsSymbol'
  <2> SUFFICES ASSUME NEW d \in Charts, chart'[d].bars # <<>>
               PROVE  chart'[d].of = chart'[d].sym
    BY DEF Feed!ShowsItsSymbol
  <2>1. chart[d].bars # <<>> => chart[d].of = chart[d].sym
    BY DEF FeedInv, ChartSide, Feed!ShowsItsSymbol
  <2>2. ~o.stale => chart[c].sym = o.sym
    BY <1>2 DEF LiveIsOwn
  <2>3. CASE d = c /\ o.stale
    BY <1>5, <1>6, <2>1, <2>3
  <2>4. CASE d = c /\ ~o.stale
    BY <1>5, <1>6, <2>2, <2>4
  <2>5. CASE d # c
    BY <1>6, <2>1, <2>5
  <2> QED
    BY <2>3, <2>4, <2>5
<1>13. Feed!PanEnds'
  <2> SUFFICES ASSUME NEW d \in Charts, chart'[d].pan
               PROVE  \E p \in older' : p.c = d
    BY DEF Feed!PanEnds
  <2>1. d # c /\ chart[d].pan
    BY <1>5, <1>6
  <2>2. PICK p \in older : p.c = d
    BY <2>1 DEF FeedInv, ChartSide, Feed!PanEnds
  <2> QED
    BY <1>1, <2>1, <2>2
<1>14. Feed!LoadingEnds'
  BY <1>1, <1>7 DEF FeedInv, ChartSide, Feed!LoadingEnds
<1>15. ChartSide'
  BY <1>8, <1>9, <1>10, <1>11, <1>12, <1>13, <1>14 DEF ChartSide
<1>16. PollSide' /\ AllSubscribed'
  BY <1>1, <1>7, PollsStay, SubscribedStays DEF FeedInv
<1> QED
  BY <1>1, <1>15, <1>16 DEF FeedInv, Clock

LEMMA OlderFailsKeepsFeedInv ==
    ASSUME FeedInv, NEW o \in older, Feed!OlderFails(o)
    PROVE  FeedInv'
<1> DEFINE c == o.c
           hook == [chart[c] EXCEPT !.pan = FALSE]
<1>1. /\ older' = older \ {o}
      /\ chart' = [chart EXCEPT ![c] = hook]
      /\ UNCHANGED <<entry, strays, polls, waits, cached, now, reborn, crossed, refused>>
  BY DEF Feed!OlderFails
<1>2. /\ ChartTypes /\ NothingOpen /\ LiveIsOwn /\ FullOnly
      /\ o.c \in Charts /\ chart[o.c] \in Hooks(now)
  BY RequestFacts, HookFacts DEF FeedInv, ChartSide
<1>3. /\ hook \in Hooks(now) /\ hook.pan = FALSE
      /\ hook.sym = chart[c].sym /\ hook.bars = chart[c].bars /\ hook.of = chart[c].of
      /\ hook.loading = chart[c].loading /\ hook.debounce = chart[c].debounce
  BY <1>2 DEF Hooks
<1> HIDE DEF hook
<1>4. /\ chart' \in [Charts -> Hooks(now)] /\ chart'[c] = hook
      /\ \A d \in Charts : d # c => chart'[d] = chart[d]
  BY <1>1, <1>2, <1>3 DEF ChartTypes
<1>5. \A d \in Charts :
        /\ chart'[d].sym = chart[d].sym /\ chart'[d].bars = chart[d].bars
        /\ chart'[d].of = chart[d].of /\ chart'[d].loading = chart[d].loading
        /\ chart'[d].debounce = chart[d].debounce
  BY <1>3, <1>4
<1>6. ChartTypes'
  BY <1>1, <1>2, <1>4 DEF ChartTypes
<1>7. NothingOpen'
  <2>1. \A d \in Charts : chart[d].sym = Nobody => d # c
    BY <1>2 DEF NothingOpen
  <2> QED
    BY <1>1, <1>2, <1>4, <1>5, <2>1, NothingOpenStays
<1>8. LiveIsOwn' /\ FullOnly'
  BY <1>1, <1>2, <1>5, RequestFacts DEF LiveIsOwn, FullOnly
<1>9. OlderFit' /\ Feed!ShowsItsSymbol' /\ Feed!LoadingEnds'
  BY <1>1, <1>5 DEF FeedInv, ChartSide, OlderFit, Fits, Feed!ShowsItsSymbol, Feed!LoadingEnds
<1>10. Feed!PanEnds'
  <2> SUFFICES ASSUME NEW d \in Charts, chart'[d].pan
               PROVE  \E p \in older' : p.c = d
    BY DEF Feed!PanEnds
  <2>1. d # c /\ chart[d].pan
    BY <1>3, <1>4
  <2>2. PICK p \in older : p.c = d
    BY <2>1 DEF FeedInv, ChartSide, Feed!PanEnds
  <2> QED
    BY <1>1, <2>1, <2>2
<1>11. ChartSide'
  BY <1>6, <1>7, <1>8, <1>9, <1>10 DEF ChartSide
<1>12. PollSide' /\ AllSubscribed'
  BY <1>1, <1>5, PollsStay, SubscribedStays DEF FeedInv
<1> QED
  BY <1>1, <1>11, <1>12 DEF FeedInv, Clock

-----------------------------------------------------------------------------
(* The answer of a poll. *)
LEMMA PollAnswersKeepsFeedInv ==
    ASSUME FeedInv, NEW s \in Tickers, Feed!PollAnswers(s)
    PROVE  FeedInv'
<1> DEFINE since == polls[s][1]
           bars == Feed!FromTo(Feed!Max({Feed!first, since}), now)
           asks == {c \in Feed!Takes(s) : Feed!Backfills(c)}
           up == Feed!Raised(entry[s], bars)
           e == IF up = Nobody THEN up ELSE [up EXCEPT !.fetching = FALSE]
<1>1. /\ polls[s] # <<>>
      /\ Feed!Schedule(s, e, strays[s])
      /\ chart' = [c \in Charts |-> IF c \in Feed!Takes(s) THEN Feed!Heard(c, bars) ELSE chart[c]]
      /\ older' = older \union {Feed!OlderRequest(c, "backfill") : c \in asks}
      /\ crossed' = Feed!Overtaken(chart', older')
      /\ polls' = [polls EXCEPT ![s] = Tail(@)]
      /\ UNCHANGED <<waits, cached, now, reborn, refused>>
  BY DEF Feed!PollAnswers
<1>2. ChartTypes /\ NothingOpen /\ LiveIsOwn /\ FullOnly /\ Clock /\ PollSide /\ PollTypes
  BY DEF FeedInv, ChartSide, PollSide
<1>3. bars \in BarsTo(now) /\ bars # <<>>
  <2>1. since \in 0 .. now
    <3>1. polls[s] \in Seq(0 .. now)
      BY <1>2 DEF PollTypes
    <3>2. \A S : \A q \in Seq(S) : q # <<>> => q[1] \in S
      OBVIOUS
    <3> QED
      BY <1>1, <3>1, <3>2
  <2> HIDE DEF since
  <2> QED
    BY <1>2, <2>1, SinceIsBars DEF Clock
<1> HIDE DEF bars
<1>4. e \in Entries(now) \union {Nobody} /\ (e = Nobody <=> entry[s] = Nobody)
      /\ Timer(e) = Timer(entry[s])
  <2>1. entry[s] \in Entries(now) \union {Nobody}
    BY <1>2 DEF PollTypes
  <2>2. /\ up \in Entries(now) \union {Nobody} /\ (up = Nobody <=> entry[s] = Nobody)
        /\ entry[s] # Nobody => up.timer = entry[s].timer
    BY <1>2, <1>3, <2>1, RaisedFacts
  <2> HIDE DEF up
  <2>3. CASE up = Nobody
    BY <2>2, <2>3 DEF Timer
  <2>4. CASE up # Nobody
    <3> DEFINE idle == [up EXCEPT !.fetching = FALSE]
    <3>1. idle \in Entries(now) /\ idle.timer = up.timer
      BY <2>2, <2>4 DEF Entries
    <3>2. idle # Nobody
      BY <1>2, <3>1, FeedConstants DEF Clock
    <3>3. e = idle
      BY <2>4
    <3> HIDE DEF e, idle
    <3> QED
      BY <2>2, <2>4, <3>1, <3>2, <3>3 DEF Timer
  <2> QED
    BY <2>3, <2>4
<1> HIDE DEF e
<1>5. \A c \in asks :
        /\ c \in Charts /\ c \in Feed!Takes(s) /\ chart[c].sym = s
        /\ Feed!OlderRequest(c, "backfill") \in OlderRequests(now)
        /\ Feed!OlderRequest(c, "backfill").c = c
        /\ Feed!OlderRequest(c, "backfill").sym = s
  <2> SUFFICES ASSUME NEW c \in asks
               PROVE  /\ c \in Charts /\ c \in Feed!Takes(s) /\ chart[c].sym = s
                      /\ Feed!OlderRequest(c, "backfill") \in OlderRequests(now)
                      /\ Feed!OlderRequest(c, "backfill").c = c
                      /\ Feed!OlderRequest(c, "backfill").sym = s
    OBVIOUS
  <2>1. c \in Charts /\ c \in Feed!Takes(s) /\ chart[c].sym = s
    BY DEF Feed!Takes, Feed!Listeners
  <2> QED
    BY <1>2, <2>1, OlderRequestFacts
<1>6. \A c \in Charts :
        /\ chart'[c] \in Hooks(now)
        /\ chart'[c].sym = chart[c].sym /\ chart'[c].bars = chart[c].bars
        /\ chart'[c].of = chart[c].of /\ chart'[c].loading = chart[c].loading
        /\ chart'[c].debounce = chart[c].debounce
        /\ chart'[c].pan => chart[c].pan \/ c \in asks
        /\ chart[c].sym = Nobody => chart'[c] = chart[c]
  <2> SUFFICES ASSUME NEW c \in Charts
               PROVE  /\ chart'[c] \in Hooks(now)
                      /\ chart'[c].sym = chart[c].sym /\ chart'[c].bars = chart[c].bars
                      /\ chart'[c].of = chart[c].of /\ chart'[c].loading = chart[c].loading
                      /\ chart'[c].debounce = chart[c].debounce
                      /\ chart'[c].pan => chart[c].pan \/ c \in asks
                      /\ chart[c].sym = Nobody => chart'[c] = chart[c]
    OBVIOUS
  <2>1. chart[c] \in Hooks(now)
    BY <1>2, HookFacts
  <2>2. CASE c \notin Feed!Takes(s)
    <3>1. chart'[c] = chart[c]
      BY <1>1, <2>2
    <3> QED
      BY <2>1, <3>1
  <2>3. CASE c \in Feed!Takes(s)
    <3> DEFINE more == Feed!Backfills(c)
    <3>1. chart'[c] = [chart[c] EXCEPT !.extent = 1, !.pend = bars, !.pan = more]
      BY <1>1, <2>3 DEF Feed!Heard, Feed!first
    <3>2. more \in BOOLEAN
      BY DEF Feed!Backfills
    <3>3. more => c \in asks
      BY <2>3
    <3>4. chart[c].sym # Nobody
      BY <2>3, FeedConstants DEF Feed!Takes, Feed!Listeners
    <3> HIDE DEF more, asks
    <3> QED
      BY <1>3, <2>1, <3>1, <3>2, <3>3, <3>4 DEF Hooks
  <2> QED
    BY <2>2, <2>3
<1>7. \A o \in older' : o \in older \/ \E c \in asks : o = Feed!OlderRequest(c, "backfill")
  BY <1>1
<1> HIDE DEF asks
<1>8. \A o \in older' : o \in older \/ (o.c \in Charts /\ o.sym = s /\ chart[o.c].sym = s
                                        /\ o \in OlderRequests(now))
  BY <1>5, <1>7
<1>9. ChartTypes'
  <2>1. chart' \in [Charts -> Hooks(now)]
    BY <1>1, <1>6
  <2>2. older' \subseteq OlderRequests(now)
    BY <1>2, <1>8 DEF ChartTypes
  <2> QED
    BY <1>1, <1>2, <2>1, <2>2 DEF ChartTypes
<1>10. NothingOpen'
  BY <1>2, <1>6, <1>8, FeedConstants, NothingOpenStays
<1>11. LiveIsOwn' /\ FullOnly'
  <2>1. \A o \in older' : ~o.stale => chart'[o.c].sym = o.sym
    BY <1>2, <1>6, <1>8, RequestFacts DEF LiveIsOwn
  <2>2. (\A w \in waits' : w.live => chart'[w.c].sym = w.sym) /\ FullOnly'
    BY <1>1, <1>2, <1>6, RequestFacts DEF LiveIsOwn, FullOnly
  <2> QED
    BY <2>1, <2>2 DEF LiveIsOwn
<1>12. OlderFit'
  <2> SUFFICES ASSUME NEW d \in Charts, d \notin Feed!Overtaken(chart', older')
               PROVE  Fits(d)'
    BY <1>1 DEF OlderFit
  <2>1. d \notin crossed /\ \A o \in older' : o.c = d /\ ~o.stale /\ chart'[d].bars # <<>>
                                             => o.end = chart'[d].bars[1] - 1
    BY OvertakenFacts
  <2>2. Rising(chart'[d].bars)
    BY <1>6, <2>1 DEF FeedInv, ChartSide, OlderFit, Fits
  <2> QED
    BY <2>1, <2>2 DEF Fits
<1>13. Feed!ShowsItsSymbol' /\ Feed!LoadingEnds'
  BY <1>1, <1>6 DEF FeedInv, ChartSide, Feed!ShowsItsSymbol, Feed!LoadingEnds
<1>14. Feed!PanEnds'
  <2> SUFFICES ASSUME NEW d \in Charts, chart'[d].pan
               PROVE  \E o \in older' : o.c = d
    BY DEF Feed!PanEnds
  <2>1. CASE chart[d].pan
    BY <1>1, <2>1 DEF FeedInv, ChartSide, Feed!PanEnds
  <2>2. CASE d \in asks
    BY <1>1, <1>5, <2>2
  <2> QED
    BY <1>6, <2>1, <2>2
<1>15. ChartSide'
  BY <1>9, <1>10, <1>11, <1>12, <1>13, <1>14 DEF ChartSide
<1>16. PollSide' /\ \A t \in Tickers : entry'[t] # Nobody <=> entry[t] # Nobody
  BY <1>1, <1>2, <1>4, PollEndFacts
<1>17. AllSubscribed'
  BY <1>6, <1>16, SubscribedStays DEF FeedInv
<1> QED
  BY <1>1, <1>2, <1>15, <1>16, <1>17 DEF FeedInv, Clock

-----------------------------------------------------------------------------
(* The answer to those that ask for a window. *)
LEMMA ShownFacts ==
    ASSUME Clock, ChartTypes, NEW w \in waits
    PROVE  /\ Feed!Shown(w) \in Hooks(now) /\ Rising(Feed!Shown(w).bars)
           /\ Feed!Shown(w).of = w.sym
           /\ Feed!Shown(w).sym = chart[w.c].sym /\ Feed!Shown(w).pan = chart[w.c].pan
           /\ Feed!Shown(w).debounce = chart[w.c].debounce
           /\ Feed!Shown(w).loading => chart[w.c].loading
           /\ w.kind = "full" => ~Feed!Shown(w).loading
<1> DEFINE h == chart[w.c]
           b == Feed!KeepNewest(Feed!WindowNow)
           d == Feed!KeepNewest(Feed!Merged(h.bars, Feed!WindowNow))
<1>1. w.c \in Charts /\ w.sym \in Tickers /\ h \in Hooks(now) /\ h.bars \in BarsTo(now)
      /\ now \in Nat
  BY RequestFacts, HookFacts DEF Clock
<1>2. /\ Feed!WindowNow \in BarsTo(now) /\ Rising(Feed!WindowNow)
  BY WindowIsBars DEF Clock
<1>3. b \in ShortTo(now) /\ Rising(b)
  BY <1>1, <1>2, NewestIsBars DEF ShortTo
<1>4. d \in ShortTo(now) /\ Rising(d)
  <2> DEFINE all == Feed!Merged(h.bars, Feed!WindowNow)
  <2>1. all \in BarsTo(now) /\ Rising(all)
    BY <1>1, <1>2, MergedIsBars
  <2> HIDE DEF all
  <2>2. Feed!KeepNewest(all) \in BarsTo(now) /\ Len(Feed!KeepNewest(all)) <= Keep
        /\ Rising(Feed!KeepNewest(all))
    BY <1>1, <2>1, NewestIsBars
  <2> QED
    BY <2>2 DEF ShortTo, all
<1>5. Feed!Shown(w) =
        IF w.kind = "full"
        THEN [h EXCEPT !.bars = b, !.of = w.sym, !.extent = 1, !.loading = FALSE]
        ELSE [h EXCEPT !.bars = d, !.of = w.sym, !.extent = 1]
  BY <1>1 DEF Feed!Shown, Feed!first, Hooks
<1> HIDE DEF h, b, d
<1>6. CASE w.kind = "full"
  <2>1. Feed!Shown(w) = [h EXCEPT !.bars = b, !.of = w.sym, !.extent = 1, !.loading = FALSE]
    BY <1>5, <1>6
  <2>2. /\ Feed!Shown(w) \in Hooks(now) /\ Feed!Shown(w).bars = b
        /\ Feed!Shown(w).of = w.sym /\ ~Feed!Shown(w).loading
        /\ Feed!Shown(w).sym = h.sym /\ Feed!Shown(w).pan = h.pan
        /\ Feed!Shown(w).debounce = h.debounce
    BY <1>1, <1>3, <2>1 DEF Hooks
  <2> QED
    BY <1>3, <2>2 DEF h
<1>7. CASE w.kind # "full"
  <2>1. Feed!Shown(w) = [h EXCEPT !.bars = d, !.of = w.sym, !.extent = 1]
    BY <1>5, <1>7
  <2>2. /\ Feed!Shown(w) \in Hooks(now) /\ Feed!Shown(w).bars = d
        /\ Feed!Shown(w).of = w.sym /\ Feed!Shown(w).loading = h.loading
        /\ Feed!Shown(w).sym = h.sym /\ Feed!Shown(w).pan = h.pan
        /\ Feed!Shown(w).debounce = h.debounce
    BY <1>1, <1>4, <2>1 DEF Hooks
  <2> QED
    BY <1>4, <1>7, <2>2 DEF h
<1> QED
  BY <1>6, <1>7

LEMMA AnswerKeepsFeedInv ==
    ASSUME FeedInv, NEW s \in Tickers, Feed!Answer(s)
    PROVE  FeedInv'
<1> DEFINE heard(c) == \E w \in Feed!Alive(s) : w.c = c
           one(c) == CHOOSE w \in Feed!Alive(s) : w.c = c
<1>1. /\ waits' = waits \ Feed!Asking(s)
      /\ chart' = [c \in Charts |-> IF heard(c) THEN Feed!Shown(one(c)) ELSE chart[c]]
      /\ crossed' = Feed!Overtaken(chart', older)
      /\ UNCHANGED <<strays, polls, older, now, reborn, refused>>
  BY DEF Feed!Answer
<1>2. ChartTypes /\ NothingOpen /\ LiveIsOwn /\ FullOnly /\ Clock /\ PollSide /\ PollTypes
  BY DEF FeedInv, ChartSide, PollSide
<1>3. \A w \in Feed!Alive(s) : w \in waits /\ w.live /\ w.sym = s /\ w.c \in Charts
                               /\ chart[w.c].sym = s
  BY <1>2, RequestFacts DEF Feed!Alive, Feed!Asking, LiveIsOwn
<1>4. \A c \in Charts : heard(c) => one(c) \in Feed!Alive(s) /\ one(c).c = c
  OBVIOUS
<1> HIDE DEF heard, one
<1>5. \A c \in Charts :
        /\ chart'[c] \in Hooks(now)
        /\ chart'[c].sym = chart[c].sym /\ chart'[c].pan = chart[c].pan
        /\ chart'[c].debounce = chart[c].debounce
        /\ chart'[c].loading => chart[c].loading
        /\ heard(c) => /\ Rising(chart'[c].bars) /\ chart'[c].of = s /\ chart[c].sym = s
                      /\ ~chart'[c].loading
        /\ ~heard(c) => chart'[c] = chart[c]
  <2> SUFFICES ASSUME NEW c \in Charts
               PROVE  /\ chart'[c] \in Hooks(now)
                      /\ chart'[c].sym = chart[c].sym /\ chart'[c].pan = chart[c].pan
                      /\ chart'[c].debounce = chart[c].debounce
                      /\ chart'[c].loading => chart[c].loading
                      /\ heard(c) => /\ Rising(chart'[c].bars) /\ chart'[c].of = s
                                    /\ chart[c].sym = s /\ ~chart'[c].loading
                      /\ ~heard(c) => chart'[c] = chart[c]
    OBVIOUS
  <2>1. CASE heard(c)
    <3> DEFINE w == one(c)
    <3>1. w \in waits /\ w.live /\ w.sym = s /\ w.c = c /\ chart[c].sym = s
      BY <1>3, <1>4, <2>1
    <3>2. chart'[c] = Feed!Shown(w)
      BY <1>1, <2>1
    <3> HIDE DEF w
    <3>3. /\ Feed!Shown(w) \in Hooks(now) /\ Rising(Feed!Shown(w).bars)
          /\ Feed!Shown(w).of = s
          /\ Feed!Shown(w).sym = chart[c].sym /\ Feed!Shown(w).pan = chart[c].pan
          /\ Feed!Shown(w).debounce = chart[c].debounce
          /\ Feed!Shown(w).loading => chart[c].loading
          /\ w.kind = "full" => ~Feed!Shown(w).loading
      BY <1>2, <3>1, ShownFacts
    <3>4. chart[c].loading => w.kind = "full"
      BY <1>2, <3>1 DEF FullOnly
    <3> QED
      BY <2>1, <3>1, <3>2, <3>3, <3>4
  <2>2. CASE ~heard(c)
    <3>1. chart'[c] = chart[c]
      BY <1>1, <2>2
    <3>2. chart[c] \in Hooks(now)
      BY <1>2, HookFacts
    <3> QED
      BY <2>2, <3>1, <3>2
  <2> QED
    BY <2>1, <2>2
<1>6. cached' \in [Tickers -> CacheEntries(now)]
  <2>1. CASE Feed!Alive(s) = {}
    BY <1>2, <2>1 DEF Feed!Answer, ChartTypes
  <2>2. CASE Feed!Alive(s) # {}
    <3>1. PICK w \in Feed!Alive(s) :
            cached' = [cached EXCEPT ![s] = [bars |-> Feed!Shown(w).bars, extent |-> 1]]
      BY <2>2 DEF Feed!Answer, Feed!first
    <3>2. Feed!Shown(w).bars \in ShortTo(now) /\ Rising(Feed!Shown(w).bars)
      <4>1. Feed!Shown(w) \in Hooks(now) /\ Rising(Feed!Shown(w).bars)
        BY <1>2, <1>3, ShownFacts
      <4> QED
        BY <4>1 DEF Hooks
    <3>3. [bars |-> Feed!Shown(w).bars, extent |-> 1] \in CacheEntries(now)
      BY <3>2 DEF CacheEntries
    <3> QED
      BY <1>2, <3>1, <3>3 DEF ChartTypes
  <2> QED
    BY <2>1, <2>2
<1>7. ChartTypes'
  <2>1. chart' \in [Charts -> Hooks(now)]
    BY <1>1, <1>5
  <2> QED
    BY <1>1, <1>2, <1>6, <2>1 DEF ChartTypes
<1>8. NothingOpen'
  BY <1>1, <1>2, <1>5, FeedConstants, NothingOpenStays
<1>9. LiveIsOwn' /\ FullOnly'
  BY <1>1, <1>2, <1>5, RequestFacts DEF LiveIsOwn, FullOnly
<1>10. OlderFit'
  <2> SUFFICES ASSUME NEW d \in Charts, d \notin Feed!Overtaken(chart', older)
               PROVE  Fits(d)'
    BY <1>1 DEF OlderFit
  <2>1. d \notin crossed /\ \A o \in older : o.c = d /\ ~o.stale /\ chart'[d].bars # <<>>
                                             => o.end = chart'[d].bars[1] - 1
    BY OvertakenFacts
  <2>2. Rising(chart'[d].bars)
    BY <1>5, <2>1 DEF FeedInv, ChartSide, OlderFit, Fits
  <2> QED
    BY <1>1, <2>1, <2>2 DEF Fits
<1>11. Feed!ShowsItsSymbol' /\ Feed!PanEnds'
  BY <1>1, <1>5 DEF FeedInv, ChartSide, Feed!ShowsItsSymbol, Feed!PanEnds
<1>12. Feed!LoadingEnds'
  <2> SUFFICES ASSUME NEW c \in Charts, chart'[c].loading, c \notin refused, ~chart'[c].debounce
               PROVE  \E w \in waits' : w.c = c /\ w.live /\ w.kind = "full"
    BY <1>1 DEF Feed!LoadingEnds
  <2>1. chart[c].loading /\ ~chart[c].debounce /\ ~heard(c)
    BY <1>5
  <2>2. PICK w \in waits : w.c = c /\ w.live /\ w.kind = "full"
    BY <2>1 DEF FeedInv, ChartSide, Feed!LoadingEnds
  <2>3. w \notin Feed!Asking(s)
    BY <2>1, <2>2 DEF Feed!Alive, heard
  <2> QED
    BY <1>1, <2>2, <2>3
<1>13. ChartSide'
  BY <1>7, <1>8, <1>9, <1>10, <1>11, <1>12 DEF ChartSide
<1>14. PollSide' /\ \A t \in Tickers : entry'[t] # Nobody <=> entry[t] # Nobody
  <2>1. CASE Feed!Alive(s) = {}
    <3>1. entry' = entry
      BY <2>1 DEF Feed!Answer
    <3> QED
      BY <1>1, <1>2, <3>1, PollsStay
  <2>2. CASE Feed!Alive(s) # {}
    <3>1. entry' = [entry EXCEPT ![s] = Feed!Raised(@, Feed!WindowNow)]
      BY <2>2 DEF Feed!Answer
    <3>2. Feed!WindowNow \in BarsTo(now) /\ Feed!WindowNow # <<>>
      BY <1>2, WindowIsBars DEF Clock
    <3> QED
      BY <1>1, <1>2, <3>1, <3>2, RaisingKeepsPolls
  <2> QED
    BY <2>1, <2>2
<1>15. AllSubscribed'
  BY <1>5, <1>14, SubscribedStays DEF FeedInv
<1> QED
  BY <1>1, <1>2, <1>13, <1>14, <1>15 DEF FeedInv, Clock

-----------------------------------------------------------------------------
(* A chart gets another symbol or goes: the poll of the symbol it leaves   *)
(* ends with its last listener, and that of its new symbol begins.         *)
LEMMA SubscriptionsFacts ==
    ASSUME Clock, PollSide, AllSubscribed, NEW c \in Charts, NEW s \in Tickers \union {Nobody},
           chart[c].sym # s, Feed!Subscriptions(c, s),
           chart'[c].sym = s, \A d \in Charts : d # c => chart'[d].sym = chart[d].sym,
           polls' = polls, now' = now
    PROVE  PollSide' /\ AllSubscribed'
<1> DEFINE begins(t) == t = s /\ entry[t] = Nobody
           ends(t) == Feed!Left(c) /\ t = chart[c].sym
<1>1. PollTypes /\ Polls
  BY DEF PollSide
<1>2. /\ entry' = [t \in Tickers |-> IF begins(t) THEN Feed!NewEntry
                                     ELSE IF ends(t) THEN Nobody ELSE entry[t]]
      /\ strays' = [t \in Tickers |-> IF ends(t) THEN Feed!Orphaned(strays[t]) ELSE strays[t]]
      /\ reborn' = reborn \union {t \in Tickers : t = s /\ entry[t] = Nobody
                                                  /\ polls[t] # <<>>}
  BY DEF Feed!Subscriptions
<1>3. \A t : ~(begins(t) /\ ends(t))
  OBVIOUS
<1>4. \A t \in Tickers : strays[t] \in Counts /\ strays[t].own \in Nat /\ strays[t].other \in Nat
                         /\ polls[t] \in Seq(0 .. now) /\ Len(polls[t]) \in Nat
  BY <1>1 DEF PollTypes, Counts
<1>5. Feed!NewEntry \in Entries(now) /\ Feed!NewEntry.timer = TRUE /\ Feed!NewEntry # Nobody
  <2>1. Feed!NewEntry \in Entries(now) /\ Feed!NewEntry.timer = TRUE
    BY DEF Feed!NewEntry, Entries, Clock
  <2> QED
    BY <2>1, FeedConstants DEF Clock
<1>6. \A t \in Tickers : /\ Feed!Orphaned(strays[t]) \in Counts
                         /\ Feed!Orphaned(strays[t]).own = 0
                         /\ Feed!Orphaned(strays[t]).other = strays[t].own + strays[t].other
  BY <1>4 DEF Feed!Orphaned, Counts
<1>7. PollTypes'
  BY <1>1, <1>2, <1>5, <1>6 DEF PollTypes
<1>8. \A t \in Tickers : /\ begins(t) => entry'[t] = Feed!NewEntry /\ strays'[t] = strays[t]
                         /\ ends(t) => entry'[t] = Nobody
                                       /\ strays'[t] = Feed!Orphaned(strays[t])
                         /\ ~begins(t) /\ ~ends(t) => entry'[t] = entry[t]
                                                      /\ strays'[t] = strays[t]
  BY <1>2, <1>3
<1>9. \A t \in Tickers : t \notin reborn' => t \notin reborn /\ (begins(t) => polls[t] = <<>>)
  BY <1>2
<1>10. AllSubscribed'
  <2> SUFFICES ASSUME NEW t \in Tickers PROVE entry'[t] # Nobody <=> \E d \in Charts : chart'[d].sym = t
    BY DEF AllSubscribed, Subscribed
  <2>1. entry[t] # Nobody <=> \E d \in Charts : chart[d].sym = t
    BY DEF AllSubscribed, Subscribed
  <2>2. CASE t = s
    BY <1>5, <1>8, <2>2
  <2>3. CASE t # s /\ t = chart[c].sym
    <3>1. Feed!Left(c) <=> \A d \in Charts : chart[d].sym = t => d = c
      BY <2>3, FeedConstants DEF Feed!Left, Feed!Listeners
    <3> QED
      BY <1>8, <2>1, <2>3, <3>1
  <2>4. CASE t # s /\ t # chart[c].sym
    BY <1>8, <2>1, <2>4
  <2> QED
    BY <2>2, <2>3, <2>4
<1> HIDE DEF begins, ends
<1>11. Polls'
  <2> SUFFICES ASSUME NEW t \in Tickers PROVE PollOf(t)'
    BY DEF Polls
  <2>1. PollOf(t)
    BY <1>1 DEF Polls
  <2>2. CASE begins(t)
    <3>1. entry'[t] # Nobody /\ entry'[t].timer /\ Timer(entry'[t]) = 1 /\ strays'[t] = strays[t]
      BY <1>5, <1>8, <2>2 DEF Timer
    <3>2. t \notin reborn' => /\ strays'[t].own = 0 /\ strays'[t].other = 0
                              /\ Len(polls[t]) + strays'[t].own + strays'[t].other
                                 + Timer(entry'[t]) <= 1
      <4> SUFFICES ASSUME t \notin reborn'
                   PROVE  /\ strays'[t].own = 0 /\ strays'[t].other = 0
                          /\ Len(polls[t]) + strays'[t].own + strays'[t].other
                             + Timer(entry'[t]) <= 1
        OBVIOUS
      <4>1. strays'[t].own = 0 /\ strays'[t].other = 0
        BY <1>9, <2>1, <3>1 DEF PollOf
      <4>2. Len(polls[t]) = 0
        BY <1>9, <2>2
      <4> QED
        BY <3>1, <4>1, <4>2
    <3> QED
      BY <3>1, <3>2 DEF PollOf
  <2>3. CASE ends(t)
    <3>1. /\ entry'[t] = Nobody /\ Timer(entry'[t]) = 0
          /\ strays'[t].own = 0 /\ strays'[t].other = strays[t].own + strays[t].other
      BY <1>6, <1>8, <2>3 DEF Timer
    <3>2. t \notin reborn' => /\ strays'[t].own = 0 /\ strays'[t].other = 0
                              /\ Len(polls[t]) + strays'[t].own + strays'[t].other
                                 + Timer(entry'[t]) <= 1
      <4> SUFFICES ASSUME t \notin reborn'
                   PROVE  /\ strays'[t].own = 0 /\ strays'[t].other = 0
                          /\ Len(polls[t]) + strays'[t].own + strays'[t].other
                             + Timer(entry'[t]) <= 1
        OBVIOUS
      <4>1. /\ strays[t].own = 0 /\ strays[t].other = 0
            /\ Len(polls[t]) + strays[t].own + strays[t].other + Timer(entry[t]) <= 1
        BY <1>9, <2>1 DEF PollOf
      <4>2. Timer(entry[t]) \in {0, 1}
        BY DEF Timer
      <4>3. Len(polls[t]) \in Nat
        BY <1>4
      <4> QED
        BY <3>1, <4>1, <4>2, <4>3
    <3> QED
      BY <3>1, <3>2 DEF PollOf
  <2>4. CASE ~begins(t) /\ ~ends(t)
    <3>1. entry'[t] = entry[t] /\ strays'[t] = strays[t]
      BY <1>8, <2>4
    <3> QED
      BY <1>9, <2>1, <3>1 DEF PollOf
  <2> QED
    BY <2>2, <2>3, <2>4
<1> QED
  BY <1>7, <1>10, <1>11 DEF PollSide

(* What was asked for before is cancelled or out of date. *)
LEMMA CancelledFacts ==
    ASSUME ChartTypes, NEW c \in Charts
    PROVE  /\ \A w \in Feed!Cancelled(c) : w \in Waits /\ (w.live => w \in waits /\ w.c # c)
           /\ \A w \in waits : w.c # c => w \in Feed!Cancelled(c)
<1> DEFINE off(w) == IF w.c = c THEN [w EXCEPT !.live = FALSE] ELSE w
<1>1. Feed!Cancelled(c) = {off(w) : w \in waits}
  BY DEF Feed!Cancelled
<1>2. \A w \in Waits : off(w) \in Waits /\ off(w).c = w.c /\ (off(w).live => off(w) = w /\ w.c # c)
                       /\ (w.c # c => off(w) = w)
  BY DEF Waits
<1> HIDE DEF off
<1>3. waits \subseteq Waits
  BY DEF ChartTypes
<1> QED
  BY <1>1, <1>2, <1>3

LEMMA OutdatedFacts ==
    ASSUME ChartTypes, NEW c \in Charts
    PROVE  /\ \A o \in Feed!Outdated(c) : /\ o \in OlderRequests(now)
                                          /\ ~o.stale => o \in older /\ o.c # c
                                          /\ \E p \in older : p.c = o.c
           /\ \A o \in older : o.c # c => o \in Feed!Outdated(c)
<1> DEFINE out(o) == IF o.c = c THEN [o EXCEPT !.stale = TRUE] ELSE o
<1>1. Feed!Outdated(c) = {out(o) : o \in older}
  BY DEF Feed!Outdated
<1>2. \A o \in OlderRequests(now) :
        /\ out(o) \in OlderRequests(now) /\ out(o).c = o.c
        /\ ~out(o).stale => out(o) = o /\ o.c # c
        /\ o.c # c => out(o) = o
  BY DEF OlderRequests
<1> HIDE DEF out
<1>3. older \subseteq OlderRequests(now)
  BY DEF ChartTypes
<1> QED
  BY <1>1, <1>2, <1>3

(* The chart afterwards: h is its hook. *)
LEMMA AnotherSymbol ==
    ASSUME FeedInv, NEW c \in Charts, NEW h \in Hooks(now), chart' = [chart EXCEPT ![c] = h],
           Rising(h.bars), h.bars # <<>> => h.of = h.sym,
           h.pan = FALSE, h.loading => h.debounce,
           \A w \in waits' : /\ w \in Waits
                             /\ w.live => \/ w \in waits /\ w.c # c
                                          \/ w.c = c /\ w.sym = h.sym /\ ~h.loading,
           \A w \in waits : w.c # c => w \in waits',
           \A o \in older' : /\ o \in OlderRequests(now)
                             /\ ~o.stale => o \in older /\ o.c # c
                             /\ \E p \in older : p.c = o.c,
           \A o \in older : o.c # c => o \in older',
           h.sym = Nobody => h = Feed!Closed /\ \A o \in older' : o.c # c,
           crossed' = crossed \ {c}, refused' = refused \ {c}, UNCHANGED <<cached, now>>
    PROVE  ChartSide' /\ chart'[c] = h /\ \A d \in Charts : d # c => chart'[d] = chart[d]
<1>1. ChartTypes /\ NothingOpen /\ LiveIsOwn /\ FullOnly
  BY DEF FeedInv, ChartSide
<1>2. /\ chart' \in [Charts -> Hooks(now)] /\ chart'[c] = h
      /\ \A d \in Charts : d # c => chart'[d] = chart[d]
  BY <1>1 DEF ChartTypes
<1>3. ChartTypes'
  BY <1>1, <1>2 DEF ChartTypes
<1>4. NothingOpen'
  <2> SUFFICES ASSUME NEW d \in Charts, chart'[d].sym = Nobody
               PROVE  chart'[d] = Feed!Closed /\ \A o \in older' : o.c # d
    BY DEF NothingOpen, Feed!Closed
  <2>1. CASE d = c
    BY <1>2, <2>1
  <2>2. CASE d # c
    <3>1. chart[d] = Feed!Closed /\ \A o \in older : o.c # d
      BY <1>1, <1>2, <2>2 DEF NothingOpen
    <3> QED
      BY <1>2, <2>2, <3>1
  <2> QED
    BY <2>1, <2>2
<1>5. LiveIsOwn'
  <2>1. \A w \in waits' : w.live => chart'[w.c].sym = w.sym
    BY <1>1, <1>2, RequestFacts DEF LiveIsOwn
  <2>2. \A o \in older' : ~o.stale => chart'[o.c].sym = o.sym
    BY <1>1, <1>2, RequestFacts DEF LiveIsOwn
  <2> QED
    BY <2>1, <2>2 DEF LiveIsOwn
<1>6. FullOnly'
  <2> SUFFICES ASSUME NEW w \in waits', w.live, chart'[w.c].loading PROVE w.kind = "full"
    BY DEF FullOnly
  <2>1. w \in waits /\ w.c # c
    BY <1>2
  <2>2. w.c \in Charts
    BY <1>1, <2>1, RequestFacts
  <2> QED
    BY <1>1, <1>2, <2>1, <2>2 DEF FullOnly
<1>7. OlderFit'
  <2> SUFFICES ASSUME NEW d \in Charts, d \notin crossed' PROVE Fits(d)'
    BY DEF OlderFit
  <2>1. CASE d = c
    <3>1. \A o \in older' : o.c = c => o.stale
      OBVIOUS
    <3> QED
      BY <1>2, <2>1, <3>1 DEF Fits
  <2>2. CASE d # c
    <3>1. Fits(d)
      BY <2>2 DEF FeedInv, ChartSide, OlderFit
    <3>2. \A o \in older' : ~o.stale => o \in older
      OBVIOUS
    <3> QED
      BY <1>2, <2>2, <3>1, <3>2 DEF Fits
  <2> QED
    BY <2>1, <2>2
<1>8. Feed!ShowsItsSymbol'
  BY <1>2 DEF FeedInv, ChartSide, Feed!ShowsItsSymbol
<1>9. Feed!PanEnds'
  <2> SUFFICES ASSUME NEW d \in Charts, chart'[d].pan
               PROVE  \E p \in older' : p.c = d
    BY DEF Feed!PanEnds
  <2>1. d # c /\ chart[d].pan
    BY <1>2
  <2>2. PICK p \in older : p.c = d
    BY <2>1 DEF FeedInv, ChartSide, Feed!PanEnds
  <2> QED
    BY <2>1, <2>2
<1>10. Feed!LoadingEnds'
  <2> SUFFICES ASSUME NEW d \in Charts, chart'[d].loading, d \notin refused', ~chart'[d].debounce
               PROVE  \E w \in waits' : w.c = d /\ w.live /\ w.kind = "full"
    BY DEF Feed!LoadingEnds
  <2>1. d # c /\ chart[d].loading /\ ~chart[d].debounce /\ d \notin refused
    BY <1>2
  <2>2. PICK w \in waits : w.c = d /\ w.live /\ w.kind = "full"
    BY <2>1 DEF FeedInv, ChartSide, Feed!LoadingEnds
  <2> QED
    BY <2>1, <2>2
<1> QED
  BY <1>2, <1>3, <1>4, <1>5, <1>6, <1>7, <1>8, <1>9, <1>10 DEF ChartSide

LEMMA SwitchKeepsFeedInv ==
    ASSUME FeedInv, NEW c \in Charts, NEW s \in Tickers, Feed!Switch(c, s)
    PROVE  FeedInv'
<1> DEFINE h == Feed!Opened(s)
           refresh == [c |-> c, sym |-> s, kind |-> "background", live |-> TRUE]
<1>1. /\ chart[c].sym # s /\ Feed!Subscriptions(c, s)
      /\ chart' = [chart EXCEPT ![c] = h]
      /\ waits' = Feed!Cancelled(c) \union (IF cached[s].bars # <<>> THEN {refresh} ELSE {})
      /\ older' = Feed!Outdated(c)
      /\ crossed' = crossed \ {c} /\ refused' = refused \ {c}
      /\ UNCHANGED <<polls, cached, now>>
  BY DEF Feed!Switch
<1>2. ChartTypes /\ Clock /\ PollSide /\ AllSubscribed
  BY DEF FeedInv, ChartSide
<1>3. cached[s] \in CacheEntries(now)
  BY <1>2 DEF ChartTypes
<1>4. /\ h \in Hooks(now) /\ h.sym = s /\ Rising(h.bars) /\ (h.bars # <<>> => h.of = s)
      /\ h.pan = FALSE /\ (h.loading => h.debounce)
      /\ cached[s].bars # <<>> => ~h.loading
  <2>1. Feed!Closed \in Hooks(now) /\ Rising(<<>>)
    <3>1. <<>> \in BarsTo(now) /\ Rising(<<>>)
      BY <1>2, EmptyIsBars DEF Clock
    <3>2. <<>> \in ShortTo(now)
      BY <3>1, FeedConstants DEF ShortTo
    <3> QED
      BY <3>1, <3>2 DEF Feed!Closed, Hooks
  <2>2. Feed!Closed.bars = <<>> /\ Feed!Closed.pan = FALSE /\ Feed!Closed.loading = FALSE
    BY DEF Feed!Closed
  <2>3. CASE cached[s].bars # <<>>
    <3>1. h = [Feed!Closed EXCEPT !.sym = s, !.bars = cached[s].bars, !.of = s,
                                  !.extent = cached[s].extent]
      BY <2>3 DEF Feed!Opened
    <3>2. cached[s].bars \in ShortTo(now) /\ Rising(cached[s].bars) /\ cached[s].extent \in {0, 1}
      BY <1>3 DEF CacheEntries
    <3> HIDE DEF h
    <3> QED
      BY <2>1, <2>2, <3>1, <3>2 DEF Hooks
  <2>4. CASE cached[s].bars = <<>>
    <3>1. h = [Feed!Closed EXCEPT !.sym = s, !.loading = TRUE, !.debounce = TRUE]
      BY <2>4 DEF Feed!Opened
    <3> HIDE DEF h
    <3> QED
      BY <2>1, <2>2, <2>4, <3>1 DEF Hooks
  <2> QED
    BY <2>3, <2>4
<1> HIDE DEF h
<1>5. /\ \A w \in waits' : /\ w \in Waits
                           /\ w.live => \/ w \in waits /\ w.c # c
                                        \/ w.c = c /\ w.sym = h.sym /\ ~h.loading
      /\ \A w \in waits : w.c # c => w \in waits'
  <2>1. refresh \in Waits /\ refresh.c = c /\ refresh.sym = s
    BY DEF Waits
  <2> HIDE DEF refresh
  <2>2. /\ \A w \in Feed!Cancelled(c) : w \in Waits /\ (w.live => w \in waits /\ w.c # c)
        /\ \A w \in waits : w.c # c => w \in Feed!Cancelled(c)
    BY <1>2, CancelledFacts
  <2>3. \A w \in waits' : w \in Feed!Cancelled(c) \/ (w = refresh /\ cached[s].bars # <<>>)
    BY <1>1
  <2> QED
    BY <1>1, <1>4, <2>1, <2>2, <2>3
<1>6. /\ \A o \in older' : /\ o \in OlderRequests(now)
                           /\ ~o.stale => o \in older /\ o.c # c
                           /\ \E p \in older : p.c = o.c
      /\ \A o \in older : o.c # c => o \in older'
  BY <1>1, <1>2, OutdatedFacts
<1>7. h.sym # Nobody
  BY <1>4, FeedConstants
<1>8. ChartSide' /\ chart'[c] = h /\ \A d \in Charts : d # c => chart'[d] = chart[d]
  BY <1>1, <1>4, <1>5, <1>6, <1>7, AnotherSymbol
<1>9. PollSide' /\ AllSubscribed'
  BY <1>1, <1>2, <1>4, <1>8, SubscriptionsFacts
<1> QED
  BY <1>1, <1>2, <1>8, <1>9 DEF FeedInv, Clock

LEMMA CloseKeepsFeedInv ==
    ASSUME FeedInv, NEW c \in Charts, Feed!Close(c)
    PROVE  FeedInv'
<1> DEFINE h == Feed!Closed
<1>1. /\ chart[c].sym # Nobody /\ Feed!Subscriptions(c, Nobody)
      /\ chart' = [chart EXCEPT ![c] = h]
      /\ waits' = Feed!Cancelled(c)
      /\ older' = {o \in older : o.c # c}
      /\ crossed' = crossed \ {c} /\ refused' = refused \ {c}
      /\ UNCHANGED <<polls, cached, now>>
  BY DEF Feed!Close
<1>2. ChartTypes /\ Clock /\ PollSide /\ AllSubscribed
  BY DEF FeedInv, ChartSide
<1>3. /\ h \in Hooks(now) /\ h.sym = Nobody /\ Rising(h.bars) /\ h.bars = <<>>
      /\ h.pan = FALSE /\ h.loading = FALSE
  <2>1. <<>> \in BarsTo(now) /\ Rising(<<>>)
    BY <1>2, EmptyIsBars DEF Clock
  <2>2. <<>> \in ShortTo(now)
    BY <2>1, FeedConstants DEF ShortTo
  <2> QED
    BY <2>1, <2>2 DEF Feed!Closed, Hooks
<1>4. /\ \A w \in waits' : w \in Waits /\ (w.live => w \in waits /\ w.c # c)
      /\ \A w \in waits : w.c # c => w \in waits'
  BY <1>1, <1>2, CancelledFacts
<1>5. /\ \A o \in older' : o \in OlderRequests(now) /\ o \in older /\ o.c # c
      /\ \A o \in older : o.c # c => o \in older'
  BY <1>1, <1>2 DEF ChartTypes
<1>6. ChartSide' /\ chart'[c] = h /\ \A d \in Charts : d # c => chart'[d] = chart[d]
  <2>1. \A w \in waits' : /\ w \in Waits
                          /\ w.live => \/ w \in waits /\ w.c # c
                                       \/ w.c = c /\ w.sym = h.sym /\ ~h.loading
    BY <1>4
  <2>2. \A o \in older' : /\ o \in OlderRequests(now)
                          /\ ~o.stale => o \in older /\ o.c # c
                          /\ \E p \in older : p.c = o.c
    BY <1>5
  <2>3. h.sym = Nobody => h = Feed!Closed /\ \A o \in older' : o.c # c
    BY <1>5
  <2> HIDE DEF h
  <2> QED
    BY <1>1, <1>3, <1>4, <1>5, <2>1, <2>2, <2>3, AnotherSymbol
<1>7. PollSide' /\ AllSubscribed'
  <2> HIDE DEF h
  <2> QED
    BY <1>1, <1>2, <1>3, <1>6, SubscriptionsFacts
<1> QED
  BY <1>1, <1>2, <1>6, <1>7 DEF FeedInv, Clock

-----------------------------------------------------------------------------
(* Every step of the charts' bars preserves the invariant, and the other   *)
(* parts of a chart leave it alone.                                        *)
LEMMA FeedStays ==
    ASSUME FeedInv, UNCHANGED feedVars
    PROVE  FeedInv'
<1>1. UNCHANGED <<chart, entry, strays, polls, waits, older, cached, now, reborn, crossed, refused>>
  BY DEF feedVars
<1>2. PollSide' /\ AllSubscribed'
  BY <1>1, PollsStay, SubscribedStays DEF FeedInv
<1>3. ChartSide'
  BY <1>1, ChartsStay, TypesStay DEF FeedInv, ChartSide
<1> QED
  BY <1>1, <1>2, <1>3 DEF FeedInv, Clock

LEMMA FeedNextKeepsFeedInv ==
    ASSUME FeedInv, Feed!Next
    PROVE  FeedInv'
<1>1. ASSUME NEW s \in Tickers,
             \/ Feed!TimerFires(s) \/ Feed!StrayFires(s) \/ Feed!LostTimerFires(s)
             \/ Feed!PollFails(s)
      PROVE  FeedInv'
  BY <1>1, TimersKeepFeedInv
<1>2. ASSUME NEW s \in Tickers, Feed!PollAnswers(s)
      PROVE  FeedInv'
  BY <1>2, PollAnswersKeepsFeedInv
<1>3. ASSUME NEW s \in Tickers, Feed!Answer(s)
      PROVE  FeedInv'
  BY <1>3, AnswerKeepsFeedInv
<1>4. ASSUME NEW s \in Tickers, Feed!Refused(s) \/ Feed!Fails(s) \/ Feed!Expires(s)
      PROVE  FeedInv'
  BY <1>4, RefusedKeepsFeedInv, FailsKeepsFeedInv, ExpiresKeepsFeedInv
<1>5. ASSUME NEW c \in Charts, NEW s \in Tickers, Feed!Switch(c, s)
      PROVE  FeedInv'
  BY <1>5, SwitchKeepsFeedInv
<1>6. ASSUME NEW c \in Charts, Feed!Close(c) \/ Feed!DebounceFires(c) \/ Feed!Frame(c)
      PROVE  FeedInv'
  BY <1>6, CloseKeepsFeedInv, DebounceKeepsFeedInv, FrameKeepsFeedInv
<1>7. ASSUME NEW c \in Charts, Feed!PanLeft(c) \/ Feed!PanFires(c)
      PROVE  FeedInv'
  BY <1>7, PanLeftKeepsFeedInv, PanFiresKeepsFeedInv
<1>8. ASSUME NEW o \in older, Feed!OlderAnswers(o) \/ Feed!OlderFails(o)
      PROVE  FeedInv'
  BY <1>8, OlderAnswersKeepsFeedInv, OlderFailsKeepsFeedInv
<1>9. CASE Feed!NewBar
  BY <1>9, NewBarKeepsFeedInv
<1> QED
  BY <1>1, <1>2, <1>3, <1>4, <1>5, <1>6, <1>7, <1>8, <1>9 DEF Feed!Next

(* The invariant of the bars holds in every behaviour of a chart. *)
THEOREM FeedInvariance == PartsSpec => []FeedInv
<1>1. PartsInit => FeedInv
  BY FeedInit DEF PartsInit
<1>2. FeedInv /\ [PartsNext]_<<part, vars, pageVars, feedVars>> => FeedInv'
  <2> SUFFICES ASSUME FeedInv, [PartsNext]_<<part, vars, pageVars, feedVars>> PROVE FeedInv'
    OBVIOUS
  <2>1. Feed!Next \/ UNCHANGED feedVars
    BY DEF PartsNext
  <2> QED
    BY <2>1, FeedStays, FeedNextKeepsFeedInv
<1> QED
  BY <1>1, <1>2, PTL DEF PartsSpec

(* The bars that a chart shows are of its own symbol, and in order unless  *)
(* a request for older ones was overtaken, whatever order the answers to   *)
(* its requests come in.                                                   *)
THEOREM BarsAreRightHolds == PartsSpec => []BarsAreRight
<1>1. FeedInv => BarsAreRight
  BY FeedInvGives DEF BarsAreRight
<1> QED
  BY <1>1, FeedInvariance, PTL

(* A chart that waits has something under way, and its symbol has one      *)
(* chain of timers, unless its entry was made anew during a poll.          *)
THEOREM NothingStallsHolds == PartsSpec => []NothingStalls
<1>1. FeedInv => NothingStalls
  BY FeedInvGives DEF NothingStalls
<1> QED
  BY <1>1, FeedInvariance, PTL

-----------------------------------------------------------------------------
(* The page of a chart: what its parts are.                                *)
Inds == [id: Nat, name: Names, pane: Page!Panes \union {Main}, visible: BOOLEAN]
Once(list, name) ==
    \A i, j \in DOMAIN list : list[i].name = name /\ list[j].name = name => i = j
Apart(list) == \A i, j \in DOMAIN list : list[i].id = list[j].id => i = j
Distinct(s) == \A i, j \in DOMAIN s : s[i] = s[j] => i = j

(* Of volume and score there is one at most, in the engine and saved.      *)
Lists == {list \in Seq(Inds) : Apart(list) /\ Once(list, "volume") /\ Once(list, "score")}
SavedLists == {list \in Seq(Page!SavedIndicator) :
                  Once(list, "volume") /\ Once(list, "score")}

Engines == [list: Seq(Inds), order: Seq(Page!Panes), collapsed: SUBSET Page!Panes,
            max: Page!Panes \union {None}]
Ordered(e) == Distinct(e.order) /\ {e.order[k] : k \in DOMAIN e.order} = Page!PanesOf(e.list)
GoodEngines == {e \in Engines : e.list \in Lists /\ Ordered(e)}
SubStates == {s \in [order: Seq(Page!Panes), collapsed: SUBSET Page!Panes,
                     max: Page!Panes \union {None}] : Distinct(s.order)}
Stores == {s \in [list: SavedLists, sub: SubStates, symbol: Symbols] :
              Len(s.list) <= MaxIndicators}

(* What Synced sees to. *)
Signals(list) == {i \in DOMAIN list : list[i].name = "signal"}
Scores(list) == {i \in DOMAIN list : list[i].name = "score"}
Wanted(list) == \E i \in Signals(list) : list[i].visible
Complete(list) ==
    Signals(list) # {} => /\ Wanted(list) => Scores(list) # {}
                          /\ \A i \in Scores(list) : list[i].visible = Wanted(list)

PageTypes ==
    /\ engine \in GoodEngines /\ Len(engine.list) <= MaxIndicators
    /\ active \in Lists /\ Len(active) <= MaxIndicators
    /\ restored \in BOOLEAN
    /\ removed \in SUBSET (Names \intersect Removable) /\ gone \in SUBSET Names
    /\ persisted \in Stores \union {None} /\ stored \in Stores \union {None}
    /\ symbol \in Symbols
    /\ loaded \in BOOLEAN
    /\ changed \in SUBSET Page!Dirty
    /\ paned \in BOOLEAN /\ touched \in BOOLEAN
    /\ changes \in 0 .. MaxChanges

(* The page's list echoes the engine's, and is it unless a button on a     *)
(* pane has come between; then nobody has asked the effects for it.        *)
Echoes ==
    /\ active = Page!Current(engine)
    /\ ~paned => active = engine.list
    /\ "active" \in changed => ~paned
    /\ Page!Due({"engine", "persisted", "active", "bars"}) \/ layout = Page!Layout(engine)
      \/ "mount" \in changed

Mounting ==
    "mount" \in changed =>
        /\ changed = {"mount"} /\ rounds = 0
        /\ engine = Page!NoEngine /\ active = <<>>
        /\ ~restored /\ removed = {} /\ ~loaded /\ ~touched /\ ~paned

(* What is to be saved has been, or an effect that saves it is due.        *)
Now == [list |-> Page!Saved(active), sub |-> Page!SubPaneState(engine), symbol |-> symbol]
Saves ==
    Page!MaySave /\ stored # Now => Page!Due({"persisted", "active", "layout", "symbol"})

(* The score goes with the signals, but for the list that the next round   *)
(* of effects will complete, which has room for it.                        *)
Completes ==
    /\ Complete(active) \/ ("active" \in changed /\ Page!Room(engine))
    /\ stored # None => Complete(stored.list) \/ ("active" \in changed /\ active # <<>>)
    /\ persisted # None => Complete(persisted.list)

(* How far the effects are.                                                *)
Clean(list) == \A i \in DOMAIN list : list[i].name \notin removed
Calms ==
    /\ rounds \in 0 .. 2
    /\ changed = {} => rounds = 0
    /\ Page!Due({"engine", "persisted"}) => 
            /\ rounds = 1 /\ ~loaded
            /\ {"engine", "persisted", "active"} \subseteq changed
    /\ rounds # 0 => changed \intersect {"mount", "bars", "symbol"} = {}
    /\ rounds = 1 /\ "active" \in changed =>
            Complete(active) /\ (loaded => active # <<>> /\ Clean(active))
    /\ rounds = 2 => changed = {"layout"}
    /\ "mount" \in changed \/ restored \/ Page!RestoredList = <<>>

Restoring ==
    ~touched /\ persisted # None /\ persisted.list # <<>> /\ "mount" \notin changed =>
        /\ Page!Saved(engine.list) = persisted.list
        /\ active = engine.list /\ removed = {}
        /\ \/ Page!Due({"engine", "persisted"})
           \/ engine = Page!SetSubPaneState(engine, persisted.sub)

PageInv == PageTypes /\ Echoes /\ Mounting /\ Saves /\ Completes /\ Calms /\ Restoring

-----------------------------------------------------------------------------
(* Induction over the numbers, for a set: the provers cannot instantiate   *)
(* the library's theorem, whose hypothesis is an operator.                 *)

(* No set of numbers up to m has for each of its numbers the one below.    *)
LEMMA NoDescent ==
    ASSUME NEW B, NEW m \in Nat, B \subseteq 0 .. m, m \in B,
           \A k \in B : k - 1 \in B
    PROVE  FALSE
<1> DEFINE f == [k \in B |-> k - 1]
<1>1. IsFiniteSet(0 .. m)
  BY FS_Interval
<1>2. IsFiniteSet(B)
  BY <1>1, FS_Subset
<1>3. IsFiniteSet(B \ {m}) /\ Cardinality(B \ {m}) = Cardinality(B) - 1
  BY <1>2, FS_RemoveElement
<1>4. Cardinality(B) \in Nat
  BY <1>2, FS_CardinalityType
<1>5. f \in [B -> B \ {m}]
  OBVIOUS
<1>6. \A x, y \in B : x # y => f[x] # f[y]
  OBVIOUS
<1> HIDE DEF f
<1>7. Cardinality(B \ {m}) < Cardinality(B)
  BY <1>3, <1>4
<1>8. \E x, y \in B : x # y /\ f[x] = f[y]
  BY <1>2, <1>3, <1>5, <1>7, FS_PigeonHole, Zenon
<1> QED
  BY <1>6, <1>8, Zenon

LEMMA Induction ==
    ASSUME NEW S, 0 \in S, \A n \in Nat : n \in S => n + 1 \in S
    PROVE  Nat \subseteq S
<1> SUFFICES ASSUME NEW m \in Nat, m \notin S PROVE FALSE
  OBVIOUS
<1> DEFINE B == {k \in 0 .. m : k \notin S}
<1>1. B \subseteq 0 .. m /\ m \in B
  OBVIOUS
<1>2. \A k \in B : k - 1 \in B
  <2> SUFFICES ASSUME NEW k \in B PROVE k - 1 \in B
    OBVIOUS
  <2>1. k \in Nat /\ k <= m /\ k \notin S /\ k # 0
    OBVIOUS
  <2>2. k - 1 \in Nat /\ (k - 1) + 1 = k
    BY <2>1
  <2>3. k - 1 \notin S
    BY <2>1, <2>2
  <2> QED
    BY <2>1, <2>2, <2>3
<1> HIDE DEF B
<1> QED
  BY <1>1, <1>2, NoDescent
(* A set of numbers that is not empty has a least one.                     *)
LEMMA Least ==
    ASSUME NEW T, T \subseteq Nat, T # {}
    PROVE  \E i \in T : \A j \in T : i <= j
<1> SUFFICES ASSUME \A i \in T : \E j \in T : ~(i <= j) PROVE FALSE
  OBVIOUS
<1>0. \A i \in T : i \in Nat
  OBVIOUS
<1> DEFINE S == {n \in Nat : \A j \in T : n <= j}
<1>1. 0 \in S
  BY <1>0
<1>2. \A n \in Nat : n \in S => n + 1 \in S
  <2> SUFFICES ASSUME NEW n \in Nat, n \in S PROVE n + 1 \in S
    OBVIOUS
  <2>1. n \notin T
    OBVIOUS
  <2>2. \A j \in T : n <= j /\ n # j
    BY <2>1
  <2> QED
    BY <1>0, <2>2
<1>3. PICK m \in T : TRUE
  OBVIOUS
<1>4. m + 1 \in Nat /\ ~(m + 1 <= m)
  BY <1>0
<1> HIDE DEF S
<1>5. m + 1 \in S
  BY <1>1, <1>2, <1>4, Induction
<1> QED
  BY <1>4, <1>5 DEF S


-----------------------------------------------------------------------------
(* Recursion over the numbers up to N. *)
Steps(X, N) == [1 .. N -> [X -> X]]
Follows(f, X, N, base, step) ==
    /\ f \in [0 .. N -> X] /\ f[0] = base
    /\ \A n \in 1 .. N : f[n] = step[n][f[n - 1]]

LEMMA Recursion ==
    ASSUME NEW X, NEW N \in Nat, NEW base \in X, NEW step \in Steps(X, N)
    PROVE  \E f : Follows(f, X, N, base, step)
<1> DEFINE Good(m, f) == f[0] = base /\ \A n \in 1 .. m : f[n] = step[n][f[n - 1]]
           S == {m \in Nat : m <= N => \E f \in [0 .. m -> X] : Good(m, f)}
<1>1. 0 \in S
  <2>1. [n \in 0 .. 0 |-> base] \in [0 .. 0 -> X] /\ Good(0, [n \in 0 .. 0 |-> base])
    OBVIOUS
  <2> QED
    BY <2>1
<1>2. ASSUME NEW m \in Nat, m \in S PROVE m + 1 \in S
  <2> SUFFICES ASSUME m + 1 <= N PROVE \E f \in [0 .. m + 1 -> X] : Good(m + 1, f)
    OBVIOUS
  <2>1. PICK f \in [0 .. m -> X] : Good(m, f)
    BY <1>2
  <2>2. step[m + 1][f[m]] \in X
    <3>1. m + 1 \in 1 .. N /\ f[m] \in X
      OBVIOUS
    <3> QED
      BY <3>1 DEF Steps
  <2> DEFINE g == [n \in 0 .. m + 1 |-> IF n = m + 1 THEN step[m + 1][f[m]] ELSE f[n]]
  <2>3. g \in [0 .. m + 1 -> X]
    BY <2>2
  <2>4. g[0] = base
    BY <2>1
  <2>5. ASSUME NEW n \in 1 .. m + 1 PROVE g[n] = step[n][g[n - 1]]
    <3>1. CASE n = m + 1
      BY <3>1
    <3>2. CASE n # m + 1
      <4>1. n \in 1 .. m /\ n - 1 \in 0 .. m /\ n - 1 # m + 1
        BY <3>2
      <4> QED
        BY <4>1, <3>2, <2>1
    <3> QED
      BY <3>1, <3>2
  <2> HIDE DEF g
  <2> QED
    BY <2>3, <2>4, <2>5
<1> HIDE DEF S
<1>3. N \in S
  BY <1>1, <1>2, Induction
<1> QED
  BY <1>3 DEF S, Follows

-----------------------------------------------------------------------------
(* Sequences in the order of keys (InOrder, Kept of ChartPanes).           *)

(* Numbers for some of the first n places, each another.                   *)
IsKey(key, n) ==
    /\ DOMAIN key \subseteq 1 .. n
    /\ \A i \in DOMAIN key : key[i] \in Nat
    /\ \A i, j \in DOMAIN key : key[i] = key[j] => i = j
KeyRank(key, i) == Cardinality({j \in DOMAIN key : key[j] < key[i]})

LEMMA KeyRanks ==
    ASSUME NEW n \in Nat, NEW key, IsKey(key, n)
    PROVE  /\ IsFiniteSet(DOMAIN key) /\ Cardinality(DOMAIN key) \in 0 .. n
           /\ \A i \in DOMAIN key : KeyRank(key, i) \in 0 .. (Cardinality(DOMAIN key) - 1)
           /\ \A i, j \in DOMAIN key : KeyRank(key, i) = KeyRank(key, j) => i = j
<1> DEFINE T == DOMAIN key
           below(i) == {j \in T : key[j] < key[i]}
<1>1. T \subseteq 1 .. n
  BY DEF IsKey
<1>2. IsFiniteSet(1 .. n) /\ Cardinality(1 .. n) = n
  BY FS_Interval
<1>3. IsFiniteSet(T) /\ Cardinality(T) \in Nat /\ Cardinality(T) <= n
  BY <1>1, <1>2, FS_Subset, FS_CardinalityType
<1>4. \A i \in T : key[i] \in Nat
  BY DEF IsKey
<1>5. \A i \in T : KeyRank(key, i) = Cardinality(below(i))
  BY DEF KeyRank
<1>6. \A i \in T : below(i) \in SUBSET T /\ i \notin below(i)
  BY <1>4, \A k \in Nat : ~(k < k)
<1>7. \A i, j \in T : key[i] < key[j] => below(i) \subseteq below(j) /\ i \in below(j)
  BY <1>4
<1> HIDE DEF T, below
<1>8. \A i \in T : IsFiniteSet(below(i)) /\ Cardinality(below(i)) \in Nat
  BY <1>3, <1>6, FS_Subset, FS_CardinalityType
<1>9. ASSUME NEW A, NEW B, IsFiniteSet(B), A \subseteq B, NEW x \in B, x \notin A
      PROVE  Cardinality(A) < Cardinality(B)
  <2>1. Cardinality(A) <= Cardinality(B) /\ Cardinality(A) # Cardinality(B)
    BY <1>9, FS_Subset
  <2>2. Cardinality(A) \in Nat /\ Cardinality(B) \in Nat
    BY <1>9, FS_Subset, FS_CardinalityType
  <2> QED
    BY <2>1, <2>2
<1>10. \A i \in T : Cardinality(below(i)) < Cardinality(T)
  BY <1>3, <1>6, <1>9
<1>11. \A i, j \in T : key[i] < key[j] => Cardinality(below(i)) < Cardinality(below(j))
  BY <1>6, <1>7, <1>8, <1>9
<1>12. ASSUME NEW i \in T, NEW j \in T, KeyRank(key, i) = KeyRank(key, j) PROVE i = j
  <2>1. ~(key[i] < key[j]) /\ ~(key[j] < key[i])
    BY <1>5, <1>8, <1>11, <1>12
  <2>2. key[i] = key[j]
    BY <1>4, <2>1
  <2> QED
    BY <2>2 DEF IsKey, T
<1>13. \A i \in T : KeyRank(key, i) \in 0 .. (Cardinality(T) - 1)
  BY <1>3, <1>5, <1>8, <1>10
<1> QED
  BY <1>3, <1>12, <1>13 DEF T

LEMMA CountTo ==
    \A m \in Nat : /\ IsFiniteSet(0 .. (m - 1)) /\ Cardinality(0 .. (m - 1)) = m
                   /\ IsFiniteSet(1 .. m) /\ Cardinality(1 .. m) = m
<1> SUFFICES ASSUME NEW m \in Nat
             PROVE  /\ IsFiniteSet(0 .. (m - 1)) /\ Cardinality(0 .. (m - 1)) = m
                    /\ IsFiniteSet(1 .. m) /\ Cardinality(1 .. m) = m
  OBVIOUS
<1>1. 0 \in Int /\ m - 1 \in Int /\ (0 > m - 1 <=> m = 0) /\ (m - 1) - 0 + 1 = m
  OBVIOUS
<1>2. /\ IsFiniteSet(0 .. (m - 1))
      /\ Cardinality(0 .. (m - 1)) = IF 0 > m - 1 THEN 0 ELSE (m - 1) - 0 + 1
  BY <1>1, FS_Interval
<1>3. /\ IsFiniteSet(1 .. m) /\ Cardinality(1 .. m) = m
  BY FS_Interval
<1> QED
  BY <1>1, <1>2, <1>3

KeyAt(key) ==
    [k \in 1 .. Cardinality(DOMAIN key) |->
        CHOOSE i \in DOMAIN key : KeyRank(key, i) = k - 1]

(* Each place that has a key comes up once.                                *)
LEMMA KeyAtFacts ==
    ASSUME NEW n \in Nat, NEW key, IsKey(key, n)
    PROVE  LET len == Cardinality(DOMAIN key)
           IN  /\ \A k \in 1 .. len : /\ KeyAt(key)[k] \in DOMAIN key
                                      /\ KeyRank(key, KeyAt(key)[k]) = k - 1
               /\ \A i \in DOMAIN key : \E k \in 1 .. len : KeyAt(key)[k] = i
               /\ \A k, l \in 1 .. len : KeyAt(key)[k] = KeyAt(key)[l] => k = l
<1> DEFINE T == DOMAIN key
           len == Cardinality(T)
           all == 0 .. (len - 1)
           rank == [i \in T |-> KeyRank(key, i)]
<1>1. /\ IsFiniteSet(T) /\ len \in Nat
      /\ \A i \in T : KeyRank(key, i) \in all
      /\ \A i, j \in T : KeyRank(key, i) = KeyRank(key, j) => i = j
  BY KeyRanks
<1>2. IsFiniteSet(all) /\ Cardinality(all) = len
  BY <1>1, CountTo
<1>3. rank \in Injection(T, all)
  <2>1. rank \in [T -> all]
    BY <1>1
  <2>2. \A a, b \in T : rank[a] = rank[b] => a = b
    BY <1>1
  <2> HIDE DEF rank, all, T
  <2> QED
    BY <2>1, <2>2 DEF Injection, IsInjective
<1> HIDE DEF all, len
<1>4. rank \in Surjection(T, all)
  <2> HIDE DEF rank, T
  <2> QED
    BY <1>1, <1>2, <1>3, FS_Injection DEF len
<1>5. \A m \in all : \E i \in T : rank[i] = m
  <2> HIDE DEF rank, T
  <2> QED
    BY <1>4 DEF Surjection
<1>6. \A m \in all : \E i \in T : KeyRank(key, i) = m
  BY <1>5
<1>7. \A k \in 1 .. len : KeyAt(key)[k] \in T /\ KeyRank(key, KeyAt(key)[k]) = k - 1
  <2> SUFFICES ASSUME NEW k \in 1 .. len
               PROVE  KeyAt(key)[k] \in T /\ KeyRank(key, KeyAt(key)[k]) = k - 1
    OBVIOUS
  <2>1. k - 1 \in all
    BY <1>1 DEF all
  <2>2. \E i \in T : KeyRank(key, i) = k - 1
    BY <1>6, <2>1
  <2>3. KeyAt(key)[k] = CHOOSE i \in T : KeyRank(key, i) = k - 1
    BY DEF KeyAt, len
  <2> HIDE DEF T
  <2> QED
    BY <2>2, <2>3, Zenon
<1> HIDE DEF T, rank
<1>8. ASSUME NEW i \in T PROVE \E k \in 1 .. len : KeyAt(key)[k] = i
  <2>1. KeyRank(key, i) + 1 \in 1 .. len /\ (KeyRank(key, i) + 1) - 1 = KeyRank(key, i)
    BY <1>1 DEF all
  <2>2. KeyAt(key)[KeyRank(key, i) + 1] = i
    BY <1>1, <1>7, <2>1
  <2> QED
    BY <2>1, <2>2
<1>9. ASSUME NEW k \in 1 .. len, NEW l \in 1 .. len, KeyAt(key)[k] = KeyAt(key)[l]
      PROVE  k = l
  <2>1. k - 1 = l - 1
    BY <1>7, <1>9
  <2> QED
    BY <1>1, <2>1
<1> QED
  BY <1>7, <1>8, <1>9 DEF T, len

(* What InOrder lists. *)
LEMMA InOrderIs ==
    \A s, key : Page!InOrder(s, key) =
        [k \in 1 .. Cardinality(DOMAIN key) |-> s[KeyAt(key)[k]]]
<1> SUFFICES ASSUME NEW s, NEW key
             PROVE  Page!InOrder(s, key) =
                        [k \in 1 .. Cardinality(DOMAIN key) |-> s[KeyAt(key)[k]]]
  OBVIOUS
<1> DEFINE at(k) == CHOOSE i \in DOMAIN key : KeyRank(key, i) = k - 1
<1>1. Page!InOrder(s, key) = [k \in 1 .. Cardinality(DOMAIN key) |-> s[at(k)]]
  BY DEF Page!InOrder, KeyRank, Page!Cardinality, Page!IsFiniteSet, Cardinality, IsFiniteSet
<1>2. \A k \in 1 .. Cardinality(DOMAIN key) : KeyAt(key)[k] = at(k)
  BY DEF KeyAt
<1> HIDE DEF at
<1> QED
  BY <1>1, <1>2

LEMMA InOrderFacts ==
    ASSUME NEW S, NEW s \in Seq(S), NEW key, IsKey(key, Len(s))
    PROVE  LET t == Page!InOrder(s, key)
           IN  /\ t \in Seq(S)
               /\ Len(t) = Cardinality(DOMAIN key) /\ Len(t) <= Len(s)
               /\ \A k \in DOMAIN t : KeyAt(key)[k] \in DOMAIN key /\ t[k] = s[KeyAt(key)[k]]
               /\ \A i \in DOMAIN key : \E k \in DOMAIN t : KeyAt(key)[k] = i
               /\ \A k, l \in DOMAIN t : KeyAt(key)[k] = KeyAt(key)[l] => k = l
<1> DEFINE t == Page!InOrder(s, key)
           len == Cardinality(DOMAIN key)
<1>1. Len(s) \in Nat /\ DOMAIN s = 1 .. Len(s) /\ DOMAIN key \subseteq DOMAIN s
  BY LenProperties DEF IsKey
<1>2. len \in Nat /\ len <= Len(s)
  BY <1>1, KeyRanks
<1>3. /\ \A k \in 1 .. len : KeyAt(key)[k] \in DOMAIN key
      /\ \A i \in DOMAIN key : \E k \in 1 .. len : KeyAt(key)[k] = i
      /\ \A k, l \in 1 .. len : KeyAt(key)[k] = KeyAt(key)[l] => k = l
  BY <1>1, KeyAtFacts
<1>4. t = [k \in 1 .. len |-> s[KeyAt(key)[k]]]
  BY InOrderIs
<1>5. \A k \in 1 .. len : s[KeyAt(key)[k]] \in S
  BY <1>1, <1>3, ElementOfSeq
<1> HIDE DEF t, len
<1>6. t \in Seq(S) /\ Len(t) = len /\ DOMAIN t = 1 .. len
  BY <1>2, <1>4, <1>5
<1> QED
  BY <1>2, <1>3, <1>4, <1>6 DEF t, len

PlacesIn(s) == SUBSET (1 .. Len(s))
KeptAt(T) == KeyAt([i \in T |-> i])

LEMMA KeptFacts ==
    ASSUME NEW S, NEW s \in Seq(S), NEW T \in PlacesIn(s)
    PROVE  LET t == Page!Kept(s, T)
           IN  /\ t \in Seq(S)
               /\ Len(t) = Cardinality(T) /\ Len(t) <= Len(s)
               /\ \A k \in DOMAIN t : KeptAt(T)[k] \in T /\ t[k] = s[KeptAt(T)[k]]
               /\ \A i \in T : \E k \in DOMAIN t : KeptAt(T)[k] = i
               /\ \A k, l \in DOMAIN t : KeptAt(T)[k] = KeptAt(T)[l] => k = l
<1> DEFINE key == [i \in T |-> i]
<1>1. IsKey(key, Len(s)) /\ DOMAIN key = T
  <2>1. Len(s) \in Nat /\ T \subseteq 1 .. Len(s)
    BY LenProperties DEF PlacesIn
  <2> QED
    BY <2>1 DEF IsKey
<1>2. Page!Kept(s, T) = Page!InOrder(s, key) /\ KeptAt(T) = KeyAt(key)
  BY DEF Page!Kept, KeptAt
<1> HIDE DEF key
<1> QED
  BY <1>1, <1>2, InOrderFacts

(* The first n numbers are in their places. *)
LEMMA KeptAll ==
    ASSUME NEW S, NEW s \in Seq(S)
    PROVE  Page!Kept(s, 1 .. Len(s)) = s
<1> DEFINE T == 1 .. Len(s)
           key == [i \in T |-> i]
           n == Len(s)
<1>1. n \in Nat /\ DOMAIN s = 1 .. n /\ T \in PlacesIn(s)
  BY LenProperties DEF PlacesIn
<1>2. IsKey(key, n) /\ DOMAIN key = T
  BY <1>1 DEF IsKey
<1>3. Cardinality(T) = n
  BY <1>1, CountTo
<1>4. ASSUME NEW i \in T PROVE KeyRank(key, i) = i - 1
  <2>1. i \in Nat /\ i - 1 \in Nat /\ i <= n
    BY <1>1
  <2>2. {j \in T : key[j] < key[i]} = 1 .. (i - 1)
    BY <2>1, <1>1
  <2>3. Cardinality(1 .. (i - 1)) = i - 1
    BY <2>1, CountTo
  <2> QED
    BY <1>2, <2>2, <2>3 DEF KeyRank
<1>5. \A k \in 1 .. n : KeyAt(key)[k] \in T /\ KeyRank(key, KeyAt(key)[k]) = k - 1
  BY <1>1, <1>2, <1>3, KeyAtFacts
<1>6. Page!Kept(s, T) = [k \in 1 .. n |-> s[KeyAt(key)[k]]]
  BY <1>2, <1>3, InOrderIs DEF Page!Kept
<1> HIDE DEF key
<1>7. \A k \in 1 .. n : KeyAt(key)[k] = k
  <2> SUFFICES ASSUME NEW k \in 1 .. n PROVE KeyAt(key)[k] = k
    OBVIOUS
  <2>1. KeyAt(key)[k] - 1 = k - 1 /\ KeyAt(key)[k] \in 1 .. n
    BY <1>4, <1>5
  <2> QED
    BY <1>1, <2>1
<1>8. Page!Kept(s, T) = [k \in 1 .. n |-> s[k]]
  BY <1>6, <1>7
<1> QED
  BY <1>1, <1>8

(* What is kept nowhere, and what is kept of what is kept nowhere.         *)
LEMMA KeptNone ==
    ASSUME NEW S, NEW s \in Seq(S)
    PROVE  Page!Kept(s, {}) = <<>>
<1>1. {} \in PlacesIn(s)
  BY DEF PlacesIn
<1>2. Page!Kept(s, {}) \in Seq(S) /\ Len(Page!Kept(s, {})) = Cardinality({})
  BY <1>1, KeptFacts
<1> QED
  BY <1>2, FS_EmptySet, EmptySeq

-----------------------------------------------------------------------------
(* The panes of an engine.                                                 *)

LEMMA PageConstants ==
    /\ {"volume", "signal", "score"} \subseteq Names /\ "signal" \in Overlays
    /\ {"signal", "score"} \intersect Removable = {}
    /\ Symbols # {} /\ Page!Blank \in Symbols
    /\ MaxIndicators \in Nat \ {0} /\ MaxPanes \in Nat
    /\ MaxChanges \in Nat /\ MaxRounds \in Nat \ {0, 1}
    /\ Main \notin Page!Panes /\ None \notin Page!Panes
  BY PageAssumption DEF Page!Panes, Page!Blank

LEMMA InSeq ==
    ASSUME NEW S, NEW R, NEW s \in Seq(S), \A i \in DOMAIN s : s[i] \in R
    PROVE  s \in Seq(R)
<1>1. Len(s) \in Nat /\ DOMAIN s = 1 .. Len(s) /\ s \in [1 .. Len(s) -> S]
  BY LenProperties
<1>2. s \in [1 .. Len(s) -> R]
  BY <1>1
<1> QED
  BY <1>1, <1>2, SeqDef

LEMMA Items ==
    ASSUME NEW list \in Seq(Inds)
    PROVE  /\ Len(list) \in Nat /\ DOMAIN list = 1 .. Len(list)
           /\ \A i \in DOMAIN list :
                /\ list[i] \in Inds /\ list[i].id \in Nat /\ list[i].name \in Names
                /\ list[i].pane \in Page!Panes \union {Main}
                /\ list[i].visible \in BOOLEAN
<1>1. Len(list) \in Nat /\ DOMAIN list = 1 .. Len(list)
  BY LenProperties
<1>2. \A i \in DOMAIN list : list[i] \in Inds
  BY <1>1, ElementOfSeq
<1>3. \A ind \in Inds : /\ ind.id \in Nat /\ ind.name \in Names
                       /\ ind.pane \in Page!Panes \union {Main}
                       /\ ind.visible \in BOOLEAN
  BY DEF Inds
<1> QED
  BY <1>1, <1>2, <1>3

LEMMA FirstPanesFacts ==
    ASSUME NEW list \in Seq(Inds)
    PROVE  LET all == Page!FirstPanes(list)
           IN  /\ all \in Seq(Page!Panes) /\ Distinct(all)
               /\ {all[k] : k \in DOMAIN all} = Page!PanesOf(list)
<1> DEFINE panes == [i \in DOMAIN list |-> list[i].pane]
           first == {i \in DOMAIN list : /\ panes[i] # Main
                                         /\ \A j \in 1 .. i - 1 : panes[j] # panes[i]}
           all == Page!FirstPanes(list)
           P == Page!Panes \union {Main}
<1>1. Len(list) \in Nat /\ DOMAIN list = 1 .. Len(list)
  BY LenProperties
<1>2. \A i \in DOMAIN list : list[i].pane \in P
  BY Items
<1>3. panes \in Seq(P) /\ Len(panes) = Len(list) /\ DOMAIN panes = DOMAIN list
  BY <1>1, <1>2
<1>4. Page!PanesOf(list) = {panes[i] : i \in DOMAIN list} \ {Main}
  BY DEF Page!PanesOf
<1>5. first \in PlacesIn(panes) /\ all = Page!Kept(panes, first)
  BY <1>1, <1>3 DEF PlacesIn, Page!FirstPanes
<1>6. first \subseteq DOMAIN list
  OBVIOUS
<1>7. ASSUME NEW i \in DOMAIN list, panes[i] # Main
      PROVE  \E j \in first : panes[j] = panes[i]
  <2> DEFINE same == {j \in DOMAIN list : panes[j] = panes[i]}
  <2>1. same \subseteq Nat /\ same # {}
    BY <1>1
  <2>2. PICK j \in same : \A l \in same : j <= l
    BY <2>1, Least
  <2>3. j \in DOMAIN list /\ panes[j] = panes[i]
    OBVIOUS
  <2>4. ASSUME NEW l \in 1 .. j - 1 PROVE panes[l] # panes[j]
    <3>1. l \in DOMAIN list /\ ~(j <= l)
      BY <1>1, <2>3
    <3> QED
      BY <2>2, <2>3, <3>1
  <2> QED
    BY <1>7, <2>3, <2>4
<1>9. \A i \in first : panes[i] # Main
  OBVIOUS
<1> HIDE DEF panes
<1>8. ASSUME NEW i \in first, NEW j \in 1 .. i - 1 PROVE panes[j] # panes[i]
  OBVIOUS
<1> HIDE DEF first
<1>16. ASSUME NEW i \in first, NEW j \in first, panes[i] = panes[j] PROVE i = j
  <2>1. i \in Nat /\ j \in Nat /\ i >= 1 /\ j >= 1
    BY <1>1, <1>6
  <2>2. ~(i < j)
    <3>1. i < j => i \in 1 .. j - 1
      BY <2>1
    <3> QED
      BY <3>1, <1>8, <1>16
  <2>3. ~(j < i)
    <3>1. j < i => j \in 1 .. i - 1
      BY <2>1
    <3> QED
      BY <3>1, <1>8, <1>16
  <2> QED
    BY <2>1, <2>2, <2>3
<1> DEFINE at == KeptAt(first)
<1>10. /\ all \in Seq(P)
       /\ \A k \in DOMAIN all : at[k] \in first /\ all[k] = panes[at[k]]
       /\ \A i \in first : \E k \in DOMAIN all : at[k] = i
       /\ \A k, l \in DOMAIN all : at[k] = at[l] => k = l
  BY <1>3, <1>5, KeptFacts
<1> HIDE DEF at, all
<1>11. \A i \in DOMAIN list : panes[i] \in P
  BY <1>1, <1>3, ElementOfSeq
<1>12. \A k \in DOMAIN all : all[k] \in Page!Panes
  BY <1>6, <1>9, <1>10, <1>11
<1>13. all \in Seq(Page!Panes)
  BY <1>10, <1>12, InSeq
<1>14. Distinct(all)
  BY <1>16, <1>10 DEF Distinct
<1>15. {all[k] : k \in DOMAIN all} = Page!PanesOf(list)
  <2>1. ASSUME NEW k \in DOMAIN all PROVE all[k] \in Page!PanesOf(list)
    BY <1>4, <1>6, <1>9, <1>10
  <2>2. ASSUME NEW p \in Page!PanesOf(list) PROVE \E k \in DOMAIN all : all[k] = p
    <3>1. PICK i \in DOMAIN list : panes[i] = p /\ p # Main
      BY <1>4
    <3>2. PICK j \in first : panes[j] = p
      BY <1>7, <3>1
    <3> QED
      BY <1>10, <3>2
  <2> QED
    BY <2>1, <2>2
<1> QED
  BY <1>13, <1>14, <1>15 DEF all

Values(s) == {s[i] : i \in DOMAIN s}

LEMMA KeptValues ==
    ASSUME NEW S, NEW s \in Seq(S), NEW T \in PlacesIn(s)
    PROVE  LET t == Page!Kept(s, T)
           IN  /\ t \in Seq(S)
               /\ Values(t) = {s[i] : i \in T}
               /\ Distinct(s) => Distinct(t)
<1> DEFINE t == Page!Kept(s, T)
           at == KeptAt(T)
<1>1. /\ t \in Seq(S)
      /\ \A k \in DOMAIN t : at[k] \in T /\ t[k] = s[at[k]]
      /\ \A i \in T : \E k \in DOMAIN t : at[k] = i
      /\ \A k, l \in DOMAIN t : at[k] = at[l] => k = l
  BY KeptFacts
<1>2. T \subseteq DOMAIN s
  BY LenProperties DEF PlacesIn
<1> HIDE DEF t, at
<1>3. Values(t) = {s[i] : i \in T}
  BY <1>1 DEF Values
<1>4. Distinct(s) => Distinct(t)
  BY <1>1, <1>2 DEF Distinct
<1> QED
  BY <1>1, <1>3, <1>4 DEF t

LEMMA JoinValues ==
    ASSUME NEW S, NEW s \in Seq(S), NEW t \in Seq(S)
    PROVE  /\ s \o t \in Seq(S)
           /\ Values(s \o t) = Values(s) \union Values(t)
           /\ Distinct(s) /\ Distinct(t) /\ Values(s) \intersect Values(t) = {}
              => Distinct(s \o t)
<1> DEFINE u == s \o t
           m == Len(s)
           n == Len(t)
<1>1. m \in Nat /\ n \in Nat /\ DOMAIN s = 1 .. m /\ DOMAIN t = 1 .. n
  BY LenProperties
<1>2. /\ u \in Seq(S) /\ Len(u) = m + n
      /\ \A i \in 1 .. m + n : u[i] = IF i <= m THEN s[i] ELSE t[i - m]
  BY ConcatProperties
<1>3. DOMAIN u = 1 .. m + n
  BY <1>2, LenProperties
<1> HIDE DEF u, m, n
<1>4. \A i \in DOMAIN s : i \in DOMAIN u /\ u[i] = s[i]
  BY <1>1, <1>2, <1>3
<1>5. \A i \in DOMAIN t : m + i \in DOMAIN u /\ u[m + i] = t[i]
  <2> SUFFICES ASSUME NEW i \in DOMAIN t PROVE m + i \in DOMAIN u /\ u[m + i] = t[i]
    OBVIOUS
  <2>1. m + i \in 1 .. m + n /\ ~(m + i <= m) /\ (m + i) - m = i
    BY <1>1
  <2> QED
    BY <1>2, <1>3, <2>1
<1>6. \A i \in DOMAIN u : i \in DOMAIN s \/ (i - m \in DOMAIN t /\ i = m + (i - m))
  BY <1>1, <1>3
<1>7. \A i \in DOMAIN u : \/ i \in DOMAIN s /\ u[i] = s[i]
                          \/ i - m \in DOMAIN t /\ i = m + (i - m) /\ u[i] = t[i - m]
  BY <1>4, <1>5, <1>6
<1>8. Values(u) = Values(s) \union Values(t)
  BY <1>4, <1>5, <1>7 DEF Values
<1>9. ASSUME Distinct(s), Distinct(t), Values(s) \intersect Values(t) = {}
      PROVE  Distinct(u)
  <2> SUFFICES ASSUME NEW i \in DOMAIN u, NEW j \in DOMAIN u, u[i] = u[j] PROVE i = j
    BY DEF Distinct
  <2>1. \A k \in DOMAIN s, l \in DOMAIN t : s[k] # t[l]
    BY <1>9 DEF Values
  <2>2. CASE i \in DOMAIN s /\ u[i] = s[i] /\ j \in DOMAIN s /\ u[j] = s[j]
    BY <1>9, <2>2 DEF Distinct
  <2>3. CASE /\ i - m \in DOMAIN t /\ i = m + (i - m) /\ u[i] = t[i - m]
             /\ j - m \in DOMAIN t /\ j = m + (j - m) /\ u[j] = t[j - m]
    <3>1. i - m = j - m
      BY <1>9, <2>3 DEF Distinct
    <3> QED
      BY <2>3, <3>1
  <2> QED
    BY <1>7, <2>1, <2>2, <2>3
<1> QED
  BY <1>2, <1>8, <1>9 DEF u

(* A sequence of records of the four fields of an engine. *)
LEMMA EngineFields ==
    ASSUME NEW e \in Engines
    PROVE  /\ e.list \in Seq(Inds) /\ e.order \in Seq(Page!Panes)
           /\ e.collapsed \in SUBSET Page!Panes /\ e.max \in Page!Panes \union {None}
           /\ e = [list |-> e.list, order |-> e.order, collapsed |-> e.collapsed,
                   max |-> e.max]
           /\ \A s : /\ [e EXCEPT !.order = s] = [list |-> e.list, order |-> s,
                                                  collapsed |-> e.collapsed, max |-> e.max]
                     /\ [e EXCEPT !.list = s] = [list |-> s, order |-> e.order,
                                                 collapsed |-> e.collapsed, max |-> e.max]
  BY DEF Engines

LEMMA NormalFacts ==
    ASSUME NEW e \in Engines
    PROVE  LET n == Page!Normal(e)
           IN  /\ n \in Engines
               /\ n.list = e.list /\ n.collapsed = e.collapsed /\ n.max = e.max
               /\ Distinct(e.order) => Ordered(n)
<1> DEFINE P == Page!Panes
           panes == Page!PanesOf(e.list)
           T == {k \in DOMAIN e.order : e.order[k] \in panes}
           kept == Page!Kept(e.order, T)
           all == Page!FirstPanes(e.list)
           U == {k \in DOMAIN all : all[k] \notin Page!ToSet(kept)}
           new == Page!Kept(all, U)
           n == Page!Normal(e)
<1>1. /\ e.list \in Seq(Inds) /\ e.order \in Seq(P)
      /\ n = [list |-> e.list, order |-> kept \o new, collapsed |-> e.collapsed,
              max |-> e.max]
  <2>1. n = [e EXCEPT !.order = kept \o new]
    BY DEF Page!Normal
  <2> QED
    BY <2>1, EngineFields
<1>2. T \in PlacesIn(e.order)
  BY <1>1, LenProperties DEF PlacesIn
<1>3. /\ kept \in Seq(P) /\ Values(kept) = {e.order[i] : i \in T}
      /\ Distinct(e.order) => Distinct(kept)
  BY <1>1, <1>2, KeptValues
<1>4. all \in Seq(P) /\ Distinct(all) /\ Values(all) = panes
  BY <1>1, FirstPanesFacts DEF Values
<1>5. Values(kept) \subseteq panes
  BY <1>3
<1>6. Page!ToSet(kept) = Values(kept)
  BY DEF Page!ToSet, Values
<1>7. U \in PlacesIn(all)
  BY <1>4, LenProperties DEF PlacesIn
<1> HIDE DEF kept, all, panes
<1>8. new \in Seq(P) /\ Values(new) = {all[i] : i \in U} /\ Distinct(new)
  BY <1>4, <1>7, KeptValues
<1>9. {all[i] : i \in U} = panes \ Values(kept)
  BY <1>4, <1>6 DEF Values
<1> HIDE DEF new, U
<1>10. kept \o new \in Seq(P)
  BY <1>3, <1>8, JoinValues
<1>11. n \in Engines
  <2>1. e.collapsed \in SUBSET P /\ e.max \in P \union {None}
    BY EngineFields
  <2> QED
    BY <1>1, <1>10, <2>1 DEF Engines
<1>12. n.list = e.list /\ n.collapsed = e.collapsed /\ n.max = e.max /\ n.order = kept \o new
  BY <1>1
<1> HIDE DEF n
<1>13. ASSUME Distinct(e.order) PROVE Ordered(n)
  <2>1. Values(kept) \intersect Values(new) = {} /\ Distinct(kept)
    BY <1>3, <1>8, <1>9, <1>13
  <2>2. Distinct(kept \o new) /\ Values(kept \o new) = Values(kept) \union Values(new)
    BY <1>3, <1>8, <2>1, JoinValues
  <2>3. Values(kept \o new) = panes
    BY <1>5, <1>8, <1>9, <2>2
  <2> QED
    BY <1>12, <2>2, <2>3 DEF Ordered, Values, panes
<1> QED
  BY <1>11, <1>12, <1>13 DEF n

(* An order that is right stays. *)
LEMMA NormalStays ==
    ASSUME NEW e \in Engines, Ordered(e)
    PROVE  Page!Normal(e) = e
<1> DEFINE P == Page!Panes
           panes == Page!PanesOf(e.list)
           T == {k \in DOMAIN e.order : e.order[k] \in panes}
           kept == Page!Kept(e.order, T)
           all == Page!FirstPanes(e.list)
           U == {k \in DOMAIN all : all[k] \notin Page!ToSet(kept)}
<1>1. e.list \in Seq(Inds) /\ e.order \in Seq(P)
  BY EngineFields
<1>2. DOMAIN e.order = 1 .. Len(e.order) /\ Values(e.order) = panes
  BY <1>1, LenProperties DEF Ordered, Values
<1>3. T = 1 .. Len(e.order)
  BY <1>2 DEF Values
<1>4. kept = e.order
  BY <1>1, <1>3, KeptAll
<1>5. all \in Seq(P) /\ Values(all) = panes
  BY <1>1, FirstPanesFacts DEF Values
<1>6. Page!ToSet(kept) = panes
  BY <1>2, <1>4 DEF Page!ToSet, Values
<1>7. U = {}
  <2> HIDE DEF kept, all, panes
  <2> QED
    BY <1>5, <1>6 DEF Values
<1>8. Page!Kept(all, U) = <<>>
  BY <1>5, <1>7, KeptNone
<1>9. Page!Normal(e) = [e EXCEPT !.order = kept \o Page!Kept(all, U)]
  BY DEF Page!Normal
<1> HIDE DEF kept, all, U
<1>10. kept \o Page!Kept(all, U) = e.order
  BY <1>1, <1>4, <1>8, ConcatEmptySeq
<1>11. [e EXCEPT !.order = e.order] = e
  BY EngineFields
<1> QED
  BY <1>9, <1>10, <1>11

-----------------------------------------------------------------------------
(* What the operations of the engine preserve.                             *)

LEMMA GoodFields ==
    ASSUME NEW e \in GoodEngines
    PROVE  /\ e \in Engines /\ e.list \in Lists /\ Ordered(e)
           /\ e.list \in Seq(Inds) /\ e.order \in Seq(Page!Panes)
           /\ e.collapsed \in SUBSET Page!Panes /\ e.max \in Page!Panes \union {None}
           /\ Distinct(e.order) /\ Values(e.order) = Page!PanesOf(e.list)
<1>1. e \in Engines /\ e.list \in Lists /\ Ordered(e)
  BY DEF GoodEngines
<1> QED
  BY <1>1, EngineFields DEF Ordered, Values

LEMMA Normalized ==
    ASSUME NEW l \in Lists, NEW o \in Seq(Page!Panes), Distinct(o),
           NEW c \in SUBSET Page!Panes, NEW m \in Page!Panes \union {None}
    PROVE  LET n == Page!Normal([list |-> l, order |-> o, collapsed |-> c, max |-> m])
           IN  n \in GoodEngines /\ n.list = l /\ n.collapsed = c /\ n.max = m
<1> DEFINE e == [list |-> l, order |-> o, collapsed |-> c, max |-> m]
           n == Page!Normal(e)
<1>1. l \in Seq(Inds)
  BY DEF Lists
<1>2. e \in Engines
  BY <1>1 DEF Engines
<1>3. e.list = l /\ e.order = o /\ e.collapsed = c /\ e.max = m
  OBVIOUS
<1> HIDE DEF e
<1>4. /\ n \in Engines /\ n.list = l /\ n.collapsed = c /\ n.max = m
      /\ Ordered(n)
  BY <1>2, <1>3, NormalFacts
<1> QED
  BY <1>4 DEF GoodEngines, e

(* t takes each of its members from another place of list. *)
Drawn(t, list, at) ==
    /\ \A k \in DOMAIN t : at[k] \in DOMAIN list /\ t[k] = list[at[k]]
    /\ \A k, l \in DOMAIN t : at[k] = at[l] => k = l

LEMMA DrawnIsList ==
    ASSUME NEW list \in Lists, NEW t \in Seq(Inds), NEW at, Drawn(t, list, at)
    PROVE  t \in Lists
<1>1. Apart(list) /\ Once(list, "volume") /\ Once(list, "score")
  BY DEF Lists
<1>2. Apart(t)
  BY <1>1 DEF Apart, Drawn
<1>3. Once(t, "volume") /\ Once(t, "score")
  BY <1>1 DEF Once, Drawn
<1> QED
  BY <1>2, <1>3 DEF Lists

LEMMA KeptList ==
    ASSUME NEW list \in Lists, NEW T \in PlacesIn(list)
    PROVE  LET t == Page!Kept(list, T)
           IN  /\ t \in Lists /\ Len(t) <= Len(list) /\ Len(t) \in Nat
               /\ Values(t) = {list[i] : i \in T}
<1> DEFINE t == Page!Kept(list, T)
           at == KeptAt(T)
<1>1. list \in Seq(Inds)
  BY DEF Lists
<1>2. /\ t \in Seq(Inds) /\ Len(t) <= Len(list)
      /\ \A k \in DOMAIN t : at[k] \in T /\ t[k] = list[at[k]]
      /\ \A k, l \in DOMAIN t : at[k] = at[l] => k = l
  BY <1>1, KeptFacts
<1>3. T \subseteq DOMAIN list
  BY <1>1, LenProperties DEF PlacesIn
<1>4. Values(t) = {list[i] : i \in T}
  BY <1>1, KeptValues
<1> HIDE DEF t, at
<1>5. Drawn(t, list, at)
  BY <1>2, <1>3 DEF Drawn
<1>6. t \in Lists
  BY <1>2, <1>5, DrawnIsList
<1> QED
  BY <1>2, <1>4, <1>6, LenProperties DEF t

(* t differs from list in what neither identifies nor names. *)
Recast(t, list) ==
    DOMAIN t = DOMAIN list
    /\ \A i \in DOMAIN list : t[i].id = list[i].id /\ t[i].name = list[i].name

LEMMA RecastIsList ==
    ASSUME NEW list \in Lists, NEW t \in Seq(Inds), Recast(t, list)
    PROVE  t \in Lists
<1>1. Apart(list) /\ Once(list, "volume") /\ Once(list, "score")
  BY DEF Lists
<1>2. Apart(t)
  BY <1>1 DEF Apart, Recast
<1>3. Once(t, "volume") /\ Once(t, "score")
  BY <1>1 DEF Once, Recast
<1> QED
  BY <1>2, <1>3 DEF Lists

LEMMA GetFacts ==
    ASSUME NEW list \in Lists, NEW i \in DOMAIN list
    PROVE  Page!Has(list, list[i].id) /\ Page!Get(list, list[i].id) = list[i]
<1>1. \A j \in DOMAIN list : list[j].id = list[i].id => j = i
  BY DEF Lists, Apart
<1>2. Page!ToSet(list) = {list[j] : j \in DOMAIN list}
  BY DEF Page!ToSet
<1>3. list[i] \in Page!ToSet(list)
  BY <1>2
<1>4. \A ind \in Page!ToSet(list) : ind.id = list[i].id => ind = list[i]
  BY <1>1, <1>2
<1>5. Page!Get(list, list[i].id) = list[i]
  BY <1>3, <1>4 DEF Page!Get
<1> QED
  BY <1>5 DEF Page!Has, Page!IdsOf

LEMMA HasGives ==
    ASSUME NEW list \in Lists, NEW id, Page!Has(list, id)
    PROVE  \E i \in DOMAIN list : list[i].id = id /\ Page!Get(list, id) = list[i]
<1>1. PICK i \in DOMAIN list : list[i].id = id
  BY DEF Page!Has, Page!IdsOf
<1> QED
  BY <1>1, GetFacts

Seen(ind, visible) == [id |-> ind.id, name |-> ind.name, pane |-> ind.pane,
                        visible |-> visible]

(* An engine whose list is recast without a move between panes.            *)
LEMMA RecastIsGood ==
    ASSUME NEW e \in GoodEngines, NEW t \in Seq(Inds), Recast(t, e.list),
           \A i \in DOMAIN t : t[i].pane = e.list[i].pane
    PROVE  /\ [e EXCEPT !.list = t] \in GoodEngines
           /\ [e EXCEPT !.list = t].list = t
<1>1. e \in Engines /\ e.list \in Lists /\ Ordered(e)
  BY GoodFields
<1> DEFINE n == [e EXCEPT !.list = t]
<1>2. n \in Engines /\ n.list = t /\ n.order = e.order
  BY <1>1 DEF Engines
<1> HIDE DEF n
<1>3. t \in Lists
  BY <1>1, RecastIsList
<1>4. Page!PanesOf(t) = Page!PanesOf(e.list)
  BY DEF Page!PanesOf, Recast
<1>5. Ordered(n)
  BY <1>1, <1>2, <1>4 DEF Ordered
<1> QED
  BY <1>2, <1>3, <1>5 DEF GoodEngines, n

LEMMA PutFacts ==
    ASSUME NEW list \in Seq(Inds), NEW ind \in Inds
    PROVE  LET t == Page!Put(list, ind)
           IN  /\ t \in Seq(Inds) /\ DOMAIN t = DOMAIN list /\ Len(t) = Len(list)
               /\ \A i \in DOMAIN list :
                    t[i] = IF list[i].id = ind.id THEN ind ELSE list[i]
<1> DEFINE t == Page!Put(list, ind)
           put(i) == IF list[i].id = ind.id THEN ind ELSE list[i]
<1>1. Len(list) \in Nat /\ DOMAIN list = 1 .. Len(list) /\ \A i \in DOMAIN list : list[i] \in Inds
  BY Items
<1>2. t = [i \in 1 .. Len(list) |-> put(i)]
  BY <1>1 DEF Page!Put
<1>3. \A i \in 1 .. Len(list) : put(i) \in Inds
  BY <1>1
<1> HIDE DEF put
<1>4. t \in Seq(Inds) /\ Len(t) = Len(list) /\ DOMAIN t = 1 .. Len(list)
  BY <1>1, <1>2, <1>3
<1>5. \A i \in DOMAIN list : t[i] = put(i)
  BY <1>1, <1>2
<1> QED
  BY <1>1, <1>4, <1>5 DEF put

LEMMA SetVisibilityFacts ==
    ASSUME NEW e \in GoodEngines, NEW id, NEW visible \in BOOLEAN
    PROVE  LET n == Page!SetVisibility(e, id, visible)
           IN  /\ n \in GoodEngines
               /\ n.collapsed = e.collapsed /\ n.max = e.max /\ n.order = e.order
               /\ DOMAIN n.list = DOMAIN e.list /\ Len(n.list) = Len(e.list)
               /\ \A i \in DOMAIN e.list :
                    n.list[i] = IF e.list[i].id = id THEN Seen(e.list[i], visible)
                                ELSE e.list[i]
<1> DEFINE n == Page!SetVisibility(e, id, visible)
<1>1. e \in Engines /\ e.list \in Lists /\ e.list \in Seq(Inds)
  BY GoodFields
<1>2. CASE ~Page!Has(e.list, id)
  <2>1. n = e
    BY <1>2 DEF Page!SetVisibility
  <2>2. \A i \in DOMAIN e.list : e.list[i].id # id
    BY <1>2 DEF Page!Has, Page!IdsOf
  <2> QED
    BY <2>1, <2>2
<1>3. CASE Page!Has(e.list, id)
  <2>1. PICK i \in DOMAIN e.list : e.list[i].id = id /\ Page!Get(e.list, id) = e.list[i]
    BY <1>1, <1>3, HasGives
  <2> DEFINE ind == [Page!Get(e.list, id) EXCEPT !.visible = visible]
             t == Page!Put(e.list, ind)
  <2>2. /\ ind = Seen(e.list[i], visible) /\ ind \in Inds /\ ind.id = id
        /\ ind.name = e.list[i].name /\ ind.pane = e.list[i].pane
    <3>1. e.list[i] \in Inds
      BY <1>1, Items
    <3> QED
      BY <2>1, <3>1 DEF Inds, Seen
  <2>3. n = [e EXCEPT !.list = t]
    BY <1>3 DEF Page!SetVisibility
  <2> HIDE DEF ind
  <2>4. /\ t \in Seq(Inds) /\ DOMAIN t = DOMAIN e.list /\ Len(t) = Len(e.list)
        /\ \A j \in DOMAIN e.list : t[j] = IF e.list[j].id = ind.id THEN ind ELSE e.list[j]
    BY <1>1, <2>2, PutFacts
  <2>5. \A j \in DOMAIN e.list : e.list[j].id = id => j = i
    BY <1>1, <2>1 DEF Lists, Apart
  <2> HIDE DEF t
  <2>6. \A j \in DOMAIN e.list :
            t[j] = IF e.list[j].id = id THEN Seen(e.list[j], visible) ELSE e.list[j]
    BY <2>2, <2>4, <2>5
  <2>7. Recast(t, e.list) /\ \A j \in DOMAIN t : t[j].pane = e.list[j].pane
    <3>1. \A j \in DOMAIN e.list :
            /\ Seen(e.list[j], visible).id = e.list[j].id
            /\ Seen(e.list[j], visible).name = e.list[j].name
            /\ Seen(e.list[j], visible).pane = e.list[j].pane
      BY DEF Seen
    <3>2. \A j \in DOMAIN e.list : /\ t[j].id = e.list[j].id /\ t[j].name = e.list[j].name
                                   /\ t[j].pane = e.list[j].pane
      BY <2>6, <3>1, Zenon
    <3> QED
      BY <2>4, <3>2 DEF Recast
  <2>8. [e EXCEPT !.list = t] \in GoodEngines /\ [e EXCEPT !.list = t].list = t
    BY <2>4, <2>7, RecastIsGood
  <2>9. n.collapsed = e.collapsed /\ n.max = e.max /\ n.order = e.order
    BY <1>1, <2>3 DEF Engines
  <2> QED
    BY <2>3, <2>4, <2>6, <2>8, <2>9
<1> QED
  BY <1>2, <1>3

LEMMA RemoveIndicatorFacts ==
    ASSUME NEW e \in GoodEngines, NEW id
    PROVE  LET n == Page!RemoveIndicator(e, id)
           IN  n \in GoodEngines /\ Len(n.list) <= Len(e.list)
<1> DEFINE T == {i \in DOMAIN e.list : e.list[i].id # id}
           l == Page!Kept(e.list, T)
           n == Page!RemoveIndicator(e, id)
<1>1. /\ e \in Engines /\ e.list \in Lists /\ e.list \in Seq(Inds)
      /\ e.order \in Seq(Page!Panes) /\ Distinct(e.order)
      /\ e.collapsed \in SUBSET Page!Panes /\ e.max \in Page!Panes \union {None}
  BY GoodFields
<1>2. T \in PlacesIn(e.list)
  BY <1>1, LenProperties DEF PlacesIn
<1>3. l \in Lists /\ Len(l) <= Len(e.list)
  BY <1>1, <1>2, KeptList
<1>4. n = Page!Normal([e EXCEPT !.list = l])
  BY DEF Page!RemoveIndicator
<1> HIDE DEF l, T
<1>5. [e EXCEPT !.list = l] = [list |-> l, order |-> e.order, collapsed |-> e.collapsed,
                               max |-> e.max]
  BY <1>1, EngineFields
<1>6. n \in GoodEngines /\ n.list = l
  BY <1>1, <1>3, <1>4, <1>5, Normalized
<1> QED
  BY <1>3, <1>6

LEMMA SetIndicatorPaneFacts ==
    ASSUME NEW e \in GoodEngines, NEW id, NEW pane \in Page!Panes \union {Main}
    PROVE  LET n == Page!SetIndicatorPane(e, id, pane)
           IN  n \in GoodEngines /\ Len(n.list) = Len(e.list)
<1> DEFINE n == Page!SetIndicatorPane(e, id, pane)
<1>1. /\ e \in Engines /\ e.list \in Lists /\ e.list \in Seq(Inds)
      /\ e.order \in Seq(Page!Panes) /\ Distinct(e.order)
      /\ e.collapsed \in SUBSET Page!Panes /\ e.max \in Page!Panes \union {None}
  BY GoodFields
<1>2. CASE ~Page!Has(e.list, id) \/ Page!Get(e.list, id).pane = pane
  BY <1>2 DEF Page!SetIndicatorPane
<1>3. CASE Page!Has(e.list, id) /\ Page!Get(e.list, id).pane # pane
  <2>1. PICK i \in DOMAIN e.list : e.list[i].id = id /\ Page!Get(e.list, id) = e.list[i]
    BY <1>1, <1>3, HasGives
  <2> DEFINE ind == [Page!Get(e.list, id) EXCEPT !.pane = pane]
             t == Page!Put(e.list, ind)
  <2>2. ind \in Inds /\ ind.id = id /\ ind.name = e.list[i].name
    <3>1. e.list[i] \in Inds
      BY <1>1, Items
    <3> QED
      BY <2>1, <3>1 DEF Inds
  <2>3. n = Page!Normal([e EXCEPT !.list = t])
    BY <1>3 DEF Page!SetIndicatorPane
  <2> HIDE DEF ind
  <2>4. /\ t \in Seq(Inds) /\ DOMAIN t = DOMAIN e.list /\ Len(t) = Len(e.list)
        /\ \A j \in DOMAIN e.list : t[j] = IF e.list[j].id = ind.id THEN ind ELSE e.list[j]
    BY <1>1, <2>2, PutFacts
  <2>5. \A j \in DOMAIN e.list : e.list[j].id = id => j = i
    BY <1>1, <2>1 DEF Lists, Apart
  <2> HIDE DEF t
  <2>6. Recast(t, e.list)
    BY <2>1, <2>2, <2>4, <2>5 DEF Recast
  <2>7. t \in Lists
    BY <1>1, <2>4, <2>6, RecastIsList
  <2>8. [e EXCEPT !.list = t] = [list |-> t, order |-> e.order, collapsed |-> e.collapsed,
                                 max |-> e.max]
    BY <1>1, EngineFields
  <2>9. n \in GoodEngines /\ n.list = t
    BY <1>1, <2>3, <2>7, <2>8, Normalized
  <2> QED
    BY <2>4, <2>9
<1> QED
  BY <1>2, <1>3

LEMMA SwappedFacts ==
    ASSUME NEW S, NEW s \in Seq(S), NEW i \in 1 .. Len(s), NEW j \in 1 .. Len(s)
    PROVE  LET t == Page!Swapped(s, i, j)
           IN  /\ t \in Seq(S) /\ Len(t) = Len(s) /\ DOMAIN t = DOMAIN s
               /\ t[i] = s[j] /\ t[j] = s[i]
               /\ \A k \in DOMAIN s : k # i /\ k # j => t[k] = s[k]
               /\ Values(t) = Values(s)
               /\ Distinct(s) => Distinct(t)
<1> DEFINE t == Page!Swapped(s, i, j)
<1>1. Len(s) \in Nat /\ DOMAIN s = 1 .. Len(s) /\ s \in [1 .. Len(s) -> S]
  BY LenProperties
<1>2. t = [s EXCEPT ![i] = s[j], ![j] = s[i]]
  BY DEF Page!Swapped
<1>3. t \in [1 .. Len(s) -> S]
  BY <1>1, <1>2
<1>4. t \in Seq(S) /\ Len(t) = Len(s) /\ DOMAIN t = DOMAIN s
  BY <1>1, <1>3
<1>5. t[i] = s[j] /\ t[j] = s[i] /\ \A k \in DOMAIN s : k # i /\ k # j => t[k] = s[k]
  BY <1>1, <1>2
<1> HIDE DEF t
<1>6. Values(t) = Values(s)
  BY <1>4, <1>5 DEF Values
<1>7. Distinct(s) => Distinct(t)
  BY <1>4, <1>5 DEF Distinct
<1> QED
  BY <1>4, <1>5, <1>6, <1>7 DEF t

LEMMA SwappedList ==
    ASSUME NEW list \in Lists, NEW i \in 1 .. Len(list), NEW j \in 1 .. Len(list)
    PROVE  LET t == Page!Swapped(list, i, j)
           IN  t \in Lists /\ Len(t) = Len(list) /\ Values(t) = Values(list)
<1> DEFINE t == Page!Swapped(list, i, j)
           at == [k \in DOMAIN list |-> IF k = i THEN j ELSE IF k = j THEN i ELSE k]
<1>1. list \in Seq(Inds)
  BY DEF Lists
<1>2. DOMAIN list = 1 .. Len(list)
  BY <1>1, LenProperties
<1>3. /\ t \in Seq(Inds) /\ Len(t) = Len(list) /\ DOMAIN t = DOMAIN list
      /\ t[i] = list[j] /\ t[j] = list[i]
      /\ \A k \in DOMAIN list : k # i /\ k # j => t[k] = list[k]
      /\ Values(t) = Values(list)
  BY <1>1, SwappedFacts
<1> HIDE DEF t
<1>4. Drawn(t, list, at)
  BY <1>2, <1>3 DEF Drawn
<1>5. t \in Lists
  BY <1>3, <1>4, DrawnIsList
<1> QED
  BY <1>3, <1>5 DEF t

(* The panes of a list are those of its members. *)
LEMMA PanesOfValues ==
    ASSUME NEW s, NEW t, Values(s) = Values(t)
    PROVE  Page!PanesOf(s) = Page!PanesOf(t)
<1>1. \A l : Page!PanesOf(l) = {ind.pane : ind \in Values(l)} \ {Main}
  BY DEF Page!PanesOf, Values
<1> QED
  BY <1>1

LEMMA MoveIndicatorFacts ==
    ASSUME NEW e \in GoodEngines, NEW id, NEW d \in {-1, 1}
    PROVE  LET n == Page!MoveIndicator(e, id, d)
           IN  n \in GoodEngines /\ Len(n.list) = Len(e.list)
<1> DEFINE n == Page!MoveIndicator(e, id, d)
           i == CHOOSE k \in DOMAIN e.list : e.list[k].id = id
           t == Page!Swapped(e.list, i, i + d)
<1>1. e \in Engines /\ e.list \in Lists /\ e.list \in Seq(Inds) /\ Ordered(e)
  BY GoodFields
<1>2. CASE ~(Page!Has(e.list, id) /\ i + d \in DOMAIN e.list)
  <2>1. n = e
    BY <1>2 DEF Page!MoveIndicator
  <2> QED
    BY <2>1
<1>3. CASE Page!Has(e.list, id) /\ i + d \in DOMAIN e.list
  <2>1. i \in DOMAIN e.list
    BY <1>3 DEF Page!Has, Page!IdsOf
  <2>2. n = [e EXCEPT !.list = t]
    BY <1>3 DEF Page!MoveIndicator
  <2> DEFINE j == i + d
  <2>3. i \in 1 .. Len(e.list) /\ j \in 1 .. Len(e.list)
    BY <1>1, <1>3, <2>1, LenProperties
  <2>4. t = Page!Swapped(e.list, i, j)
    OBVIOUS
  <2> HIDE DEF i, j, t
  <2>5. t \in Lists /\ Len(t) = Len(e.list) /\ Values(t) = Values(e.list)
    BY <1>1, <2>3, <2>4, SwappedList
  <2>6. Page!PanesOf(t) = Page!PanesOf(e.list)
    BY <2>5, PanesOfValues
  <2>7. n \in Engines /\ n.list = t /\ n.order = e.order
    BY <1>1, <2>2, <2>5 DEF Engines, Lists
  <2> HIDE DEF n
  <2>8. Ordered(n)
    BY <1>1, <2>6, <2>7 DEF Ordered
  <2> QED
    BY <2>5, <2>7, <2>8 DEF GoodEngines, n
<1> QED
  BY <1>2, <1>3

LEMMA RemovePaneFacts ==
    ASSUME NEW e \in GoodEngines, NEW pane \in Page!Panes
    PROVE  LET n == Page!RemovePane(e, pane)
           IN  /\ n \in GoodEngines /\ Len(n.list) <= Len(e.list)
               /\ Values(n.list) = {ind \in Values(e.list) : ind.pane # pane}
<1> DEFINE n == Page!RemovePane(e, pane)
           T == {i \in DOMAIN e.list : e.list[i].pane # pane}
           U == {k \in DOMAIN e.order : e.order[k] # pane}
           l == Page!Kept(e.list, T)
           o == Page!Kept(e.order, U)
<1>1. /\ e \in Engines /\ e.list \in Lists /\ e.list \in Seq(Inds)
      /\ e.order \in Seq(Page!Panes) /\ Distinct(e.order)
      /\ Values(e.order) = Page!PanesOf(e.list)
      /\ e.collapsed \in SUBSET Page!Panes /\ e.max \in Page!Panes \union {None}
  BY GoodFields
<1>2. T \in PlacesIn(e.list) /\ U \in PlacesIn(e.order)
  BY <1>1, LenProperties DEF PlacesIn
<1>3. l \in Lists /\ Len(l) <= Len(e.list) /\ Values(l) = {e.list[i] : i \in T}
  BY <1>1, <1>2, KeptList
<1>4. o \in Seq(Page!Panes) /\ Values(o) = {e.order[k] : k \in U} /\ Distinct(o)
  BY <1>1, <1>2, KeptValues
<1>5. n = [list |-> l, order |-> o, collapsed |-> e.collapsed \ {pane},
           max |-> IF e.max = pane THEN None ELSE e.max]
  BY DEF Page!RemovePane
<1>6. {e.list[i] : i \in T} = {ind \in Values(e.list) : ind.pane # pane}
  BY DEF Values
<1>7. {e.order[k] : k \in U} = Values(e.order) \ {pane}
  BY DEF Values
<1> HIDE DEF l, o, T, U
<1>8. n \in Engines /\ n.list = l /\ n.order = o
  <2>1. l \in Seq(Inds)
    BY <1>3 DEF Lists
  <2> QED
    BY <1>1, <1>4, <1>5, <2>1 DEF Engines
<1>9. \A s : Page!PanesOf(s) = {ind.pane : ind \in Values(s)} \ {Main}
  BY DEF Page!PanesOf, Values
<1>10. Page!PanesOf(l) = Page!PanesOf(e.list) \ {pane}
  BY <1>3, <1>6, <1>9
<1> HIDE DEF n
<1>11. Ordered(n)
  BY <1>1, <1>4, <1>7, <1>8, <1>10 DEF Ordered, Values
<1> QED
  BY <1>3, <1>6, <1>8, <1>11 DEF GoodEngines, n

LEMMA SetSubPaneStateFacts ==
    ASSUME NEW e \in GoodEngines, NEW s \in SubStates
    PROVE  LET n == Page!SetSubPaneState(e, s)
           IN  /\ n \in GoodEngines /\ n.list = e.list
               /\ n.collapsed = s.collapsed /\ n.max = s.max
<1>1. e.list \in Lists
  BY GoodFields
<1>2. /\ s.order \in Seq(Page!Panes) /\ Distinct(s.order)
      /\ s.collapsed \in SUBSET Page!Panes /\ s.max \in Page!Panes \union {None}
  BY DEF SubStates
<1> DEFINE l == e.list
           o == s.order
           c == s.collapsed
           m == s.max
<1>3. Page!SetSubPaneState(e, s)
      = Page!Normal([list |-> l, order |-> o, collapsed |-> c, max |-> m])
  BY DEF Page!SetSubPaneState
<1> HIDE DEF l, o, c, m
<1>4. /\ Page!SetSubPaneState(e, s) \in GoodEngines /\ Page!SetSubPaneState(e, s).list = l
      /\ Page!SetSubPaneState(e, s).collapsed = c /\ Page!SetSubPaneState(e, s).max = m
  <2>1. /\ l \in Lists /\ o \in Seq(Page!Panes) /\ Distinct(o)
        /\ c \in SUBSET Page!Panes /\ m \in Page!Panes \union {None}
    BY <1>1, <1>2 DEF l, o, c, m
  <2> QED
    BY <1>3, <2>1, Normalized
<1> QED
  BY <1>4 DEF l, c, m

LEMMA SubPaneStateFacts ==
    ASSUME NEW e \in GoodEngines
    PROVE  /\ Page!SubPaneState(e) \in SubStates
           /\ Page!SubPaneState(e) = [order |-> e.order, collapsed |-> e.collapsed,
                                      max |-> e.max]
<1>1. /\ e \in Engines /\ Ordered(e) /\ Distinct(e.order) /\ e.order \in Seq(Page!Panes)
      /\ e.collapsed \in SUBSET Page!Panes /\ e.max \in Page!Panes \union {None}
  BY GoodFields
<1>2. Page!Normal(e) = e
  BY <1>1, NormalStays
<1>3. Page!SubPaneState(e) = [order |-> e.order, collapsed |-> e.collapsed, max |-> e.max]
  BY <1>2 DEF Page!SubPaneState
<1> QED
  BY <1>1, <1>3 DEF SubStates

LEMMA FlagsAreGood ==
    ASSUME NEW e \in GoodEngines, NEW pane \in Page!Panes
    PROVE  /\ Page!CollapsePane(e, pane) \in GoodEngines
           /\ Page!CollapsePane(e, pane) = [list |-> e.list, order |-> e.order,
                  collapsed |-> e.collapsed \union {pane}, max |-> e.max]
           /\ Page!ExpandPane(e, pane) \in GoodEngines
           /\ Page!ExpandPane(e, pane) = [list |-> e.list, order |-> e.order,
                  collapsed |-> e.collapsed \ {pane}, max |-> e.max]
           /\ \A m \in Page!Panes \union {None} :
                /\ Page!MaximizePane(e, m) \in GoodEngines
                /\ Page!MaximizePane(e, m) = [list |-> e.list, order |-> e.order,
                                              collapsed |-> e.collapsed, max |-> m]
<1>1. /\ e \in Engines /\ e.list \in Lists /\ Ordered(e) /\ e.list \in Seq(Inds)
      /\ e.order \in Seq(Page!Panes)
      /\ e.collapsed \in SUBSET Page!Panes /\ e.max \in Page!Panes \union {None}
  BY GoodFields
<1>2. ASSUME NEW c \in SUBSET Page!Panes, NEW m \in Page!Panes \union {None}
      PROVE  [list |-> e.list, order |-> e.order, collapsed |-> c, max |-> m] \in GoodEngines
  <2> DEFINE n == [list |-> e.list, order |-> e.order, collapsed |-> c, max |-> m]
  <2>1. n \in Engines /\ n.list = e.list /\ n.order = e.order
    BY <1>1 DEF Engines
  <2> HIDE DEF n
  <2>2. Ordered(n)
    BY <1>1, <2>1 DEF Ordered
  <2> QED
    BY <1>1, <2>1, <2>2 DEF GoodEngines, n
<1>3. /\ Page!CollapsePane(e, pane) = [list |-> e.list, order |-> e.order,
             collapsed |-> e.collapsed \union {pane}, max |-> e.max]
      /\ Page!ExpandPane(e, pane) = [list |-> e.list, order |-> e.order,
             collapsed |-> e.collapsed \ {pane}, max |-> e.max]
      /\ \A m \in Page!Panes \union {None} : 
            Page!MaximizePane(e, m) = [list |-> e.list, order |-> e.order,
                                       collapsed |-> e.collapsed, max |-> m]
  <2>1. e = [list |-> e.list, order |-> e.order, collapsed |-> e.collapsed, max |-> e.max]
    BY <1>1, EngineFields
  <2> DEFINE l == e.list
             o == e.order
             c == e.collapsed
             x == e.max
  <2>2. \A d, m : /\ [e EXCEPT !.collapsed = d]
                    = [list |-> l, order |-> o, collapsed |-> d, max |-> x]
                 /\ [e EXCEPT !.max = m]
                    = [list |-> l, order |-> o, collapsed |-> c, max |-> m]
    <3>1. e = [list |-> l, order |-> o, collapsed |-> c, max |-> x]
      BY <2>1
    <3> HIDE DEF l, o, c, x
    <3> QED
      BY <3>1
  <2> QED
    BY <2>2 DEF Page!CollapsePane, Page!ExpandPane, Page!MaximizePane
<1>4. /\ e.collapsed \union {pane} \in SUBSET Page!Panes
      /\ e.collapsed \ {pane} \in SUBSET Page!Panes
  BY <1>1
<1> QED
  BY <1>1, <1>2, <1>3, <1>4

(* Which places of order have a pane that shows an indicator of list.      *)
ShowsAt(order, list) ==
    {k \in DOMAIN order : \E ind \in Values(list) : ind.pane = order[k] /\ ind.visible}

LEMMA ShownPanesFacts ==
    ASSUME NEW e \in GoodEngines
    PROVE  LET T == ShowsAt(e.order, e.list)
               shown == Page!ShownPanes(e)
           IN  /\ T \in PlacesIn(e.order) /\ shown = Page!Kept(e.order, T)
               /\ shown \in Seq(Page!Panes) /\ Distinct(shown)
               /\ Values(shown) = {e.order[k] : k \in T}
<1> DEFINE T == ShowsAt(e.order, e.list)
           U == {k \in DOMAIN e.order :
                   \E i \in DOMAIN e.list : e.list[i].pane = e.order[k] /\ e.list[i].visible}
<1>1. /\ e \in Engines /\ Ordered(e) /\ e.list \in Seq(Inds)
      /\ e.order \in Seq(Page!Panes) /\ Distinct(e.order)
  BY GoodFields
<1>2. Page!Normal(e) = e
  BY <1>1, NormalStays
<1>3. T = U
  BY DEF ShowsAt, Values
<1>4. Page!ShownPanes(e) = Page!Kept(e.order, U)
  BY <1>2 DEF Page!ShownPanes
<1>5. T \in PlacesIn(e.order)
  BY <1>1, LenProperties DEF ShowsAt, PlacesIn
<1> HIDE DEF T, U
<1>6. Page!ShownPanes(e) = Page!Kept(e.order, T)
  BY <1>3, <1>4
<1>7. /\ Page!Kept(e.order, T) \in Seq(Page!Panes) /\ Distinct(Page!Kept(e.order, T))
      /\ Values(Page!Kept(e.order, T)) = {e.order[k] : k \in T}
  BY <1>1, <1>5, KeptValues
<1> QED
  BY <1>5, <1>6, <1>7 DEF T

LEMMA LayoutFacts ==
    ASSUME NEW e \in GoodEngines
    PROVE  /\ DOMAIN Page!Layout(e) = DOMAIN Page!ShownPanes(e)
           /\ \A k \in DOMAIN Page!ShownPanes(e) :
                LET p == Page!ShownPanes(e)[k]
                IN  /\ p \in Page!Panes /\ p \in Values(Page!ShownPanes(e))
                    /\ Page!Layout(e)[k] = [pane |-> p, collapsed |-> p \in e.collapsed,
                                            max |-> e.max = p]
           /\ \A p \in Values(Page!ShownPanes(e)) :
                \E ind \in Values(e.list) : ind.pane = p
<1> DEFINE shown == Page!ShownPanes(e)
           T == ShowsAt(e.order, e.list)
<1>1. /\ shown \in Seq(Page!Panes) /\ Values(shown) = {e.order[k] : k \in T}
  BY ShownPanesFacts
<1>2. \A k \in DOMAIN shown : shown[k] \in Page!Panes
  BY <1>1, LenProperties, ElementOfSeq
<1>3. Page!Layout(e) = [k \in DOMAIN shown |->
                           [pane |-> shown[k], collapsed |-> shown[k] \in e.collapsed,
                            max |-> e.max = shown[k]]]
  BY DEF Page!Layout
<1>4. \A p \in Values(shown) : \E ind \in Values(e.list) : ind.pane = p
  BY <1>1 DEF ShowsAt
<1> HIDE DEF shown
<1>5. \A k \in DOMAIN shown : shown[k] \in Values(shown)
  BY DEF Values
<1>6. /\ DOMAIN Page!Layout(e) = DOMAIN shown
      /\ \A k \in DOMAIN shown :
            Page!Layout(e)[k] = [pane |-> shown[k], collapsed |-> shown[k] \in e.collapsed,
                                 max |-> e.max = shown[k]]
  BY <1>3
<1> QED
  BY <1>2, <1>4, <1>5, <1>6 DEF shown

(* The keys by which movePane sorts are of one indicator each.             *)
LEMMA KeysApart ==
    ASSUME NEW n \in Nat, NEW a \in Nat, NEW b \in Nat, NEW i \in 1 .. n, NEW j \in 1 .. n,
           a * (n + 1) + i = b * (n + 1) + j
    PROVE  i = j
<1> DEFINE m == n + 1
<1>1. m \in Nat /\ i < m /\ j < m /\ i > 0 /\ j > 0 /\ i \in Int /\ j \in Int
  OBVIOUS
<1>2. a * m + i = b * m + j
  OBVIOUS
<1> HIDE DEF m
<1>3. ASSUME NEW x \in Nat, NEW y \in Nat, x < y PROVE x * m + m <= y * m
  <2>1. PICK z \in Nat : y = x + 1 + z
    <3>1. y - x - 1 \in Nat /\ y = x + 1 + (y - x - 1)
      BY <1>3
    <3> QED
      BY <3>1
  <2>2. y * m = x * m + m + z * m
    BY <1>1, <2>1
  <2>3. z * m \in Nat /\ x * m \in Nat
    BY <1>1
  <2> QED
    BY <1>1, <2>2, <2>3
<1>4. a * m \in Nat /\ b * m \in Nat
  BY <1>1
<1>5. ~(a < b)
  BY <1>1, <1>2, <1>3, <1>4
<1>6. ~(b < a)
  BY <1>1, <1>2, <1>3, <1>4
<1>7. a = b
  BY <1>5, <1>6
<1> QED
  BY <1>1, <1>2, <1>4, <1>7

(* A list in the order of keys, all of it. *)
LEMMA InOrderList ==
    ASSUME NEW list \in Lists, NEW key, IsKey(key, Len(list)), DOMAIN key = DOMAIN list
    PROVE  LET t == Page!InOrder(list, key)
           IN  t \in Lists /\ Len(t) = Len(list) /\ Values(t) = Values(list)
<1> DEFINE t == Page!InOrder(list, key)
           at == KeyAt(key)
<1>1. list \in Seq(Inds)
  BY DEF Lists
<1>2. Len(list) \in Nat /\ DOMAIN list = 1 .. Len(list)
  BY <1>1, LenProperties
<1>3. /\ t \in Seq(Inds) /\ Len(t) = Cardinality(DOMAIN key)
      /\ \A k \in DOMAIN t : at[k] \in DOMAIN key /\ t[k] = list[at[k]]
      /\ \A i \in DOMAIN key : \E k \in DOMAIN t : at[k] = i
      /\ \A k, l \in DOMAIN t : at[k] = at[l] => k = l
  BY <1>1, InOrderFacts
<1>4. Cardinality(DOMAIN key) = Len(list)
  BY <1>2, CountTo
<1> HIDE DEF t, at
<1>5. Drawn(t, list, at)
  BY <1>3 DEF Drawn
<1>6. t \in Lists
  BY <1>3, <1>5, DrawnIsList
<1>7. Values(t) = Values(list)
  <2>1. ASSUME NEW k \in DOMAIN t PROVE \E i \in DOMAIN list : t[k] = list[i]
    BY <1>3
  <2>2. ASSUME NEW i \in DOMAIN list PROVE \E k \in DOMAIN t : t[k] = list[i]
    <3>1. PICK k \in DOMAIN t : at[k] = i
      BY <1>3
    <3> QED
      BY <1>3, <3>1
  <2>3. Values(t) \subseteq Values(list)
    <3> SUFFICES ASSUME NEW x \in Values(t) PROVE x \in Values(list)
      OBVIOUS
    <3>1. PICK k \in DOMAIN t : x = t[k]
      BY DEF Values
    <3>2. PICK i \in DOMAIN list : x = list[i]
      BY <2>1, <3>1
    <3> QED
      BY <3>2 DEF Values
  <2>4. Values(list) \subseteq Values(t)
    <3> SUFFICES ASSUME NEW x \in Values(list) PROVE x \in Values(t)
      OBVIOUS
    <3>1. PICK i \in DOMAIN list : x = list[i]
      BY DEF Values
    <3>2. PICK k \in DOMAIN t : x = t[k]
      BY <2>2, <3>1
    <3> QED
      BY <3>2 DEF Values
  <2> QED
    BY <2>3, <2>4
<1> QED
  BY <1>3, <1>4, <1>6, <1>7 DEF t

(* Where s has p. *)
Spot(s, p) == CHOOSE k \in DOMAIN s : s[k] = p
LEMMA SpotFacts ==
    ASSUME NEW s, NEW p \in Values(s)
    PROVE  Spot(s, p) \in DOMAIN s /\ s[Spot(s, p)] = p
  BY DEF Spot, Values

(* t has the members of s at i and j in each other's place. *)
Turned(t, s, i, j) ==
    /\ t \in Seq(Page!Panes) /\ DOMAIN t = DOMAIN s /\ t[i] = s[j] /\ t[j] = s[i]
    /\ \A k \in DOMAIN s : k # i /\ k # j => t[k] = s[k]

LEMMA SwappedIs ==
    ASSUME NEW s \in Seq(Page!Panes), NEW i \in 1 .. Len(s), NEW j \in 1 .. Len(s)
    PROVE  Turned(Page!Swapped(s, i, j), s, i, j)
<1>1. LET t == Page!Swapped(s, i, j)
      IN  /\ t \in Seq(Page!Panes) /\ DOMAIN t = DOMAIN s /\ t[i] = s[j] /\ t[j] = s[i]
          /\ \A k \in DOMAIN s : k # i /\ k # j => t[k] = s[k]
  BY SwappedFacts
<1> QED
  BY <1>1 DEF Turned

(* Two panes that are shown change places: the panes are shown otherwise.  *)
LEMMA SwapIsSeen ==
    ASSUME NEW e \in GoodEngines, NEW n \in GoodEngines,
           NEW a \in 1 .. Len(e.order), NEW b \in 1 .. Len(e.order), a # b,
           a \in ShowsAt(e.order, e.list), b \in ShowsAt(e.order, e.list),
           n.order = Page!Swapped(e.order, a, b), Values(n.list) = Values(e.list)
    PROVE  Page!Layout(n) # Page!Layout(e)
<1> DEFINE o == e.order
           r == n.order
           T == ShowsAt(o, e.list)
           at == KeptAt(T)
<1>1. o \in Seq(Page!Panes) /\ Distinct(o) /\ DOMAIN o = 1 .. Len(o)
  BY GoodFields, LenProperties
<1>2. /\ DOMAIN r = DOMAIN o /\ r[a] = o[b] /\ r[b] = o[a]
      /\ \A k \in DOMAIN o : k # a /\ k # b => r[k] = o[k]
      /\ r \in Seq(Page!Panes)
  <2>1. r = Page!Swapped(o, a, b) /\ a \in 1 .. Len(o) /\ b \in 1 .. Len(o)
    OBVIOUS
  <2> HIDE DEF o, r
  <2> QED
    <3>1. Turned(r, o, a, b)
      BY <1>1, <2>1, SwappedIs
    <3> QED
      BY <3>1 DEF Turned
<1>3. ShowsAt(r, n.list) = T
  <2> DEFINE seen(p) == \E ind \in Values(e.list) : ind.pane = p /\ ind.visible
  <2>1. T = {k \in DOMAIN o : seen(o[k])}
    BY DEF ShowsAt
  <2>2. ShowsAt(r, n.list) = {k \in DOMAIN r : seen(r[k])}
    BY DEF ShowsAt
  <2>3. a \in T /\ b \in T
    OBVIOUS
  <2> HIDE DEF seen, o, r, T
  <2>4. seen(o[a]) /\ seen(o[b])
    BY <2>1, <2>3
  <2>5. \A k \in DOMAIN o : seen(r[k]) <=> seen(o[k])
    BY <1>2, <2>4
  <2> QED
    BY <1>2, <2>1, <2>2, <2>5
<1>4. /\ T \in PlacesIn(o) /\ Page!ShownPanes(e) = Page!Kept(o, T)
      /\ ShowsAt(r, n.list) \in PlacesIn(r)
      /\ Page!ShownPanes(n) = Page!Kept(r, ShowsAt(r, n.list))
  BY ShownPanesFacts
<1> DEFINE shown == Page!ShownPanes(e)
           after == Page!ShownPanes(n)
<1>5. a \in T
  OBVIOUS
<1>6. a \in DOMAIN o /\ b \in DOMAIN o
  BY <1>1
<1> HIDE DEF o, r, T, at, shown, after
<1>7. /\ Len(shown) = Cardinality(T)
      /\ \A k \in DOMAIN shown : at[k] \in T /\ shown[k] = o[at[k]]
      /\ \A i \in T : \E k \in DOMAIN shown : at[k] = i
      /\ shown \in Seq(Page!Panes)
  BY <1>1, <1>4, KeptFacts DEF at, shown
<1>8. /\ Len(after) = Cardinality(T)
      /\ \A k \in DOMAIN after : after[k] = r[at[k]]
      /\ after \in Seq(Page!Panes)
  <2>1. T \in PlacesIn(r) /\ after = Page!Kept(r, T)
    BY <1>3, <1>4 DEF after
  <2> QED
    BY <1>2, <2>1, KeptFacts DEF at
<1>9. DOMAIN shown = DOMAIN after
  BY <1>7, <1>8, LenProperties
<1>10. PICK k \in DOMAIN shown : at[k] = a
  BY <1>5, <1>7
<1>11. shown[k] = o[a] /\ after[k] = o[b]
  BY <1>2, <1>7, <1>8, <1>9, <1>10
<1>12. shown[k] # after[k]
  BY <1>1, <1>6, <1>11 DEF Distinct
<1>13. Page!Layout(e)[k].pane = shown[k] /\ Page!Layout(n)[k].pane = after[k]
  <2>1. k \in DOMAIN Page!ShownPanes(e) /\ k \in DOMAIN Page!ShownPanes(n)
    BY <1>9, <1>10 DEF shown, after
  <2>2. /\ Page!Layout(e)[k] = [pane |-> Page!ShownPanes(e)[k],
             collapsed |-> Page!ShownPanes(e)[k] \in e.collapsed,
             max |-> e.max = Page!ShownPanes(e)[k]]
        /\ Page!Layout(n)[k] = [pane |-> Page!ShownPanes(n)[k],
             collapsed |-> Page!ShownPanes(n)[k] \in n.collapsed,
             max |-> n.max = Page!ShownPanes(n)[k]]
    BY <2>1, LayoutFacts
  <2> QED
    BY <2>2 DEF shown, after
<1> QED
  BY <1>12, <1>13

LEMMA MovePaneFacts ==
    ASSUME NEW e \in GoodEngines, NEW pane, NEW d \in {-1, 1}
    PROVE  LET n == Page!MovePane(e, pane, d)
           IN  /\ n \in GoodEngines
               /\ Len(n.list) = Len(e.list) /\ Values(n.list) = Values(e.list)
               /\ n = e \/ Page!Layout(n) # Page!Layout(e)
<1> DEFINE n == Page!MovePane(e, pane, d)
           shown == Page!ShownPanes(e)
           i == Spot(shown, pane)
           j == i + d
           turned == Page!Swapped(shown, i, j)
           place(p) == IF p = Main THEN 0
                       ELSE IF p \in Page!ToSet(shown) THEN Spot(turned, p)
                       ELSE Len(shown) + 1
           key == [k \in DOMAIN e.list |-> place(e.list[k].pane) * (Len(e.list) + 1) + k]
           a == Spot(e.order, pane)
           b == Spot(e.order, shown[j])
<1>1. /\ e \in Engines /\ Ordered(e) /\ e.list \in Lists /\ e.list \in Seq(Inds)
      /\ e.order \in Seq(Page!Panes) /\ Distinct(e.order)
  BY GoodFields
<1>2. Page!Normal(e) = e
  BY <1>1, NormalStays
<1>3. n = IF pane \notin Page!ToSet(shown) \/ j \notin DOMAIN shown THEN e
          ELSE [e EXCEPT !.order = Page!Swapped(e.order, a, b),
                         !.list = Page!InOrder(e.list, key)]
  BY <1>2 DEF Page!MovePane, Spot
<1>4. CASE pane \notin Page!ToSet(shown) \/ j \notin DOMAIN shown
  BY <1>3, <1>4
<1>5. CASE pane \in Page!ToSet(shown) /\ j \in DOMAIN shown
  <2>0. Page!ToSet(shown) = Values(shown)
    BY DEF Page!ToSet, Values
  <2>1. n = [e EXCEPT !.order = Page!Swapped(e.order, a, b),
                      !.list = Page!InOrder(e.list, key)]
    BY <1>3, <1>5
  <2>2. i \in DOMAIN shown /\ shown[i] = pane
    BY <1>5, <2>0, SpotFacts
  <2>3. /\ shown \in Seq(Page!Panes) /\ Distinct(shown)
        /\ Values(shown) = {e.order[k] : k \in ShowsAt(e.order, e.list)}
    BY ShownPanesFacts
  <2>4. DOMAIN shown = 1 .. Len(shown) /\ Len(shown) \in Nat
    BY <2>3, LenProperties
  <2>5. j \in DOMAIN shown /\ i # j
    BY <1>5, <2>2, <2>4
  <2> HIDE DEF i, j, shown
  <2>6. shown[i] # shown[j]
    BY <2>2, <2>3, <2>5 DEF Distinct
  <2>7. ASSUME NEW k \in DOMAIN shown
        PROVE  /\ Spot(e.order, shown[k]) \in 1 .. Len(e.order)
               /\ e.order[Spot(e.order, shown[k])] = shown[k]
               /\ Spot(e.order, shown[k]) \in ShowsAt(e.order, e.list)
    <3>1. PICK x \in ShowsAt(e.order, e.list) : e.order[x] = shown[k]
      BY <2>3 DEF Values
    <3>2. x \in DOMAIN e.order
      BY <3>1 DEF ShowsAt
    <3>3. shown[k] \in Values(e.order)
      BY <3>1, <3>2 DEF Values
    <3>4. Spot(e.order, shown[k]) \in DOMAIN e.order /\ e.order[Spot(e.order, shown[k])] = shown[k]
      BY <3>3, SpotFacts
    <3>5. Spot(e.order, shown[k]) = x
      BY <1>1, <3>1, <3>2, <3>4 DEF Distinct
    <3> QED
      BY <1>1, <3>1, <3>4, <3>5, LenProperties
  <2>8. /\ a \in 1 .. Len(e.order) /\ b \in 1 .. Len(e.order) /\ a # b
        /\ a \in ShowsAt(e.order, e.list) /\ b \in ShowsAt(e.order, e.list)
    BY <2>2, <2>5, <2>6, <2>7
  <2>9. /\ turned \in Seq(Page!Panes) /\ Values(turned) = Values(shown)
    <3>1. i \in 1 .. Len(shown) /\ j \in 1 .. Len(shown)
      BY <2>2, <2>4, <2>5
    <3> QED
      BY <2>3, <3>1, SwappedFacts
  <2>10. DOMAIN turned \subseteq Nat
    <3> HIDE DEF turned
    <3> QED
      BY <2>9, LenProperties
  <2>11. \A p : place(p) \in Nat
    <3> SUFFICES ASSUME NEW p PROVE place(p) \in Nat
      OBVIOUS
    <3> HIDE DEF turned
    <3>1. p \in Page!ToSet(shown) => Spot(turned, p) \in Nat
      BY <2>0, <2>9, <2>10, SpotFacts
    <3> QED
      BY <2>4, <3>1
  <2> HIDE DEF place
  <2>12. IsKey(key, Len(e.list)) /\ DOMAIN key = DOMAIN e.list
    <3> DEFINE m == Len(e.list)
    <3>1. m \in Nat /\ DOMAIN e.list = 1 .. m
      BY <1>1, LenProperties
    <3>2. DOMAIN key = DOMAIN e.list
      OBVIOUS
    <3>3. \A k \in DOMAIN e.list : key[k] = place(e.list[k].pane) * (m + 1) + k
      OBVIOUS
    <3> HIDE DEF key, m
    <3>4. ASSUME NEW k \in DOMAIN e.list PROVE key[k] \in Nat
      <4>1. place(e.list[k].pane) \in Nat /\ k \in Nat
        BY <2>11, <3>1
      <4>2. place(e.list[k].pane) * (m + 1) \in Nat
        BY <3>1, <4>1
      <4> QED
        BY <3>3, <4>1, <4>2
    <3>5. ASSUME NEW k \in DOMAIN e.list, NEW l \in DOMAIN e.list, key[k] = key[l]
          PROVE  k = l
      <4> DEFINE x == place(e.list[k].pane)
                 y == place(e.list[l].pane)
      <4>1. x \in Nat /\ y \in Nat /\ k \in 1 .. m /\ l \in 1 .. m
        BY <2>11, <3>1
      <4>2. x * (m + 1) + k = y * (m + 1) + l
        BY <3>3, <3>5
      <4> HIDE DEF x, y
      <4> QED
        BY <3>1, <4>1, <4>2, KeysApart
    <3> QED
      BY <3>1, <3>2, <3>4, <3>5 DEF IsKey, m
  <2> DEFINE l == Page!InOrder(e.list, key)
             o == Page!Swapped(e.order, a, b)
  <2> HIDE DEF key, a, b
  <2>13. l \in Lists /\ Len(l) = Len(e.list) /\ Values(l) = Values(e.list)
    BY <1>1, <2>12, InOrderList
  <2>14. o \in Seq(Page!Panes) /\ Distinct(o) /\ Values(o) = Values(e.order)
    BY <1>1, <2>8, SwappedFacts
  <2>15. /\ n \in Engines /\ n.list = l /\ n.order = o
    BY <1>1, <2>1, <2>13, <2>14 DEF Engines, Lists
  <2>16. o = Page!Swapped(e.order, a, b)
    OBVIOUS
  <2> HIDE DEF l, o, n
  <2>17. Page!PanesOf(l) = Page!PanesOf(e.list)
    BY <2>13, PanesOfValues
  <2>18. n \in GoodEngines
    BY <1>1, <2>13, <2>14, <2>15, <2>17 DEF GoodEngines, Ordered, Values
  <2>19. Page!Layout(n) # Page!Layout(e)
    BY <2>8, <2>13, <2>15, <2>16, <2>18, SwapIsSeen
  <2> QED
    BY <2>13, <2>15, <2>18, <2>19 DEF n
<1> QED
  BY <1>4, <1>5

-----------------------------------------------------------------------------
(* Indicators are added. *)
Unlike(list, id, name) ==
    /\ \A i \in DOMAIN list : list[i].id # id
    /\ name \in {"volume", "score"} => \A i \in DOMAIN list : list[i].name # name

LEMMA AppendIs ==
    ASSUME NEW list \in Seq(Inds), NEW ind \in Inds
    PROVE  LET t == Append(list, ind)
           IN  /\ t \in Seq(Inds) /\ Len(t) = Len(list) + 1
               /\ DOMAIN t = 1 .. Len(list) + 1 /\ DOMAIN list = 1 .. Len(list)
               /\ \A i \in DOMAIN list : i \in DOMAIN t /\ t[i] = list[i]
               /\ t[Len(list) + 1] = ind
               /\ \A i \in DOMAIN t : i \in DOMAIN list \/ i = Len(list) + 1
<1>1. Len(list) \in Nat /\ DOMAIN list = 1 .. Len(list)
  BY LenProperties
<1>2. /\ Append(list, ind) \in Seq(Inds) /\ Len(Append(list, ind)) = Len(list) + 1
      /\ \A i \in 1 .. Len(list) : Append(list, ind)[i] = list[i]
      /\ Append(list, ind)[Len(list) + 1] = ind
  BY AppendProperties
<1>3. DOMAIN Append(list, ind) = 1 .. Len(list) + 1
  BY <1>2, LenProperties
<1> QED
  BY <1>1, <1>2, <1>3

LEMMA AppendIsList ==
    ASSUME NEW list \in Lists, NEW ind \in Inds, Unlike(list, ind.id, ind.name)
    PROVE  Append(list, ind) \in Lists
<1> DEFINE t == Append(list, ind)
           m == Len(list) + 1
<1>1. list \in Seq(Inds) /\ Apart(list) /\ Once(list, "volume") /\ Once(list, "score")
  BY DEF Lists
<1>2. /\ t \in Seq(Inds)
      /\ \A i \in DOMAIN list : i \in DOMAIN t /\ t[i] = list[i]
      /\ t[m] = ind
      /\ \A i \in DOMAIN t : i \in DOMAIN list \/ i = m
  BY <1>1, AppendIs
<1> HIDE DEF t, m
<1>3. Apart(t)
  BY <1>1, <1>2 DEF Apart, Unlike
<1>4. Once(t, "volume")
  BY <1>1, <1>2 DEF Once, Unlike
<1>5. Once(t, "score")
  BY <1>1, <1>2 DEF Once, Unlike
<1> QED
  BY <1>2, <1>3, <1>4, <1>5 DEF Lists, t

HasVolume(list) == \E i \in DOMAIN list : list[i].name = "volume"
Ind(id, name, pane, visible) ==
    [id |-> id, name |-> name, pane |-> pane, visible |-> visible]

LEMMA IndFields ==
    \A id, name, pane, visible :
        /\ Ind(id, name, pane, visible).id = id /\ Ind(id, name, pane, visible).name = name
        /\ Ind(id, name, pane, visible).pane = pane
        /\ Ind(id, name, pane, visible).visible = visible
  BY DEF Ind

LEMMA AddIs ==
    ASSUME NEW e, NEW id, NEW name, NEW pane
    PROVE  Page!AddIndicator(e, id, name, pane) =
             IF name = "volume" /\ HasVolume(e.list)
             THEN [e EXCEPT !.list = [i \in DOMAIN @ |-> IF @[i].name = "volume"
                       THEN [@[i] EXCEPT !.visible = TRUE] ELSE @[i]]]
             ELSE Page!Normal([e EXCEPT !.list = Append(@, Ind(id, name, pane, TRUE))])
<1>1. (\E ind \in Page!ToSet(e.list) : ind.name = "volume") <=> HasVolume(e.list)
  BY DEF Page!ToSet, HasVolume
<1> QED
  BY <1>1 DEF Page!AddIndicator, Ind

LEMMA AddFresh ==
    ASSUME NEW e \in GoodEngines, NEW id \in Nat, NEW name \in Names,
           NEW pane \in Page!Panes \union {Main}, Unlike(e.list, id, name)
    PROVE  LET n == Page!AddIndicator(e, id, name, pane)
           IN  /\ n \in GoodEngines
               /\ n.list = Append(e.list, Ind(id, name, pane, TRUE))
               /\ n.collapsed = e.collapsed /\ n.max = e.max
<1> DEFINE ind == Ind(id, name, pane, TRUE)
           l == Append(e.list, ind)
           n == Page!AddIndicator(e, id, name, pane)
<1>1. /\ e \in Engines /\ e.list \in Lists /\ e.list \in Seq(Inds)
      /\ e.order \in Seq(Page!Panes) /\ Distinct(e.order)
      /\ e.collapsed \in SUBSET Page!Panes /\ e.max \in Page!Panes \union {None}
  BY GoodFields
<1>2. ind \in Inds /\ ind.name = name /\ ind.id = id
  BY DEF Ind, Inds
<1>3. ~(name = "volume" /\ HasVolume(e.list))
  BY <1>2 DEF Unlike, HasVolume
<1>4. n = Page!Normal([e EXCEPT !.list = l])
  BY <1>3, AddIs
<1>5. l \in Lists
  BY <1>1, <1>2, AppendIsList
<1> HIDE DEF l, ind
<1>6. [e EXCEPT !.list = l] = [list |-> l, order |-> e.order, collapsed |-> e.collapsed,
                               max |-> e.max]
  BY <1>1, EngineFields
<1>7. n = Page!Normal([list |-> l, order |-> e.order, collapsed |-> e.collapsed,
                        max |-> e.max])
  BY <1>4, <1>6
<1> HIDE DEF n
<1>8. n \in GoodEngines /\ n.list = l /\ n.collapsed = e.collapsed /\ n.max = e.max
  BY <1>1, <1>5, <1>7, Normalized
<1> QED
  BY <1>8 DEF l, ind, n

(* A second volume indicator: the first is visible. *)
LEMMA AddVolume ==
    ASSUME NEW e \in GoodEngines, NEW id, NEW pane, HasVolume(e.list)
    PROVE  LET n == Page!AddIndicator(e, id, "volume", pane)
           IN  n \in GoodEngines /\ Len(n.list) = Len(e.list)
<1> DEFINE n == Page!AddIndicator(e, id, "volume", pane)
           put(i) == IF e.list[i].name = "volume" THEN [e.list[i] EXCEPT !.visible = TRUE]
                     ELSE e.list[i]
           t == [i \in DOMAIN e.list |-> put(i)]
<1>1. e \in Engines /\ e.list \in Seq(Inds)
  BY GoodFields
<1>2. n = [e EXCEPT !.list = t]
  BY AddIs
<1>3. DOMAIN e.list = 1 .. Len(e.list) /\ Len(e.list) \in Nat
      /\ \A i \in DOMAIN e.list : e.list[i] \in Inds
  BY <1>1, Items
<1>4. \A i \in DOMAIN e.list : /\ put(i) \in Inds /\ put(i).id = e.list[i].id
                               /\ put(i).name = e.list[i].name /\ put(i).pane = e.list[i].pane
  BY <1>3 DEF Inds
<1> HIDE DEF put
<1>5. t \in Seq(Inds) /\ Len(t) = Len(e.list) /\ DOMAIN t = DOMAIN e.list
  BY <1>3, <1>4
<1>6. \A i \in DOMAIN e.list : t[i] = put(i)
  OBVIOUS
<1> HIDE DEF t
<1>7. Recast(t, e.list) /\ \A i \in DOMAIN t : t[i].pane = e.list[i].pane
  BY <1>4, <1>5, <1>6 DEF Recast
<1>8. [e EXCEPT !.list = t] \in GoodEngines /\ [e EXCEPT !.list = t].list = t
  BY <1>5, <1>7, RecastIsGood
<1> QED
  BY <1>2, <1>5, <1>8

(* Any engine, with a list that may repeat itself. *)
Roughs == {e \in Engines : Distinct(e.order)}

LEMMA AddAny ==
    ASSUME NEW e \in Roughs, NEW id \in Nat, NEW name \in Names,
           NEW pane \in Page!Panes \union {Main}
    PROVE  Page!AddIndicator(e, id, name, pane) \in Roughs
<1> DEFINE n == Page!AddIndicator(e, id, name, pane)
<1>1. e \in Engines /\ Distinct(e.order) /\ e.list \in Seq(Inds)
  BY EngineFields DEF Roughs
<1>2. CASE name = "volume" /\ HasVolume(e.list)
  <2> DEFINE put(i) == IF e.list[i].name = "volume" THEN [e.list[i] EXCEPT !.visible = TRUE]
                       ELSE e.list[i]
             t == [i \in DOMAIN e.list |-> put(i)]
  <2>1. n = [e EXCEPT !.list = t]
    BY <1>2, AddIs
  <2>2. DOMAIN e.list = 1 .. Len(e.list) /\ Len(e.list) \in Nat
        /\ \A i \in DOMAIN e.list : e.list[i] \in Inds
    BY <1>1, Items
  <2>3. \A i \in DOMAIN e.list : put(i) \in Inds
    BY <2>2 DEF Inds
  <2> HIDE DEF put
  <2>4. t \in Seq(Inds)
    BY <2>2, <2>3
  <2> HIDE DEF t
  <2> QED
    BY <1>1, <2>1, <2>4 DEF Engines, Roughs
<1>3. CASE ~(name = "volume" /\ HasVolume(e.list))
  <2> DEFINE ind == Ind(id, name, pane, TRUE)
             x == [e EXCEPT !.list = Append(e.list, ind)]
  <2>1. n = Page!Normal(x)
    BY <1>3, AddIs
  <2>2. ind \in Inds
    BY DEF Ind, Inds
  <2>3. Append(e.list, ind) \in Seq(Inds)
    BY <1>1, <2>2, AppendProperties
  <2>4. x \in Engines /\ Distinct(x.order)
    BY <1>1, <2>3 DEF Engines
  <2> HIDE DEF x, n
  <2>5. n \in Engines /\ Ordered(n)
    BY <2>1, <2>4, NormalFacts
  <2> QED
    BY <2>5 DEF Roughs, Ordered, n
<1> QED
  BY <1>2, <1>3

LEMMA HideAny ==
    ASSUME NEW e \in Roughs, NEW id, NEW visible \in BOOLEAN
    PROVE  Page!SetVisibility(e, id, visible) \in Roughs
<1> DEFINE n == Page!SetVisibility(e, id, visible)
<1>1. e \in Engines /\ Distinct(e.order) /\ e.list \in Seq(Inds)
  BY EngineFields DEF Roughs
<1>2. CASE ~Page!Has(e.list, id)
  BY <1>2 DEF Page!SetVisibility
<1>3. CASE Page!Has(e.list, id)
  <2> DEFINE ind == [Page!Get(e.list, id) EXCEPT !.visible = visible]
             t == Page!Put(e.list, ind)
  <2>1. Page!Get(e.list, id) \in Inds
    <3>1. PICK i \in DOMAIN e.list : e.list[i].id = id
      BY <1>3 DEF Page!Has, Page!IdsOf
    <3>2. Page!ToSet(e.list) = {e.list[j] : j \in DOMAIN e.list}
      BY DEF Page!ToSet
    <3>3. Page!Get(e.list, id) \in Page!ToSet(e.list)
      BY <3>1, <3>2 DEF Page!Get
    <3>4. \A j \in DOMAIN e.list : e.list[j] \in Inds
      BY <1>1, Items
    <3> QED
      BY <3>2, <3>3, <3>4
  <2>2. ind \in Inds
    BY <2>1 DEF Inds
  <2>3. n = [e EXCEPT !.list = t]
    BY <1>3 DEF Page!SetVisibility
  <2> HIDE DEF ind
  <2>4. t \in Seq(Inds)
    BY <1>1, <2>2, PutFacts
  <2> HIDE DEF t
  <2> QED
    BY <1>1, <2>3, <2>4 DEF Engines, Roughs
<1> QED
  BY <1>2, <1>3

LEMMA AddSavedFacts ==
    ASSUME NEW e \in GoodEngines, NEW id \in Nat, NEW ind \in Page!SavedIndicator,
           Unlike(e.list, id, ind.name)
    PROVE  LET n == Page!AddSaved(e, id, ind)
           IN  /\ n \in GoodEngines /\ Len(n.list) = Len(e.list) + 1
               /\ \A i \in 1 .. Len(e.list) : n.list[i] = e.list[i]
               /\ n.list[Len(e.list) + 1] = Ind(id, ind.name, ind.pane, ind.visible)
               /\ n.collapsed = e.collapsed /\ n.max = e.max
<1> DEFINE new == Ind(id, ind.name, ind.pane, TRUE)
           added == Page!AddIndicator(e, id, ind.name, ind.pane)
           n == Page!AddSaved(e, id, ind)
           m == Len(e.list) + 1
<1>1. ind.name \in Names /\ ind.pane \in Page!Panes \union {Main} /\ ind.visible \in BOOLEAN
  BY DEF Page!SavedIndicator
<1>2. /\ added \in GoodEngines /\ added.list = Append(e.list, new)
      /\ added.collapsed = e.collapsed /\ added.max = e.max
  BY <1>1, AddFresh
<1>3. new \in Inds /\ new.id = id
  BY <1>1 DEF Ind, Inds
<1>4. n = IF ind.visible THEN added ELSE Page!SetVisibility(added, id, FALSE)
  BY DEF Page!AddSaved
<1>5. e.list \in Seq(Inds) /\ Len(e.list) \in Nat
  BY GoodFields, LenProperties
<1> HIDE DEF added
<1>6. /\ Len(added.list) = m
      /\ DOMAIN added.list = 1 .. m /\ DOMAIN e.list = 1 .. Len(e.list)
      /\ \A i \in DOMAIN e.list : added.list[i] = e.list[i]
      /\ added.list[m] = new
  <2> HIDE DEF new
  <2> QED
    BY <1>2, <1>3, <1>5, AppendIs
<1>7. CASE ind.visible
  <2>1. n = added /\ new = Ind(id, ind.name, ind.pane, ind.visible)
    BY <1>1, <1>4, <1>7
  <2> QED
    BY <1>2, <1>6, <2>1
<1>8. CASE ~ind.visible
  <2>1. n = Page!SetVisibility(added, id, FALSE)
    BY <1>4, <1>8
  <2>2. /\ n \in GoodEngines /\ n.collapsed = added.collapsed /\ n.max = added.max
        /\ DOMAIN n.list = DOMAIN added.list /\ Len(n.list) = Len(added.list)
        /\ \A i \in DOMAIN added.list :
              n.list[i] = IF added.list[i].id = id THEN Seen(added.list[i], FALSE)
                          ELSE added.list[i]
    <3> DEFINE off == FALSE
               h == Page!SetVisibility(added, id, off)
    <3>1. added \in GoodEngines /\ off \in BOOLEAN
      BY <1>2
    <3>2. n = h
      BY <2>1
    <3> HIDE DEF off
    <3>3. /\ h \in GoodEngines /\ h.collapsed = added.collapsed /\ h.max = added.max
          /\ DOMAIN h.list = DOMAIN added.list /\ Len(h.list) = Len(added.list)
          /\ \A i \in DOMAIN added.list :
                h.list[i] = IF added.list[i].id = id THEN Seen(added.list[i], off)
                            ELSE added.list[i]
      BY <3>1, SetVisibilityFacts
    <3> HIDE DEF h
    <3> QED
      BY <3>2, <3>3 DEF off
  <2>3. \A i \in 1 .. Len(e.list) : e.list[i].id # id
    BY <1>3, <1>6 DEF Unlike
  <2>4. \A i \in 1 .. Len(e.list) : i \in DOMAIN added.list
    BY <1>5, <1>6
  <2>5. Seen(new, FALSE) = Ind(id, ind.name, ind.pane, ind.visible)
    BY <1>1, <1>8 DEF Seen, Ind
  <2>6. m \in DOMAIN added.list
    BY <1>5, <1>6
  <2> HIDE DEF n, new
  <2>7. n.list[m] = Ind(id, ind.name, ind.pane, ind.visible)
    BY <1>3, <1>6, <2>2, <2>5, <2>6
  <2>8. \A i \in 1 .. Len(e.list) : n.list[i] = e.list[i]
    BY <1>6, <2>2, <2>3, <2>4
  <2> QED
    BY <1>2, <1>6, <2>2, <2>7, <2>8 DEF n
<1> QED
  BY <1>7, <1>8

-----------------------------------------------------------------------------
(* Saved lists are applied (applySerializedIndicators). *)
LEMMA EmptiedFacts ==
    ASSUME NEW e \in GoodEngines
    PROVE  /\ Page!Emptied(e) \in GoodEngines /\ Page!Emptied(e).list = <<>>
           /\ Page!Emptied(e).collapsed = e.collapsed /\ Page!Emptied(e).max = e.max
<1> DEFINE n == Page!Emptied(e)
<1>1. e \in Engines
  BY GoodFields
<1>2. n = [e EXCEPT !.list = <<>>, !.order = <<>>]
  BY DEF Page!Emptied
<1>3. /\ n \in Engines /\ n.list = <<>> /\ n.order = <<>>
      /\ n.collapsed = e.collapsed /\ n.max = e.max
  <2> DEFINE l == e.list
             o == e.order
             c == e.collapsed
             m == e.max
  <2>1. e = [list |-> l, order |-> o, collapsed |-> c, max |-> m]
        /\ c \in SUBSET Page!Panes /\ m \in Page!Panes \union {None}
    BY <1>1, EngineFields
  <2> HIDE DEF l, o, c, m
  <2>2. n = [list |-> <<>>, order |-> <<>>, collapsed |-> c, max |-> m]
    BY <1>2, <2>1
  <2>3. <<>> \in Seq(Inds) /\ <<>> \in Seq(Page!Panes)
    BY EmptySeq
  <2>4. n \in Engines
    <3> DEFINE z == <<>>
    <3>1. /\ n = [list |-> z, order |-> z, collapsed |-> c, max |-> m]
          /\ z \in Seq(Inds) /\ z \in Seq(Page!Panes)
      BY <2>2, <2>3
    <3> HIDE DEF z, n
    <3> QED
      BY <2>1, <3>1 DEF Engines
  <2>5. e.collapsed = c /\ e.max = m
    BY <2>1
  <2> QED
    BY <2>2, <2>4, <2>5
<1> HIDE DEF n
<1>4. n.list \in Lists
  BY <1>3 DEF Lists, Apart, Once
<1>5. Ordered(n)
  BY <1>3 DEF Ordered, Distinct, Page!PanesOf
<1> QED
  BY <1>3, <1>4, <1>5 DEF GoodEngines, n

GrownBy(f, e, s) ==
    /\ f[0] = Page!Emptied(e)
    /\ \A n \in 1 .. Len(s) : f[n] = Page!AddSaved(f[n - 1], n, s[n])

LEMMA SavedItems ==
    ASSUME NEW s \in SavedLists
    PROVE  /\ s \in Seq(Page!SavedIndicator) /\ Len(s) \in Nat /\ DOMAIN s = 1 .. Len(s)
           /\ Once(s, "volume") /\ Once(s, "score")
           /\ \A i \in DOMAIN s : /\ s[i] \in Page!SavedIndicator
                                  /\ s[i].name \in Names /\ s[i].visible \in BOOLEAN
                                  /\ s[i].pane \in Page!Panes \union {Main}
<1>1. s \in Seq(Page!SavedIndicator) /\ Once(s, "volume") /\ Once(s, "score")
  BY DEF SavedLists
<1>2. Len(s) \in Nat /\ DOMAIN s = 1 .. Len(s)
  BY <1>1, LenProperties
<1>3. \A i \in DOMAIN s : s[i] \in Page!SavedIndicator
  BY <1>1, <1>2, ElementOfSeq
<1> QED
  BY <1>1, <1>2, <1>3 DEF Page!SavedIndicator

LEMMA ApplyIs ==
    ASSUME NEW e \in GoodEngines, NEW s \in SavedLists
    PROVE  \E f : GrownBy(f, e, s) /\ Page!Apply(e, s) = f[Len(s)]
<1> DEFINE N == Len(s)
           base == Page!Emptied(e)
           grown(x, n) == Page!AddSaved(x, n, s[n])
           step == [n \in 1 .. N |-> [x \in Roughs |-> grown(x, n)]]
           body(g) == [n \in 0 .. N |-> IF n = 0 THEN base ELSE grown(g[n - 1], n)]
           up == CHOOSE g : g = body(g)
<1>1. N \in Nat
  BY SavedItems
<1>2. base \in Roughs
  BY EmptiedFacts, GoodFields DEF Roughs
<1>3. ASSUME NEW x \in Roughs, NEW n \in 1 .. N PROVE grown(x, n) \in Roughs
  <2> DEFINE name == s[n].name
             pane == s[n].pane
             added == Page!AddIndicator(x, n, name, pane)
  <2>1. name \in Names /\ pane \in Page!Panes \union {Main} /\ n \in Nat
    BY <1>1, SavedItems
  <2>2. grown(x, n) = IF s[n].visible THEN added ELSE Page!SetVisibility(added, n, FALSE)
    BY DEF Page!AddSaved
  <2> HIDE DEF name, pane, grown
  <2>3. added \in Roughs
    BY <2>1, AddAny
  <2> DEFINE off == FALSE
  <2>4. off \in BOOLEAN
    OBVIOUS
  <2> HIDE DEF added, off
  <2>5. Page!SetVisibility(added, n, off) \in Roughs
    BY <2>3, <2>4, HideAny
  <2> QED
    BY <2>2, <2>3, <2>5 DEF off
<1> HIDE DEF grown, base, N
<1>4. step \in Steps(Roughs, N)
  BY <1>3 DEF Steps
<1>5. PICK f : Follows(f, Roughs, N, base, step)
  <2> HIDE DEF step
  <2> QED
    BY <1>1, <1>2, <1>4, Recursion
<1>6. f = body(f)
  <2>1. f \in [0 .. N -> Roughs] /\ f[0] = base
        /\ \A n \in 1 .. N : f[n] = step[n][f[n - 1]]
    BY <1>5 DEF Follows
  <2>2. ASSUME NEW n \in 1 .. N PROVE f[n] = grown(f[n - 1], n)
    <3>1. n - 1 \in 0 .. N
      BY <1>1
    <3>2. f[n - 1] \in Roughs
      BY <2>1, <3>1
    <3>3. step[n][f[n - 1]] = grown(f[n - 1], n)
      BY <3>2
    <3> QED
      BY <2>1, <3>3
  <2>3. \A n \in 0 .. N : f[n] = IF n = 0 THEN base ELSE grown(f[n - 1], n)
    <3> HIDE DEF step
    <3>1. \A n \in 0 .. N : n = 0 \/ n \in 1 .. N
      BY <1>1
    <3> QED
      BY <2>1, <2>2, <3>1
  <2>4. DOMAIN f = 0 .. N /\ f = [n \in DOMAIN f |-> f[n]]
    BY <2>1
  <2> HIDE DEF step
  <2> QED
    BY <2>3, <2>4
<1>7. up = body(up)
  <2> HIDE DEF body
  <2> QED
    BY <1>6
<1> HIDE DEF up
<1>8. /\ up[0] = base
      /\ \A n \in 1 .. N : up[n] = grown(up[n - 1], n)
  <2>1. \A n \in 0 .. N : up[n] = IF n = 0 THEN base ELSE grown(up[n - 1], n)
    BY <1>7
  <2>2. 0 \in 0 .. N /\ \A n \in 1 .. N : n \in 0 .. N /\ n # 0
    BY <1>1
  <2> QED
    BY <2>1, <2>2
<1>9. GrownBy(up, e, s)
  BY <1>8 DEF GrownBy, grown, base, N
<1>10. Page!Apply(e, s) = up[N]
  BY DEF Page!Apply, up, body, grown, base, N
<1> QED
  BY <1>9, <1>10 DEF N

(* What has come of the first n of s. *)
Grown(x, e, s, n) ==
    /\ x \in GoodEngines /\ x.collapsed = e.collapsed /\ x.max = e.max
    /\ Len(x.list) = n
    /\ \A i \in 1 .. n : x.list[i] = Ind(i, s[i].name, s[i].pane, s[i].visible)

LEMMA GrowsOn ==
    ASSUME NEW e, NEW s \in SavedLists, NEW n \in Nat, n + 1 <= Len(s), NEW x, Grown(x, e, s, n)
    PROVE  Grown(Page!AddSaved(x, n + 1, s[n + 1]), e, s, n + 1)
<1> DEFINE ind == s[n + 1]
           m == n + 1
           y == Page!AddSaved(x, m, ind)
<1>1. /\ x \in GoodEngines /\ x.collapsed = e.collapsed /\ x.max = e.max /\ Len(x.list) = n
      /\ \A i \in 1 .. n : x.list[i] = Ind(i, s[i].name, s[i].pane, s[i].visible)
  BY DEF Grown
<1>2. DOMAIN x.list = 1 .. n
  BY <1>1, GoodFields, LenProperties
<1>3. n + 1 \in DOMAIN s /\ \A i \in 1 .. n : i \in DOMAIN s
  BY SavedItems
<1>4. ind \in Page!SavedIndicator
  BY <1>3, SavedItems
<1>5. Unlike(x.list, m, ind.name)
  <2>1. \A i \in 1 .. n : x.list[i].id = i /\ x.list[i].name = s[i].name
    <3> SUFFICES ASSUME NEW i \in 1 .. n PROVE x.list[i].id = i /\ x.list[i].name = s[i].name
      OBVIOUS
    <3>1. x.list[i] = Ind(i, s[i].name, s[i].pane, s[i].visible)
      BY <1>1
    <3> QED
      BY <3>1, IndFields
  <2>2. \A i \in 1 .. n : i # m
    OBVIOUS
  <2>3. Once(s, "volume") /\ Once(s, "score")
    BY SavedItems
  <2>4. ASSUME NEW i \in 1 .. n, ind.name \in {"volume", "score"} PROVE s[i].name # ind.name
    BY <1>3, <2>2, <2>3, <2>4 DEF Once
  <2> HIDE DEF m, ind
  <2> QED
    BY <1>2, <2>1, <2>2, <2>4 DEF Unlike
<1>6. /\ y \in GoodEngines /\ Len(y.list) = m
      /\ \A i \in 1 .. n : y.list[i] = x.list[i]
      /\ y.list[m] = Ind(m, ind.name, ind.pane, ind.visible)
      /\ y.collapsed = x.collapsed /\ y.max = x.max
  <2>1. m \in Nat /\ x \in GoodEngines /\ Len(x.list) = n
    BY <1>1
  <2> HIDE DEF ind, m
  <2>2. /\ y \in GoodEngines /\ Len(y.list) = Len(x.list) + 1
        /\ \A i \in 1 .. Len(x.list) : y.list[i] = x.list[i]
        /\ y.list[Len(x.list) + 1] = Ind(m, ind.name, ind.pane, ind.visible)
        /\ y.collapsed = x.collapsed /\ y.max = x.max
    BY <1>4, <1>5, <2>1, AddSavedFacts
  <2> QED
    BY <2>1, <2>2 DEF m
<1> HIDE DEF ind, y
<1>7. \A i \in 1 .. n + 1 : y.list[i] = Ind(i, s[i].name, s[i].pane, s[i].visible)
  <2>1. \A i \in 1 .. n + 1 : i \in 1 .. n \/ i = n + 1
    OBVIOUS
  <2> QED
    BY <1>1, <1>6, <2>1 DEF ind
<1>8. x.collapsed = e.collapsed /\ x.max = e.max
  BY <1>1
<1>9. Grown(y, e, s, m)
  <2> HIDE DEF m
  <2>1. y \in GoodEngines /\ y.collapsed = e.collapsed /\ y.max = e.max /\ Len(y.list) = m
    BY <1>6, <1>8
  <2>2. \A i \in 1 .. m : y.list[i] = Ind(i, s[i].name, s[i].pane, s[i].visible)
    BY <1>7 DEF m
  <2> QED
    BY <2>1, <2>2 DEF Grown
<1> QED
  BY <1>9 DEF y, ind

LEMMA ApplyGrows ==
    ASSUME NEW e \in GoodEngines, NEW s \in SavedLists
    PROVE  Grown(Page!Apply(e, s), e, s, Len(s))
<1>1. PICK f : GrownBy(f, e, s) /\ Page!Apply(e, s) = f[Len(s)]
  BY ApplyIs
<1>2. Len(s) \in Nat
  BY SavedItems
<1> DEFINE S == {n \in Nat : n <= Len(s) => Grown(f[n], e, s, n)}
<1>3. 0 \in S
  <2>1. f[0] = Page!Emptied(e)
    BY <1>1 DEF GrownBy
  <2>2. Len(<<>>) = 0
    BY EmptySeq
  <2>3. Grown(f[0], e, s, 0)
    BY <2>1, <2>2, EmptiedFacts DEF Grown
  <2> QED
    BY <2>3
<1>4. ASSUME NEW n \in Nat, n \in S PROVE n + 1 \in S
  <2> SUFFICES ASSUME n + 1 <= Len(s) PROVE Grown(f[n + 1], e, s, n + 1)
    OBVIOUS
  <2>1. Grown(f[n], e, s, n)
    BY <1>2, <1>4
  <2>2. n + 1 \in 1 .. Len(s) /\ (n + 1) - 1 = n
    BY <1>2
  <2>3. f[n + 1] = Page!AddSaved(f[n], n + 1, s[n + 1])
    BY <1>1, <2>2 DEF GrownBy
  <2> QED
    BY <2>1, <2>3, GrowsOn
<1> HIDE DEF S
<1>5. Nat \subseteq S
  BY <1>3, <1>4, Induction
<1> QED
  BY <1>1, <1>2, <1>5 DEF S

LEMMA SavedFacts ==
    ASSUME NEW list \in Seq(Inds)
    PROVE  /\ Page!Saved(list) \in Seq(Page!SavedIndicator)
           /\ Len(Page!Saved(list)) = Len(list) /\ DOMAIN Page!Saved(list) = DOMAIN list
           /\ \A i \in DOMAIN list :
                 Page!Saved(list)[i] = [name |-> list[i].name, pane |-> list[i].pane,
                                        visible |-> list[i].visible]
<1> DEFINE sv(i) == [name |-> list[i].name, pane |-> list[i].pane,
                     visible |-> list[i].visible]
<1>1. Page!Saved(list) = [i \in DOMAIN list |-> sv(i)]
  BY DEF Page!Saved
<1>2. Len(list) \in Nat /\ DOMAIN list = 1 .. Len(list)
  BY Items
<1>3. \A i \in DOMAIN list : sv(i) \in Page!SavedIndicator
  BY Items DEF Page!SavedIndicator
<1> HIDE DEF sv
<1>4. /\ Page!Saved(list) \in Seq(Page!SavedIndicator) /\ Len(Page!Saved(list)) = Len(list)
      /\ DOMAIN Page!Saved(list) = DOMAIN list
  BY <1>1, <1>2, <1>3
<1>5. \A i \in DOMAIN list : Page!Saved(list)[i] = sv(i)
  BY <1>1
<1> QED
  BY <1>4, <1>5 DEF sv

LEMMA SavedIsList ==
    ASSUME NEW list \in Lists
    PROVE  Page!Saved(list) \in SavedLists
<1>1. list \in Seq(Inds) /\ Once(list, "volume") /\ Once(list, "score")
  BY DEF Lists
<1> DEFINE s == Page!Saved(list)
<1>2. /\ s \in Seq(Page!SavedIndicator) /\ DOMAIN s = DOMAIN list
      /\ \A i \in DOMAIN list : s[i] = [name |-> list[i].name, pane |-> list[i].pane,
                                         visible |-> list[i].visible]
  BY <1>1, SavedFacts
<1> HIDE DEF s
<1>3. \A i \in DOMAIN list : s[i].name = list[i].name
  BY <1>2
<1>4. Once(s, "volume") /\ Once(s, "score")
  BY <1>1, <1>2, <1>3 DEF Once
<1> QED
  BY <1>2, <1>4 DEF SavedLists, s

(* What is applied is what would be saved. *)
LEMMA ApplyFacts ==
    ASSUME NEW e \in GoodEngines, NEW s \in SavedLists
    PROVE  LET n == Page!Apply(e, s)
           IN  /\ n \in GoodEngines /\ n.collapsed = e.collapsed /\ n.max = e.max
               /\ Len(n.list) = Len(s) /\ Page!Saved(n.list) = s
               /\ \A i \in DOMAIN n.list : n.list[i].id = i
<1> DEFINE n == Page!Apply(e, s)
<1>1. /\ n \in GoodEngines /\ n.collapsed = e.collapsed /\ n.max = e.max
      /\ Len(n.list) = Len(s)
      /\ \A i \in 1 .. Len(s) : n.list[i] = Ind(i, s[i].name, s[i].pane, s[i].visible)
  BY ApplyGrows DEF Grown
<1> HIDE DEF n
<1>2. n.list \in Seq(Inds)
  BY <1>1, GoodFields
<1>3. /\ s \in Seq(Page!SavedIndicator) /\ DOMAIN s = 1 .. Len(s)
      /\ \A i \in DOMAIN s : s[i] \in Page!SavedIndicator
  BY SavedItems
<1>4. DOMAIN n.list = DOMAIN s
  BY <1>1, <1>2, <1>3, LenProperties
<1> DEFINE t == Page!Saved(n.list)
<1>5. /\ t \in Seq(Page!SavedIndicator) /\ DOMAIN t = DOMAIN s /\ Len(t) = Len(s)
      /\ \A i \in DOMAIN s : t[i] = [name |-> n.list[i].name, pane |-> n.list[i].pane,
                                      visible |-> n.list[i].visible]
  BY <1>1, <1>2, <1>4, SavedFacts
<1> HIDE DEF t
<1>6. \A i \in DOMAIN s : t[i] = s[i]
  <2> SUFFICES ASSUME NEW i \in DOMAIN s PROVE t[i] = s[i]
    OBVIOUS
  <2>1. n.list[i] = Ind(i, s[i].name, s[i].pane, s[i].visible)
    BY <1>1, <1>3
  <2>2. t[i] = [name |-> s[i].name, pane |-> s[i].pane, visible |-> s[i].visible]
    BY <1>5, <2>1 DEF Ind
  <2>3. s[i] = [name |-> s[i].name, pane |-> s[i].pane, visible |-> s[i].visible]
    BY <1>3 DEF Page!SavedIndicator
  <2> QED
    BY <2>2, <2>3
<1>7. t = s
  BY <1>3, <1>5, <1>6
<1>8. \A i \in DOMAIN n.list : n.list[i].id = i
  <2> SUFFICES ASSUME NEW i \in DOMAIN n.list PROVE n.list[i].id = i
    OBVIOUS
  <2>1. n.list[i] = Ind(i, s[i].name, s[i].pane, s[i].visible)
    BY <1>1, <1>3, <1>4
  <2> QED
    BY <2>1, IndFields
<1> QED
  BY <1>1, <1>7, <1>8 DEF n, t

-----------------------------------------------------------------------------
(* Ids and panes that are free. *)
LEMMA FewIds ==
    ASSUME NEW list \in Seq(Inds)
    PROVE  /\ IsFiniteSet(Page!IdsOf(list)) /\ Cardinality(Page!IdsOf(list)) \in Nat
           /\ Cardinality(Page!IdsOf(list)) <= Len(list)
<1> DEFINE S == 1 .. Len(list)
           T == Page!IdsOf(list)
           f == [i \in S |-> list[i].id]
<1>1. Len(list) \in Nat /\ DOMAIN list = S
  BY LenProperties
<1>2. IsFiniteSet(S) /\ Cardinality(S) = Len(list)
  BY <1>1, CountTo
<1>3. T = {list[i].id : i \in S}
  BY <1>1 DEF Page!IdsOf
<1>4. f \in Surjection(S, T)
  <2> HIDE DEF S, T
  <2>1. f \in [S -> T] /\ \A t \in T : \E i \in S : f[i] = t
    BY <1>3
  <2> QED
    BY <2>1 DEF Surjection
<1> HIDE DEF S, T, f
<1>5. IsFiniteSet(T) /\ Cardinality(T) <= Cardinality(S)
  BY <1>2, <1>4, FS_Surjection
<1>6. Cardinality(T) \in Nat
  BY <1>5, FS_CardinalityType
<1> QED
  BY <1>2, <1>5, <1>6 DEF T

LEMMA FreshIdFacts ==
    ASSUME NEW e, e.list \in Seq(Inds), Len(e.list) <= MaxIndicators,
           active \in Seq(Inds), Len(active) <= MaxIndicators
    PROVE  Page!FreshId(e) \in Nat /\ \A i \in DOMAIN e.list : e.list[i].id # Page!FreshId(e)
<1> DEFINE A == Page!IdsOf(e.list)
           B == Page!IdsOf(active)
           m == 2 * MaxIndicators + 1
<1>1. /\ IsFiniteSet(A) /\ Cardinality(A) \in Nat /\ Cardinality(A) <= Len(e.list)
      /\ IsFiniteSet(B) /\ Cardinality(B) \in Nat /\ Cardinality(B) <= Len(active)
  BY FewIds
<1>2. Len(e.list) \in Nat /\ Len(active) \in Nat
  BY LenProperties
<1>3. MaxIndicators \in Nat /\ m \in Nat
  BY PageConstants
<1>4. \E n \in 1 .. m : n \notin A \union B
  <2> SUFFICES ASSUME 1 .. m \subseteq A \union B PROVE FALSE
    OBVIOUS
  <2> DEFINE U == A \union B
             I == 1 .. m
  <2>1. IsFiniteSet(I) /\ Cardinality(I) = m
    BY <1>3, CountTo
  <2>2. I \in SUBSET U
    OBVIOUS
  <2> HIDE DEF A, B, I, m
  <2>3. /\ IsFiniteSet(U)
        /\ Cardinality(U) = Cardinality(A) + Cardinality(B) - Cardinality(A \intersect B)
    BY <1>1, FS_Union
  <2>4. Cardinality(A \intersect B) \in Nat
    <3>1. A \intersect B \in SUBSET A
      OBVIOUS
    <3>2. IsFiniteSet(A \intersect B)
      BY <1>1, <3>1, FS_Subset
    <3> QED
      BY <3>2, FS_CardinalityType
  <2> HIDE DEF U
  <2>5. Cardinality(I) <= Cardinality(U)
    BY <2>2, <2>3, FS_Subset
  <2>6. m = 2 * MaxIndicators + 1
    BY DEF m
  <2> QED
    BY <1>1, <1>2, <1>3, <2>1, <2>3, <2>4, <2>5, <2>6
<1>5. Page!FreshId(e) = CHOOSE n \in 1 .. m : n \notin A \union B
  BY DEF Page!FreshId
<1> HIDE DEF A, B
<1>6. Page!FreshId(e) \in 1 .. m /\ Page!FreshId(e) \notin A \union B
  BY <1>4, <1>5
<1>7. Page!FreshId(e) \in Nat
  BY <1>3, <1>6
<1> QED
  BY <1>6, <1>7 DEF A, Page!IdsOf

LEMMA FreshPaneFacts ==
    \A e : Page!FreshPane(e) \in Page!Panes <=> ~(Page!Panes \subseteq Page!UsedPanes(e))
<1> SUFFICES ASSUME NEW e
             PROVE  Page!FreshPane(e) \in Page!Panes
                    <=> ~(Page!Panes \subseteq Page!UsedPanes(e))
  OBVIOUS
<1>1. MaxPanes + 1 \notin Page!Panes
  BY PageConstants DEF Page!Panes
<1>2. Page!FreshPane(e) = IF Page!Panes \subseteq Page!UsedPanes(e) THEN MaxPanes + 1
                          ELSE CHOOSE p \in Page!Panes : p \notin Page!UsedPanes(e)
  BY DEF Page!FreshPane
<1>3. ~(Page!Panes \subseteq Page!UsedPanes(e))
      => (CHOOSE p \in Page!Panes : p \notin Page!UsedPanes(e)) \in Page!Panes
  OBVIOUS
<1> QED
  BY <1>1, <1>2, <1>3

LEMMA RoomIs ==
    \A e : Page!Room(e) <=> \/ Scores(e.list) # {}
                            \/ /\ Len(e.list) < MaxIndicators
                               /\ ~(Page!Panes \subseteq Page!UsedPanes(e))
  BY FreshPaneFacts DEF Page!Room, Page!ToSet, Scores

(* What leaves room still does when nothing more is there. *)
LEMMA RoomKept ==
    ASSUME NEW e, NEW n, Page!Room(e), Len(n.list) \in Nat, Len(e.list) \in Nat,
           Len(n.list) <= Len(e.list), Page!PanesOf(n.list) \subseteq Page!PanesOf(e.list),
           n.collapsed = e.collapsed, n.max = e.max,
           Scores(e.list) # {} => Scores(n.list) # {}
    PROVE  Page!Room(n)
<1>1. Page!UsedPanes(n) \subseteq Page!UsedPanes(e)
  BY DEF Page!UsedPanes
<1>2. MaxIndicators \in Nat
  BY PageConstants
<1>3. CASE Scores(e.list) # {}
  BY <1>3, RoomIs
<1>4. CASE Scores(e.list) = {}
  <2>1. Len(e.list) < MaxIndicators /\ ~(Page!Panes \subseteq Page!UsedPanes(e))
    BY <1>4, RoomIs
  <2>2. Len(n.list) < MaxIndicators /\ ~(Page!Panes \subseteq Page!UsedPanes(n))
    BY <1>1, <1>2, <2>1
  <2> QED
    BY <2>2, RoomIs
<1> QED
  BY <1>3, <1>4

-----------------------------------------------------------------------------
(* The page's list follows the engine's. *)
LEMMA CurrentSelf ==
    ASSUME NEW e, e.list \in Lists, active = e.list
    PROVE  Page!Current(e) = active
<1> DEFINE here(i) == IF Page!Has(e.list, active[i].id) THEN Page!Get(e.list, active[i].id)
                      ELSE active[i]
<1>1. \A i \in DOMAIN active : here(i) = active[i]
  BY GetFacts
<1>2. Page!Current(e) = [i \in DOMAIN active |-> here(i)]
  BY DEF Page!Current
<1> HIDE DEF here
<1>3. active = [i \in DOMAIN active |-> active[i]]
  BY LenProperties DEF Lists
<1> QED
  BY <1>1, <1>2, <1>3

LEMMA CurrentStays ==
    ASSUME NEW e, e.list \in Lists, NEW n, n.list \in Lists, active \in Lists,
           active = Page!Current(e), Values(n.list) \subseteq Values(e.list)
    PROVE  Page!Current(n) = active
<1> DEFINE here(x, i) == IF Page!Has(x.list, active[i].id) THEN Page!Get(x.list, active[i].id)
                         ELSE active[i]
<1>1. \A x : Page!Current(x) = [i \in DOMAIN active |-> here(x, i)]
  BY DEF Page!Current
<1>2. ASSUME NEW i \in DOMAIN active PROVE here(n, i) = active[i]
  <2>1. CASE ~Page!Has(n.list, active[i].id)
    BY <2>1
  <2>2. CASE Page!Has(n.list, active[i].id)
    <3>1. PICK k \in DOMAIN n.list : n.list[k].id = active[i].id
                                     /\ Page!Get(n.list, active[i].id) = n.list[k]
      BY <2>2, HasGives
    <3>2. PICK j \in DOMAIN e.list : e.list[j] = n.list[k]
      BY DEF Values
    <3>3. Page!Has(e.list, e.list[j].id) /\ Page!Get(e.list, e.list[j].id) = e.list[j]
      BY GetFacts
    <3>4. here(e, i) = e.list[j]
      BY <3>1, <3>2, <3>3
    <3>5. active[i] = here(e, i)
      <4>1. active = [k1 \in DOMAIN active |-> here(e, k1)]
        BY <1>1
      <4> HIDE DEF here
      <4> QED
        BY <4>1
    <3> QED
      BY <2>2, <3>1, <3>2, <3>4, <3>5
  <2> QED
    BY <2>1, <2>2
<1>3. active = [i \in DOMAIN active |-> active[i]]
  BY LenProperties DEF Lists
<1> HIDE DEF here
<1> QED
  BY <1>1, <1>2, <1>3

-----------------------------------------------------------------------------
(* The score that goes with the signals. *)
Alike(s, t) ==
    DOMAIN s = DOMAIN t
    /\ \A i \in DOMAIN t : s[i].name = t[i].name /\ s[i].visible = t[i].visible

LEMMA AlikeComplete ==
    ASSUME NEW s, NEW t, Alike(s, t)
    PROVE  /\ Signals(s) = Signals(t) /\ Scores(s) = Scores(t)
           /\ Complete(s) <=> Complete(t)
<1>1. Signals(s) = Signals(t) /\ Scores(s) = Scores(t)
  BY DEF Signals, Scores, Alike
<1>2. /\ \A i \in Signals(t) : s[i].visible = t[i].visible
      /\ \A i \in Scores(t) : s[i].visible = t[i].visible
  BY DEF Signals, Scores, Alike
<1>3. Wanted(s) <=> Wanted(t)
  BY <1>1, <1>2 DEF Wanted
<1>4. Wanted(s) = Wanted(t)
  BY <1>3 DEF Wanted
<1> QED
  BY <1>1, <1>2, <1>4 DEF Complete

LEMMA SavedAlike ==
    ASSUME NEW list \in Seq(Inds)
    PROVE  Alike(Page!Saved(list), list)
<1> DEFINE s == Page!Saved(list)
<1>1. /\ DOMAIN s = DOMAIN list
      /\ \A i \in DOMAIN list : s[i] = [name |-> list[i].name, pane |-> list[i].pane,
                                         visible |-> list[i].visible]
  BY SavedFacts
<1> HIDE DEF s
<1>2. \A i \in DOMAIN list : s[i].name = list[i].name /\ s[i].visible = list[i].visible
  BY <1>1
<1> QED
  BY <1>1, <1>2 DEF Alike, s

First(list) == CHOOSE i \in Scores(list) : \A j \in Scores(list) : i <= j

LEMMA FirstScore ==
    ASSUME NEW list \in Lists, Scores(list) # {}
    PROVE  Scores(list) = {First(list)} /\ First(list) \in DOMAIN list
<1>1. \A i, j \in Scores(list) : i = j
  BY DEF Lists, Once, Scores
<1>2. PICK i \in Scores(list) : TRUE
  OBVIOUS
<1>3. i \in Nat
  BY <1>2, LenProperties DEF Lists, Scores
<1>4. \A j \in Scores(list) : i <= j
  BY <1>1, <1>3
<1>5. First(list) \in Scores(list)
  BY <1>4 DEF First
<1> QED
  BY <1>1, <1>5 DEF Scores

LEMMA SyncedIs ==
    \A e : Page!Synced(e) =
        IF Signals(e.list) = {} \/ ~Page!Due({"mount", "active"}) THEN e
        ELSE IF Scores(e.list) # {}
             THEN Page!SetVisibility(e, e.list[First(e.list)].id, Wanted(e.list))
        ELSE IF Wanted(e.list)
             THEN Page!AddIndicator(e, Page!FreshId(e), "score", Page!FreshPane(e)) ELSE e
  BY DEF Page!Synced, Signals, Scores, Wanted, First

LEMMA SyncedIdle ==
    ASSUME NEW e, ~Page!Due({"mount", "active"})
    PROVE  Page!Synced(e) = e
  BY SyncedIs

(* The first score is shown as the signals are. *)
LEMMA ScoreShown ==
    ASSUME NEW e \in GoodEngines, Scores(e.list) # {}, NEW w \in BOOLEAN,
           w = Wanted(e.list)
    PROVE  LET n == Page!SetVisibility(e, e.list[First(e.list)].id, w)
           IN  /\ n \in GoodEngines /\ Len(n.list) = Len(e.list)
               /\ Complete(n.list) /\ Signals(n.list) = Signals(e.list)
               /\ DOMAIN n.list = DOMAIN e.list
               /\ \A i \in DOMAIN e.list : n.list[i].name = e.list[i].name
               /\ Complete(e.list) /\ Signals(e.list) # {} => n = e
<1> DEFINE k == First(e.list)
           id == e.list[k].id
           n == Page!SetVisibility(e, id, w)
<1>1. e \in Engines /\ e.list \in Lists /\ e.list \in Seq(Inds) /\ Apart(e.list)
  BY GoodFields DEF Lists
<1>2. Scores(e.list) = {k} /\ k \in DOMAIN e.list
  BY <1>1, FirstScore
<1> HIDE DEF k
<1>3. /\ n \in GoodEngines
      /\ n.collapsed = e.collapsed /\ n.max = e.max /\ n.order = e.order
      /\ DOMAIN n.list = DOMAIN e.list /\ Len(n.list) = Len(e.list)
      /\ \A i \in DOMAIN e.list : n.list[i] = IF e.list[i].id = id THEN Seen(e.list[i], w)
                                              ELSE e.list[i]
  <2> HIDE DEF id
  <2> QED
    BY SetVisibilityFacts
<1>4. \A i \in DOMAIN e.list : e.list[i].id = id => i = k
  BY <1>1, <1>2 DEF Apart
<1> HIDE DEF n
<1>5. \A i \in DOMAIN e.list : n.list[i] = IF i = k THEN Seen(e.list[k], w) ELSE e.list[i]
  BY <1>2, <1>3, <1>4
<1>6. /\ Seen(e.list[k], w).name = e.list[k].name
      /\ Seen(e.list[k], w).visible = w
  BY DEF Seen
<1>7. \A i \in DOMAIN e.list : /\ n.list[i].name = e.list[i].name
                               /\ i # k => n.list[i].visible = e.list[i].visible
                               /\ n.list[k].visible = w
  BY <1>2, <1>5, <1>6
<1>8. Signals(n.list) = Signals(e.list) /\ Scores(n.list) = Scores(e.list)
  BY <1>3, <1>7 DEF Signals, Scores
<1>9. k \notin Signals(e.list)
  BY <1>2 DEF Signals, Scores
<1>10. Wanted(n.list) <=> Wanted(e.list)
  BY <1>7, <1>8, <1>9 DEF Wanted, Signals
<1>11. Complete(n.list)
  <2>1. Wanted(n.list) = w
    BY <1>10 DEF Wanted
  <2>2. \A i \in Scores(n.list) : n.list[i].visible = w
    BY <1>2, <1>7, <1>8
  <2> QED
    BY <1>2, <1>8, <2>1, <2>2 DEF Complete
<1>12. ASSUME Complete(e.list), Signals(e.list) # {} PROVE n = e
  <2>1. e.list[k].visible = w
    BY <1>2, <1>12 DEF Complete
  <2>2. e.list[k] \in Inds
    BY <1>1, <1>2, Items
  <2>3. Seen(e.list[k], w) = e.list[k]
    BY <2>1, <2>2 DEF Seen, Inds
  <2>4. \A i \in DOMAIN e.list : n.list[i] = e.list[i]
    BY <1>5, <2>3
  <2>5. n.list \in Seq(Inds)
    BY <1>3, GoodFields
  <2>6. n.list = e.list
    BY <1>1, <1>3, <2>4, <2>5, SeqEqual
  <2>7. n \in Engines
    BY <1>3, GoodFields
  <2> QED
    BY <1>1, <1>3, <2>6, <2>7 DEF Engines
<1> QED
  BY <1>3, <1>7, <1>8, <1>11, <1>12 DEF n, id, k

(* An engine whose signals want a score that is not there.                 *)
LEMMA ScoreAdded ==
    ASSUME NEW e \in GoodEngines, Scores(e.list) = {}, Wanted(e.list),
           NEW id \in Nat, \A i \in DOMAIN e.list : e.list[i].id # id,
           NEW pane \in Page!Panes
    PROVE  LET n == Page!AddIndicator(e, id, "score", pane)
           IN  /\ n \in GoodEngines /\ Len(n.list) = Len(e.list) + 1
               /\ Complete(n.list)
               /\ \A i \in DOMAIN n.list :
                    \/ n.list[i].name = "score"
                    \/ i \in DOMAIN e.list /\ n.list[i].name = e.list[i].name
<1> DEFINE n == Page!AddIndicator(e, id, "score", pane)
           name == "score"
           m == Len(e.list) + 1
<1>1. e.list \in Seq(Inds)
  BY GoodFields
<1>2. name \in Names
  BY PageConstants
<1>3. Unlike(e.list, id, name)
  BY DEF Unlike, Scores
<1>4. n = Page!AddIndicator(e, id, name, pane)
  OBVIOUS
<1> DEFINE ind == Ind(id, name, pane, TRUE)
<1>5. ind \in Inds /\ ind.name = "score" /\ ind.visible = TRUE
  BY <1>2 DEF Ind, Inds
<1>6. n \in GoodEngines /\ n.list = Append(e.list, ind)
  <2> HIDE DEF name
  <2> DEFINE x == Page!AddIndicator(e, id, name, pane)
  <2>1. pane \in Page!Panes \union {Main}
    OBVIOUS
  <2>2. x \in GoodEngines /\ x.list = Append(e.list, Ind(id, name, pane, TRUE))
    <3> HIDE DEF n
    <3> QED
      BY <1>2, <1>3, <2>1, AddFresh
  <2> HIDE DEF x
  <2>3. n = x
    BY <1>4 DEF x
  <2> QED
    BY <2>2, <2>3
<1> HIDE DEF n, ind
<1>7. /\ Len(n.list) = m /\ DOMAIN n.list = 1 .. m
      /\ \A i \in DOMAIN e.list : i \in DOMAIN n.list /\ n.list[i] = e.list[i]
      /\ n.list[m] = ind
      /\ \A i \in DOMAIN n.list : i \in DOMAIN e.list \/ i = m
      /\ DOMAIN e.list = 1 .. Len(e.list)
  BY <1>1, <1>5, <1>6, AppendIs
<1>8. m \in DOMAIN n.list /\ m \notin DOMAIN e.list
  BY <1>1, <1>7, LenProperties
<1> HIDE DEF m
<1>9. Signals(n.list) = Signals(e.list)
  BY <1>5, <1>7 DEF Signals
<1>10. Wanted(n.list)
  BY <1>7, <1>9 DEF Wanted, Signals
<1>11. Scores(n.list) = {m}
  BY <1>5, <1>7, <1>8 DEF Scores
<1>12. Complete(n.list)
  <2>1. n.list[m].visible = TRUE
    BY <1>5, <1>7
  <2>2. Wanted(n.list) = TRUE
    BY <1>10 DEF Wanted
  <2>3. \A i \in Scores(n.list) : n.list[i].visible = Wanted(n.list)
    BY <1>11, <2>1, <2>2
  <2> QED
    BY <1>11, <2>3 DEF Complete
<1>13. \A i \in DOMAIN n.list : \/ n.list[i].name = "score"
                                \/ i \in DOMAIN e.list /\ n.list[i].name = e.list[i].name
  BY <1>5, <1>7
<1> QED
  BY <1>6, <1>7, <1>12, <1>13 DEF n, m

LEMMA SyncedComplete ==
    ASSUME NEW e \in GoodEngines, Complete(e.list)
    PROVE  Page!Synced(e) = e
<1>1. CASE Signals(e.list) = {} \/ ~Page!Due({"mount", "active"})
  BY <1>1, SyncedIs
<1>2. CASE Signals(e.list) # {} /\ Page!Due({"mount", "active"}) /\ Scores(e.list) # {}
  <2> DEFINE w == Wanted(e.list)
  <2>1. w \in BOOLEAN /\ w = Wanted(e.list)
    BY DEF Wanted
  <2>2. Page!Synced(e) = Page!SetVisibility(e, e.list[First(e.list)].id, w)
    BY <1>2, SyncedIs
  <2> HIDE DEF w
  <2>3. Page!SetVisibility(e, e.list[First(e.list)].id, w) = e
    BY <1>2, <2>1, ScoreShown
  <2> QED
    BY <2>2, <2>3
<1>3. CASE Signals(e.list) # {} /\ Page!Due({"mount", "active"}) /\ Scores(e.list) = {}
  <2>1. ~Wanted(e.list)
    BY <1>3 DEF Complete
  <2> QED
    BY <1>3, <2>1, SyncedIs
<1> QED
  BY <1>1, <1>2, <1>3

(* What the effect makes of an engine whose score is not right.            *)
SyncedTo(n, e) ==
    /\ n \in GoodEngines /\ Len(n.list) <= MaxIndicators /\ Len(n.list) >= Len(e.list)
    /\ Complete(n.list)
    /\ \A i \in DOMAIN n.list :
          \/ n.list[i].name = "score"
          \/ \E j \in DOMAIN e.list : e.list[j].name = n.list[i].name

LEMMA SyncedFacts ==
    ASSUME NEW e \in GoodEngines, Len(e.list) <= MaxIndicators,
           active \in Seq(Inds), Len(active) <= MaxIndicators,
           Page!Due({"mount", "active"}), ~Complete(e.list), Page!Room(e)
    PROVE  SyncedTo(Page!Synced(e), e)
<1>1. Signals(e.list) # {} /\ (Scores(e.list) = {} => Wanted(e.list))
  <2>1. Signals(e.list) # {}
    BY DEF Complete
  <2>2. Scores(e.list) = {} => Wanted(e.list)
    BY <2>1 DEF Complete
  <2> QED
    BY <2>1, <2>2
<1>2. e.list \in Seq(Inds) /\ Len(e.list) \in Nat /\ MaxIndicators \in Nat
  BY GoodFields, LenProperties, PageConstants
<1> DEFINE n == Page!Synced(e)
<1>3. CASE Scores(e.list) # {}
  <2> DEFINE w == Wanted(e.list)
             x == Page!SetVisibility(e, e.list[First(e.list)].id, w)
  <2>1. w \in BOOLEAN /\ w = Wanted(e.list)
    BY DEF Wanted
  <2>2. n = x
    BY <1>1, <1>3, SyncedIs
  <2> HIDE DEF w
  <2>3. /\ x \in GoodEngines /\ Len(x.list) = Len(e.list)
        /\ Complete(x.list) /\ DOMAIN x.list = DOMAIN e.list
        /\ \A i \in DOMAIN e.list : x.list[i].name = e.list[i].name
    BY <1>3, <2>1, ScoreShown
  <2> HIDE DEF x
  <2>4. SyncedTo(x, e)
    BY <1>2, <2>3 DEF SyncedTo
  <2> QED
    BY <2>2, <2>4
<1>4. CASE Scores(e.list) = {}
  <2> DEFINE id == Page!FreshId(e)
             pane == Page!FreshPane(e)
             x == Page!AddIndicator(e, id, "score", pane)
  <2>1. n = x
    BY <1>1, <1>4, SyncedIs
  <2>2. id \in Nat /\ \A i \in DOMAIN e.list : e.list[i].id # id
    BY <1>2, FreshIdFacts
  <2>3. Len(e.list) < MaxIndicators /\ pane \in Page!Panes
    BY <1>4, RoomIs, FreshPaneFacts
  <2> HIDE DEF id, pane
  <2>4. /\ x \in GoodEngines /\ Len(x.list) = Len(e.list) + 1 /\ Complete(x.list)
        /\ \A i \in DOMAIN x.list :
              \/ x.list[i].name = "score"
              \/ i \in DOMAIN e.list /\ x.list[i].name = e.list[i].name
    BY <1>1, <1>4, <2>2, <2>3, ScoreAdded
  <2> HIDE DEF x
  <2>5. SyncedTo(x, e)
    BY <1>2, <2>3, <2>4 DEF SyncedTo
  <2> QED
    BY <2>1, <2>5
<1> QED
  BY <1>3, <1>4

-----------------------------------------------------------------------------
(* What the page thinks the engine should have. *)
LEMMA RestoredFacts ==
    ASSUME persisted \in Stores \union {None}
    PROVE  /\ Page!RestoredList \in SavedLists /\ Len(Page!RestoredList) <= MaxIndicators
           /\ Page!RestoredPanes \in SubStates
           /\ (persisted # None => Complete(persisted.list)) => Complete(Page!RestoredList)
           /\ persisted # None => Page!RestoredList = persisted.list
                                  /\ Page!RestoredPanes = persisted.sub
<1>1. CASE persisted # None
  <2>1. persisted \in Stores
    BY <1>1
  <2>2. /\ persisted.list \in SavedLists /\ persisted.sub \in SubStates
        /\ Len(persisted.list) <= MaxIndicators
    BY <2>1 DEF Stores
  <2> QED
    BY <1>1, <2>2 DEF Page!RestoredList, Page!RestoredPanes
<1>2. CASE persisted = None
  <2> DEFINE d == Page!Defaults
             v == [name |-> "volume", pane |-> Main, visible |-> TRUE]
  <2>1. Page!RestoredList = d /\ Page!RestoredPanes = Page!NoPanes
    BY <1>2 DEF Page!RestoredList, Page!RestoredPanes
  <2>2. v \in Page!SavedIndicator /\ v.name = "volume"
    BY PageConstants DEF Page!SavedIndicator
  <2>3. d = <<v>>
    BY DEF Page!Defaults
  <2> HIDE DEF v
  <2>4. d \in Seq(Page!SavedIndicator) /\ Len(d) = 1 /\ DOMAIN d = {1} /\ d[1] = v
    BY <2>2, <2>3
  <2> HIDE DEF d
  <2>5. d \in SavedLists
    BY <2>4 DEF SavedLists, Once
  <2>6. Complete(d)
    <3>1. Signals(d) = {}
      BY <2>2, <2>4 DEF Signals
    <3> QED
      BY <3>1 DEF Complete
  <2>7. Len(d) <= MaxIndicators
    BY <2>4, PageConstants
  <2>8. Page!NoPanes \in SubStates
    <3> DEFINE z == <<>>
    <3>1. Page!NoPanes = [order |-> z, collapsed |-> {}, max |-> None]
          /\ z \in Seq(Page!Panes) /\ Distinct(z)
      BY EmptySeq DEF Page!NoPanes, Distinct
    <3> HIDE DEF z
    <3> QED
      BY <3>1 DEF SubStates
  <2> QED
    BY <1>2, <2>1, <2>5, <2>6, <2>7, <2>8
<1> QED
  BY <1>1, <1>2

Filtered(s) == Page!Kept(s, {i \in DOMAIN s : s[i].name \notin removed})

LEMMA FilteredFacts ==
    ASSUME NEW s \in SavedLists, removed \in SUBSET (Names \intersect Removable)
    PROVE  LET t == Filtered(s)
           IN  /\ t \in SavedLists /\ Len(t) <= Len(s)
               /\ Clean(t)
               /\ \A k \in DOMAIN t : \E i \in DOMAIN s : t[k] = s[i]
               /\ Scores(s) # {} => Scores(t) # {}
               /\ Signals(s) # {} => Signals(t) # {}
               /\ Complete(s) => Complete(t)
               /\ Clean(s) => t = s
<1> DEFINE T == {i \in DOMAIN s : s[i].name \notin removed}
           t == Filtered(s)
           at == KeptAt(T)
<1>1. /\ s \in Seq(Page!SavedIndicator) /\ DOMAIN s = 1 .. Len(s)
      /\ Once(s, "volume") /\ Once(s, "score")
  BY SavedItems
<1>2. T \in PlacesIn(s) /\ t = Page!Kept(s, T)
  BY <1>1 DEF PlacesIn, Filtered
<1> DEFINE u == Page!Kept(s, T)
<1>3. /\ u \in Seq(Page!SavedIndicator) /\ Len(u) <= Len(s)
      /\ \A k \in DOMAIN u : at[k] \in T /\ u[k] = s[at[k]]
      /\ \A i \in T : \E k \in DOMAIN u : at[k] = i
      /\ \A k, l \in DOMAIN u : at[k] = at[l] => k = l
  <2> HIDE DEF T
  <2> QED
    BY <1>1, <1>2, KeptFacts
<1>4. T \subseteq DOMAIN s /\ \A i \in T : s[i].name \notin removed
  OBVIOUS
<1>5. \A i \in DOMAIN s : i \in T \/ s[i].name \in removed
  OBVIOUS
<1>6. "signal" \notin removed /\ "score" \notin removed
  BY PageConstants
<1>7. Clean(s) => u = s
  <2> SUFFICES ASSUME Clean(s) PROVE u = s
    OBVIOUS
  <2>1. T = 1 .. Len(s)
    BY <1>1 DEF Clean
  <2> QED
    BY <1>1, <2>1, KeptAll
<1> HIDE DEF T, t, u, at
<1>8. /\ \A k \in DOMAIN u : at[k] \in DOMAIN s /\ u[k] = s[at[k]]
      /\ \A i \in T : \E k \in DOMAIN u : u[k] = s[i]
  BY <1>3, <1>4
<1>9. ASSUME NEW name, Once(s, name) PROVE Once(u, name)
  <2> SUFFICES ASSUME NEW k \in DOMAIN u, NEW l \in DOMAIN u,
                      u[k].name = name, u[l].name = name
               PROVE  k = l
    BY DEF Once
  <2>1. at[k] \in DOMAIN s /\ at[l] \in DOMAIN s /\ u[k] = s[at[k]] /\ u[l] = s[at[l]]
    BY <1>8
  <2>2. s[at[k]].name = name /\ s[at[l]].name = name
    BY <2>1
  <2>3. at[k] = at[l]
    BY <1>9, <2>1, <2>2 DEF Once
  <2> QED
    BY <1>3, <2>3
<1>10. u \in SavedLists
  BY <1>1, <1>3, <1>9 DEF SavedLists
<1>11. Clean(u)
  BY <1>3, <1>4 DEF Clean
<1>12. \A i \in Scores(s) \union Signals(s) : \E k \in DOMAIN u : at[k] = i
  <2>1. \A i \in Scores(s) \union Signals(s) : i \in T
    BY <1>5, <1>6 DEF Scores, Signals
  <2> QED
    BY <1>3, <2>1
<1>13. /\ \A k \in DOMAIN u : k \in Scores(u) <=> at[k] \in Scores(s)
       /\ \A k \in DOMAIN u : k \in Signals(u) <=> at[k] \in Signals(s)
  BY <1>8 DEF Scores, Signals
<1>14. (Scores(s) # {} => Scores(u) # {}) /\ (Signals(s) # {} => Signals(u) # {})
  BY <1>12, <1>13
<1>15. Complete(s) => Complete(u)
  <2> SUFFICES ASSUME Complete(s), Signals(u) # {} PROVE Complete(u)
    BY DEF Complete
  <2>1. Signals(s) # {}
    BY <1>13 DEF Signals
  <2>2. Wanted(s) <=> Wanted(u)
    <3>1. ASSUME Wanted(s) PROVE Wanted(u)
      <4>1. PICK i \in Signals(s) : s[i].visible
        BY <3>1 DEF Wanted
      <4>2. PICK k \in DOMAIN u : at[k] = i
        BY <1>12
      <4>3. k \in Signals(u) /\ u[k].visible
        BY <1>8, <1>13, <4>1, <4>2
      <4> QED
        BY <4>3 DEF Wanted
    <3>2. ASSUME Wanted(u) PROVE Wanted(s)
      <4>1. PICK k \in Signals(u) : u[k].visible
        BY <3>2 DEF Wanted
      <4>2. k \in DOMAIN u
        BY DEF Signals
      <4>3. at[k] \in Signals(s) /\ s[at[k]].visible
        BY <1>8, <1>13, <4>1, <4>2
      <4> QED
        BY <4>3 DEF Wanted
    <3> QED
      BY <3>1, <3>2
  <2>3. Wanted(s) = Wanted(u)
    BY <2>2 DEF Wanted
  <2>4. /\ Wanted(s) => Scores(s) # {}
        /\ \A i \in Scores(s) : s[i].visible = Wanted(s)
    BY <2>1 DEF Complete
  <2>5. Wanted(u) => Scores(u) # {}
    BY <1>14, <2>2, <2>4
  <2>6. \A k \in Scores(u) : u[k].visible = Wanted(u)
    <3> SUFFICES ASSUME NEW k \in Scores(u) PROVE u[k].visible = Wanted(u)
      OBVIOUS
    <3>1. k \in DOMAIN u
      BY DEF Scores
    <3>2. at[k] \in Scores(s) /\ u[k] = s[at[k]]
      BY <1>8, <1>13, <3>1
    <3> QED
      BY <2>3, <2>4, <3>2
  <2> QED
    BY <2>5, <2>6 DEF Complete
<1>16. u = t
  BY <1>2 DEF u
<1>17. \A k \in DOMAIN u : \E i \in DOMAIN s : u[k] = s[i]
  BY <1>8
<1> QED
  BY <1>3, <1>7, <1>10, <1>11, <1>14, <1>15, <1>16, <1>17 DEF t

Base == IF active # <<>> THEN Page!Saved(active) ELSE Page!RestoredList

LEMMA DesiredIs ==
    ASSUME NEW e, Page!Current(e) = active
    PROVE  Page!Desired(e) = Filtered(Base)
  BY DEF Page!Desired, Filtered, Base

-----------------------------------------------------------------------------
(* The invariant of the page, action by action. *)
LEMMA Unchanged ==
    ASSUME PageInv, changed = {}
    PROVE  /\ rounds = 0 /\ active = Page!Current(engine) /\ layout = Page!Layout(engine)
           /\ Complete(active) /\ (stored # None => Complete(stored.list))
           /\ (persisted # None => Complete(persisted.list))
           /\ Page!MaySave => stored = Now
           /\ restored \/ Page!RestoredList = <<>>
<1>1. \A what : ~Page!Due(what)
  BY DEF Page!Due
<1>2. "active" \notin changed /\ "mount" \notin changed
  OBVIOUS
<1> QED
  BY <1>1, <1>2 DEF PageInv, Echoes, Saves, Completes, Calms

LEMMA CurrentSame ==
    \A l \in Lists : [i \in DOMAIN l |-> IF Page!Has(l, l[i].id) THEN Page!Get(l, l[i].id)
                                         ELSE l[i]] = l
<1> SUFFICES ASSUME NEW l \in Lists
             PROVE  [i \in DOMAIN l |-> IF Page!Has(l, l[i].id) THEN Page!Get(l, l[i].id)
                                        ELSE l[i]] = l
  OBVIOUS
<1> DEFINE here(i) == IF Page!Has(l, l[i].id) THEN Page!Get(l, l[i].id) ELSE l[i]
<1>1. \A i \in DOMAIN l : here(i) = l[i]
  BY GetFacts
<1> HIDE DEF here
<1>2. [i \in DOMAIN l |-> here(i)] = [i \in DOMAIN l |-> l[i]]
  BY <1>1
<1>3. l = [i \in DOMAIN l |-> l[i]]
  BY LenProperties DEF Lists
<1>4. [i \in DOMAIN l |-> here(i)] = l
  BY <1>2, <1>3
<1> QED
  BY <1>4 DEF here

LEMMA RoomThen ==
    ASSUME NEW e, Page!Room(e), engine' = e,
           Page!UsedPanes(engine)' \subseteq Page!UsedPanes(e)
    PROVE  Page!Room(engine)'
<1>1. Page!Room(engine)' <=> \/ \E ind \in Page!ToSet(e.list) : ind.name = "score"
                             \/ Len(e.list) < MaxIndicators
                                /\ Page!FreshPane(engine)' \in Page!Panes
  BY DEF Page!Room
<1>2. CASE Page!FreshPane(e) \in Page!Panes
  <2> DEFINE used == Page!UsedPanes(engine)'
             P == Page!Panes
  <2>1. Page!FreshPane(engine)' = IF P \subseteq used THEN MaxPanes + 1
                                  ELSE CHOOSE p \in P : p \notin used
    BY DEF Page!FreshPane
  <2>2. ~(P \subseteq used)
    <3>1. ~(P \subseteq Page!UsedPanes(e))
      BY <1>2, FreshPaneFacts
    <3> HIDE DEF P
    <3> QED
      BY <3>1
  <2> HIDE DEF used, P
  <2>3. Page!FreshPane(engine)' \in P
    BY <2>1, <2>2
  <2> QED
    BY <1>1, <2>3 DEF P, Page!Room
<1>3. CASE Page!FreshPane(e) \notin Page!Panes
  BY <1>1, <1>3 DEF Page!Room
<1> QED
  BY <1>2, <1>3

LEMMA PageHandled ==
    ASSUME PageInv, NEW e \in GoodEngines, Len(e.list) <= MaxIndicators,
           Page!Handled(e), removed' \in SUBSET (Names \intersect Removable),
           gone' \in SUBSET Names
    PROVE  PageInv'
<1>1. /\ changed = {} /\ Page!Room(e)
      /\ engine' = e /\ active' = e.list
      /\ changed' = {"active"} /\ touched' = TRUE
      /\ changes < MaxChanges /\ changes' = changes + 1 /\ paned' = FALSE
      /\ restored' = restored /\ persisted' = persisted /\ symbol' = symbol
      /\ stored' = stored /\ loaded' = loaded /\ rounds' = rounds
  BY DEF Page!Handled
<1>2. /\ rounds = 0 /\ (stored # None => Complete(stored.list))
      /\ (persisted # None => Complete(persisted.list))
      /\ restored \/ Page!RestoredList = <<>>
  BY <1>1, Unchanged
<1>3. e.list \in Lists
  BY GoodFields
<1>4. PageTypes'
  <2>1. changes' \in 0 .. MaxChanges
    BY <1>1, PageConstants DEF PageInv, PageTypes
  <2>2. changed' \in SUBSET Page!Dirty
    BY <1>1 DEF Page!Dirty
  <2> QED
    BY <1>1, <1>3, <2>1, <2>2 DEF PageInv, PageTypes
<1>5. Echoes'
  <2>1. active' = Page!Current(engine)'
    BY <1>1, <1>3, CurrentSame DEF Page!Current
  <2>2. Page!Due({"engine", "persisted", "active", "bars"})'
    BY <1>1 DEF Page!Due
  <2> QED
    BY <1>1, <2>1, <2>2 DEF Echoes
<1>6. Mounting'
  BY <1>1 DEF Mounting
<1>7. Saves'
  BY <1>1 DEF Saves, Page!Due
<1>8. Completes'
  <2>1. Page!UsedPanes(engine)' \subseteq Page!UsedPanes(e)
    BY <1>1 DEF Page!UsedPanes
  <2>2. Page!Room(engine)'
    BY <1>1, <2>1, RoomThen
  <2> QED
    BY <1>1, <1>2, <2>2 DEF Completes
<1>9. Calms'
  <2>1. Page!RestoredList' = Page!RestoredList
    BY <1>1 DEF Page!RestoredList
  <2> QED
    BY <1>1, <1>2, <2>1 DEF Calms, Page!Due
<1>10. Restoring'
  BY <1>1 DEF Restoring
<1> QED
  BY <1>4, <1>5, <1>6, <1>7, <1>8, <1>9, <1>10 DEF PageInv

LEMMA PagePressed ==
    ASSUME PageInv, NEW e \in GoodEngines, Len(e.list) <= MaxIndicators,
           Values(e.list) \subseteq Values(engine.list),
           e = engine \/ Page!Layout(e) # Page!Layout(engine),
           Page!Pressed(e), gone' \in SUBSET Names
    PROVE  PageInv'
<1>1. /\ changed = {}
      /\ engine' = e /\ active' = Page!Current(e) /\ layout' = Page!Layout(e)
      /\ changed' = (IF Page!Layout(e) # layout THEN {"layout"} ELSE {})
      /\ paned' = (paned \/ e.list # engine.list) /\ touched' = TRUE
      /\ changes < MaxChanges /\ changes' = changes + 1
      /\ restored' = restored /\ removed' = removed /\ persisted' = persisted
      /\ symbol' = symbol /\ stored' = stored /\ loaded' = loaded /\ rounds' = rounds
  BY DEF Page!Pressed
<1>2. /\ rounds = 0 /\ active = Page!Current(engine) /\ layout = Page!Layout(engine)
      /\ Complete(active) /\ (stored # None => Complete(stored.list))
      /\ (persisted # None => Complete(persisted.list))
      /\ Page!MaySave => stored = Now
      /\ restored \/ Page!RestoredList = <<>>
  BY <1>1, Unchanged
<1>3. /\ engine \in GoodEngines /\ engine.list \in Lists /\ e.list \in Lists
      /\ active \in Lists
  BY GoodFields DEF PageInv, PageTypes
<1>4. Page!Current(e) = active
  BY <1>2, <1>3, CurrentStays
<1>5. active' = active
  BY <1>1, <1>4
<1>6. changed' = {} \/ changed' = {"layout"}
  BY <1>1
<1>7. PageTypes'
  <2>1. changes' \in 0 .. MaxChanges
    BY <1>1, PageConstants DEF PageInv, PageTypes
  <2>2. changed' \in SUBSET Page!Dirty
    BY <1>6 DEF Page!Dirty
  <2>3. paned' \in BOOLEAN
    BY <1>1
  <2> QED
    BY <1>1, <1>5, <2>1, <2>2, <2>3 DEF PageInv, PageTypes
<1>8. Echoes'
  <2>1. active' = Page!Current(engine)'
    BY <1>1, <1>4, <1>5 DEF Page!Current
  <2>2. ~paned' => active' = engine.list'
    <3>1. ~paned => active = engine.list
      BY DEF PageInv, Echoes
    <3> QED
      BY <1>1, <1>5, <3>1
  <2>3. "active" \notin changed'
    BY <1>6
  <2> QED
    BY <1>1, <2>1, <2>2, <2>3 DEF Echoes
<1>9. Mounting'
  BY <1>6 DEF Mounting
<1>10. Saves'
  <2>1. CASE e = engine
    <3>1. Now' = Now
      BY <1>1, <1>5, <2>1 DEF Now
    <3> QED
      BY <1>1, <1>2, <1>5, <3>1 DEF Saves, Page!MaySave
  <2>2. CASE Page!Layout(e) # Page!Layout(engine)
    <3>1. "layout" \in changed'
      BY <1>1, <1>2, <2>2
    <3> QED
      BY <3>1 DEF Saves, Page!Due
  <2> QED
    BY <2>1, <2>2
<1>11. Completes'
  BY <1>1, <1>2, <1>5 DEF Completes
<1>12. Calms'
  <2>1. Page!RestoredList' = Page!RestoredList
    BY <1>1 DEF Page!RestoredList
  <2> QED
    BY <1>1, <1>2, <1>6, <2>1 DEF Calms, Page!Due
<1>13. Restoring'
  BY <1>1 DEF Restoring
<1> QED
  BY <1>7, <1>8, <1>9, <1>10, <1>11, <1>12, <1>13 DEF PageInv

(* What the parts of the state are that the handlers look at.              *)
LEMMA PageState ==
    ASSUME PageInv
    PROVE  /\ engine \in GoodEngines /\ Len(engine.list) <= MaxIndicators
           /\ engine.list \in Lists /\ engine.list \in Seq(Inds) /\ Len(engine.list) \in Nat
           /\ active \in Lists /\ active \in Seq(Inds) /\ Len(active) <= MaxIndicators
           /\ Len(active) \in Nat
           /\ removed \in SUBSET (Names \intersect Removable) /\ gone \in SUBSET Names
           /\ persisted \in Stores \union {None}
           /\ MaxIndicators \in Nat
<1>1. /\ engine \in GoodEngines /\ Len(engine.list) <= MaxIndicators
      /\ active \in Lists /\ Len(active) <= MaxIndicators
      /\ removed \in SUBSET (Names \intersect Removable) /\ gone \in SUBSET Names
      /\ persisted \in Stores \union {None}
  BY DEF PageInv, PageTypes
<1>2. engine.list \in Lists /\ engine.list \in Seq(Inds) /\ active \in Seq(Inds)
  BY <1>1, GoodFields DEF Lists
<1> QED
  BY <1>1, <1>2, LenProperties, PageConstants

LEMMA NamesOf ==
    ASSUME PageInv, NEW e
    PROVE  Page!NamesGone(e) \in SUBSET Names
<1>1. \A i \in DOMAIN engine.list : engine.list[i].name \in Names
  BY PageState, Items
<1> QED
  BY <1>1 DEF Page!NamesGone, Page!ToSet

LEMMA AddedFacts ==
    ASSUME PageInv, NEW name \in Names, name # "score",
           Len(engine.list) < MaxIndicators,
           name \in Overlays \/ Page!FreshPane(engine) \in Page!Panes
    PROVE  Page!Added(name) \in GoodEngines /\ Len(Page!Added(name).list) <= MaxIndicators
<1> DEFINE id == Page!FreshId(engine)
           pane == Page!NewPane(engine, name)
           n == Page!AddIndicator(engine, id, name, pane)
<1>1. Page!Added(name) = n
  BY DEF Page!Added
<1>2. id \in Nat /\ \A i \in DOMAIN engine.list : engine.list[i].id # id
  BY PageState, FreshIdFacts
<1>3. pane \in Page!Panes \union {Main}
  BY DEF Page!NewPane
<1>4. engine \in GoodEngines /\ engine.list \in Seq(Inds)
      /\ Len(engine.list) \in Nat /\ MaxIndicators \in Nat
  BY PageState
<1> HIDE DEF id, pane
<1>5. CASE name = "volume" /\ HasVolume(engine.list)
  <2> DEFINE x == Page!AddIndicator(engine, id, "volume", pane)
  <2>1. x \in GoodEngines /\ Len(x.list) = Len(engine.list)
    BY <1>4, <1>5, AddVolume
  <2> HIDE DEF x
  <2>2. n = x
    BY <1>5 DEF x
  <2> HIDE DEF n
  <2> QED
    BY <1>1, <1>4, <2>1, <2>2
<1>6. CASE ~(name = "volume" /\ HasVolume(engine.list))
  <2>1. Unlike(engine.list, id, name)
    BY <1>2, <1>6 DEF Unlike, HasVolume
  <2> DEFINE ind == Ind(id, name, pane, TRUE)
  <2>2. n \in GoodEngines /\ n.list = Append(engine.list, ind)
    BY <1>2, <1>3, <1>4, <2>1, AddFresh
  <2>3. ind \in Inds
    BY <1>2, <1>3 DEF Ind, Inds
  <2> HIDE DEF n, ind
  <2>4. Len(n.list) = Len(engine.list) + 1
    BY <1>4, <2>2, <2>3, AppendIs
  <2> QED
    BY <1>1, <1>4, <2>2, <2>4
<1> QED
  BY <1>5, <1>6

LEMMA PageAddNew ==
    ASSUME PageInv, NEW name \in Names, Page!AddNew(name)
    PROVE  PageInv'
<1>1. /\ name # "score" /\ Len(engine.list) < MaxIndicators
      /\ Page!FreshPane(engine) \in Page!Panes
      /\ Page!Handled(Page!Added(name)) /\ gone' = gone \ {name} /\ removed' = removed
  BY DEF Page!AddNew
<1>2. Page!Added(name) \in GoodEngines /\ Len(Page!Added(name).list) <= MaxIndicators
  BY <1>1, AddedFacts
<1>3. removed' \in SUBSET (Names \intersect Removable) /\ gone' \in SUBSET Names
  BY <1>1, PageState
<1> QED
  BY <1>1, <1>2, <1>3, PageHandled

LEMMA PageToggleStrategy ==
    ASSUME PageInv, Page!ToggleStrategy
    PROVE  PageInv'
<1>1. "signal" \in Names /\ "signal" \in Overlays
  BY PageConstants
<1>2. removed' \in SUBSET (Names \intersect Removable) /\ gone' \in SUBSET Names
  BY <1>1, PageState DEF Page!ToggleStrategy
<1>3. CASE \E ind \in Page!ToSet(engine.list) : ind.name = "signal"
  <2> DEFINE T == {i \in DOMAIN engine.list : engine.list[i].name # "signal"}
             l == Page!Kept(engine.list, T)
             o == engine.order
             c == engine.collapsed
             m == engine.max
             x == [engine EXCEPT !.list = l]
             n == Page!Normal(x)
  <2>1. Page!Handled(n)
    BY <1>3 DEF Page!ToggleStrategy
  <2>2. /\ engine \in Engines /\ engine.list \in Lists /\ engine.list \in Seq(Inds)
        /\ o \in Seq(Page!Panes) /\ Distinct(o) /\ c \in SUBSET Page!Panes
        /\ m \in Page!Panes \union {None}
        /\ Len(engine.list) \in Nat /\ MaxIndicators \in Nat
        /\ Len(engine.list) <= MaxIndicators
    BY PageState, GoodFields
  <2>3. T \in PlacesIn(engine.list)
    BY <2>2, LenProperties DEF PlacesIn
  <2> HIDE DEF T
  <2>4. l \in Lists /\ Len(l) <= Len(engine.list) /\ Len(l) \in Nat
    BY <2>2, <2>3, KeptList
  <2> HIDE DEF l
  <2>5. x = [list |-> l, order |-> o, collapsed |-> c, max |-> m]
    BY <2>2, EngineFields
  <2> HIDE DEF x, o, c, m
  <2>6. n = Page!Normal([list |-> l, order |-> o, collapsed |-> c, max |-> m])
    BY <2>5
  <2> HIDE DEF n
  <2>7. n \in GoodEngines /\ n.list = l
    BY <2>2, <2>4, <2>6, Normalized
  <2>8. Len(n.list) <= MaxIndicators
    BY <2>2, <2>4, <2>7
  <2> QED
    BY <1>2, <2>1, <2>7, <2>8, PageHandled
<1>4. CASE ~(\E ind \in Page!ToSet(engine.list) : ind.name = "signal")
  <2>1. Len(engine.list) < MaxIndicators /\ Page!Handled(Page!Added("signal"))
    BY <1>4 DEF Page!ToggleStrategy
  <2> DEFINE name == "signal"
             n == Page!Added(name)
  <2>2. name \in Names /\ name \in Overlays /\ name # "score"
    BY <1>1
  <2>3. Page!Handled(n)
    BY <2>1
  <2> HIDE DEF name
  <2>4. n \in GoodEngines /\ Len(n.list) <= MaxIndicators
    BY <2>1, <2>2, AddedFacts
  <2> HIDE DEF n
  <2> QED
    BY <1>2, <2>3, <2>4, PageHandled
<1> QED
  BY <1>3, <1>4

(* What the page removes by an id is what the engine has under it.         *)
LEMMA SameById ==
    ASSUME PageInv, changed = {}, NEW id, Page!Has(active, id),
           NEW j \in DOMAIN engine.list, engine.list[j].id = id
    PROVE  Page!Get(active, id) = engine.list[j]
<1>1. active = Page!Current(engine)
  BY Unchanged
<1>2. active \in Lists /\ engine.list \in Lists
  BY PageState
<1>3. PICK i \in DOMAIN active : active[i].id = id /\ Page!Get(active, id) = active[i]
  BY <1>2, HasGives
<1>4. Page!Has(engine.list, id) /\ Page!Get(engine.list, id) = engine.list[j]
  BY <1>2, GetFacts
<1> DEFINE here(k) == IF Page!Has(engine.list, active[k].id)
                      THEN Page!Get(engine.list, active[k].id) ELSE active[k]
<1>5. active = [k \in DOMAIN active |-> here(k)]
  BY <1>1 DEF Page!Current
<1>6. here(i) = engine.list[j]
  BY <1>3, <1>4
<1> HIDE DEF here
<1>7. active[i] = here(i)
  BY <1>5
<1> QED
  BY <1>3, <1>6, <1>7

LEMMA PageRemoveById ==
    ASSUME PageInv, NEW id, Page!RemoveById(id)
    PROVE  PageInv'
<1> DEFINE n == Page!RemoveIndicator(engine, id)
           names == {ind.name : ind \in {x \in Page!ToSet(engine.list) : x.id = id}}
<1>1. /\ Page!Has(active, id) /\ Page!Get(active, id).name \in Removable
      /\ Page!Handled(n) /\ removed' = removed \union names
      /\ gone' = gone \union Page!NamesGone(n)
  BY DEF Page!RemoveById
<1>2. changed = {}
  BY <1>1 DEF Page!Handled
<1>3. names \subseteq Names \intersect Removable
  <2> SUFFICES ASSUME NEW j \in DOMAIN engine.list, engine.list[j].id = id
               PROVE  engine.list[j].name \in Names \intersect Removable
    BY DEF Page!ToSet
  <2>1. engine.list[j].name \in Names
    BY PageState, Items
  <2>2. Page!Get(active, id) = engine.list[j]
    BY <1>1, <1>2, SameById
  <2> QED
    BY <1>1, <2>1, <2>2
<1> HIDE DEF names
<1>4. n \in GoodEngines /\ Len(n.list) <= Len(engine.list)
  BY PageState, RemoveIndicatorFacts
<1> HIDE DEF n
<1>5. n \in GoodEngines /\ Len(n.list) <= MaxIndicators
  <2>1. Len(n.list) \in Nat
    BY <1>4, GoodFields, LenProperties
  <2> QED
    BY <1>4, <2>1, PageState
<1>6. removed' \in SUBSET (Names \intersect Removable) /\ gone' \in SUBSET Names
  BY <1>1, <1>3, PageState, NamesOf
<1> QED
  BY <1>1, <1>5, <1>6, PageHandled

LEMMA PageToggleVisible ==
    ASSUME PageInv, NEW id, Page!ToggleVisible(id)
    PROVE  PageInv'
<1> DEFINE w == ~Page!Get(active, id).visible
           n == Page!SetVisibility(engine, id, w)
<1>1. /\ Page!Handled(n) /\ removed' = removed /\ gone' = gone
  BY DEF Page!ToggleVisible
<1>2. w \in BOOLEAN
  OBVIOUS
<1> HIDE DEF w
<1>3. n \in GoodEngines /\ Len(n.list) = Len(engine.list)
  BY <1>2, PageState, SetVisibilityFacts
<1> HIDE DEF n
<1> QED
  BY <1>1, <1>3, PageState, PageHandled

LEMMA PageMoveInList ==
    ASSUME PageInv, NEW id, NEW d \in {-1, 1}, Page!MoveInList(id, d)
    PROVE  PageInv'
<1> DEFINE n == Page!MoveIndicator(engine, id, d)
<1>1. /\ Page!Handled(n) /\ removed' = removed /\ gone' = gone
  BY DEF Page!MoveInList
<1>2. n \in GoodEngines /\ Len(n.list) = Len(engine.list)
  BY PageState, MoveIndicatorFacts
<1> HIDE DEF n
<1> QED
  BY <1>1, <1>2, PageState, PageHandled

LEMMA PageMoveToPane ==
    ASSUME PageInv, NEW id, NEW pane, Page!MoveToPane(id, pane)
    PROVE  PageInv'
<1> DEFINE e == Page!SetIndicatorPane(engine, id, pane)
           n == IF pane = Main THEN e ELSE Page!ExpandPane(e, pane)
<1>1. /\ pane \in Page!Panes \union {Main}
      /\ Page!Handled(n) /\ removed' = removed /\ gone' = gone
  BY DEF Page!MoveToPane
<1>2. e \in GoodEngines /\ Len(e.list) = Len(engine.list)
  BY <1>1, PageState, SetIndicatorPaneFacts
<1> HIDE DEF e
<1>3. n \in GoodEngines /\ n.list = e.list
  <2>1. CASE pane = Main
    BY <1>2, <2>1
  <2>2. CASE pane # Main
    <3> DEFINE x == Page!ExpandPane(e, pane)
    <3>1. pane \in Page!Panes
      BY <1>1, <2>2
    <3>2. x \in GoodEngines /\ x = [list |-> e.list, order |-> e.order,
                                    collapsed |-> e.collapsed \ {pane}, max |-> e.max]
      BY <1>2, <3>1, FlagsAreGood
    <3> HIDE DEF x
    <3>3. x.list = e.list
      BY <3>2
    <3>4. n = x
      BY <2>2 DEF x
    <3> QED
      BY <3>2, <3>3, <3>4
  <2> QED
    BY <2>1, <2>2
<1> HIDE DEF n
<1> QED
  BY <1>1, <1>2, <1>3, PageState, PageHandled

(* Panes that are shown the same differ in what is shown of one.           *)
LEMMA FlagSeen ==
    ASSUME NEW e \in GoodEngines, NEW n \in GoodEngines, n.list = e.list, n.order = e.order,
           NEW k \in DOMAIN Page!ShownPanes(e), NEW p, p = Page!ShownPanes(e)[k],
           ~((p \in n.collapsed) <=> (p \in e.collapsed)) \/ ~((n.max = p) <=> (e.max = p))
    PROVE  Page!Layout(n) # Page!Layout(e)
<1>1. Page!ShownPanes(n) = Page!ShownPanes(e)
  BY ShownPanesFacts
<1>2. /\ Page!Layout(e)[k] = [pane |-> p, collapsed |-> p \in e.collapsed, max |-> e.max = p]
      /\ Page!Layout(n)[k] = [pane |-> p, collapsed |-> p \in n.collapsed, max |-> n.max = p]
  BY <1>1, LayoutFacts
<1>3. /\ Page!Layout(e)[k].collapsed = (p \in e.collapsed) /\ Page!Layout(e)[k].max = (e.max = p)
      /\ Page!Layout(n)[k].collapsed = (p \in n.collapsed) /\ Page!Layout(n)[k].max = (n.max = p)
  BY <1>2
<1> SUFFICES ASSUME Page!Layout(n) = Page!Layout(e) PROVE FALSE
  OBVIOUS
<1>4. (p \in e.collapsed) = (p \in n.collapsed) /\ (e.max = p) = (n.max = p)
  BY <1>3
<1> QED
  BY <1>4

LEMMA PaneGone ==
    ASSUME NEW e \in GoodEngines, NEW n \in GoodEngines,
           NEW k \in DOMAIN Page!ShownPanes(e),
           \A ind \in Values(n.list) : ind.pane # Page!ShownPanes(e)[k]
    PROVE  Page!Layout(n) # Page!Layout(e)
<1> SUFFICES ASSUME Page!Layout(n) = Page!Layout(e) PROVE FALSE
  OBVIOUS
<1> DEFINE p == Page!ShownPanes(e)[k]
<1>1. /\ DOMAIN Page!Layout(e) = DOMAIN Page!ShownPanes(e)
      /\ Page!Layout(e)[k] = [pane |-> p, collapsed |-> p \in e.collapsed, max |-> e.max = p]
  BY LayoutFacts
<1>2. k \in DOMAIN Page!ShownPanes(n)
  BY <1>1, LayoutFacts
<1> DEFINE q == Page!ShownPanes(n)[k]
<1>3. /\ q \in Values(Page!ShownPanes(n))
      /\ Page!Layout(n)[k] = [pane |-> q, collapsed |-> q \in n.collapsed, max |-> n.max = q]
  BY <1>2, LayoutFacts
<1>4. Page!Layout(e)[k].pane = p /\ Page!Layout(n)[k].pane = q
  BY <1>1, <1>3
<1>5. p = q
  BY <1>4
<1>6. \E ind \in Values(n.list) : ind.pane = q
  BY <1>3, LayoutFacts
<1> QED
  BY <1>5, <1>6

(* The buttons are on the panes that are shown.                            *)
LEMMA ButtonPane ==
    ASSUME PageInv, changed = {}, NEW k \in DOMAIN layout
    PROVE  /\ k \in DOMAIN Page!ShownPanes(engine)
           /\ layout[k].pane = Page!ShownPanes(engine)[k] /\ layout[k].pane \in Page!Panes
<1>1. layout = Page!Layout(engine) /\ engine \in GoodEngines
  BY Unchanged, PageState
<1>2. k \in DOMAIN Page!ShownPanes(engine)
  BY <1>1, LayoutFacts
<1> DEFINE p == Page!ShownPanes(engine)[k]
<1>3. /\ p \in Page!Panes
      /\ layout[k] = [pane |-> p, collapsed |-> p \in engine.collapsed, max |-> engine.max = p]
  BY <1>1, <1>2, LayoutFacts
<1> HIDE DEF p
<1>4. layout[k].pane = p
  BY <1>3
<1> QED
  BY <1>2, <1>3, <1>4 DEF p

LEMMA PagePaneUpDown ==
    ASSUME PageInv, NEW pane, NEW d \in {-1, 1}, Page!PaneUpDown(pane, d)
    PROVE  PageInv'
<1> DEFINE n == Page!MovePane(engine, pane, d)
<1>1. Page!Pressed(n) /\ gone' = gone
  BY DEF Page!PaneUpDown
<1>2. /\ n \in GoodEngines /\ Len(n.list) = Len(engine.list)
      /\ Values(n.list) = Values(engine.list)
      /\ n = engine \/ Page!Layout(n) # Page!Layout(engine)
  BY PageState, MovePaneFacts
<1> HIDE DEF n
<1>3. Len(n.list) <= MaxIndicators /\ Values(n.list) \subseteq Values(engine.list)
      /\ gone' \in SUBSET Names
  BY <1>1, <1>2, PageState
<1> QED
  BY <1>1, <1>2, <1>3, PagePressed

LEMMA PagePaneDelete ==
    ASSUME PageInv, NEW k \in DOMAIN layout, Page!PaneDelete(layout[k].pane)
    PROVE  PageInv'
<1> DEFINE pane == layout[k].pane
           n == Page!RemovePane(engine, pane)
<1>1. Page!Pressed(n) /\ gone' = gone \union Page!NamesGone(n)
  BY DEF Page!PaneDelete
<1>2. changed = {}
  BY <1>1 DEF Page!Pressed
<1>3. /\ k \in DOMAIN Page!ShownPanes(engine)
      /\ pane = Page!ShownPanes(engine)[k] /\ pane \in Page!Panes
  BY <1>2, ButtonPane
<1> HIDE DEF pane
<1>4. /\ n \in GoodEngines /\ Len(n.list) <= Len(engine.list)
      /\ Values(n.list) = {ind \in Values(engine.list) : ind.pane # pane}
  BY <1>3, PageState, RemovePaneFacts
<1> HIDE DEF n
<1>5. Page!Layout(n) # Page!Layout(engine)
  <2>1. \A ind \in Values(n.list) : ind.pane # pane
    BY <1>4
  <2>2. \A ind \in Values(n.list) : ind.pane # Page!ShownPanes(engine)[k]
    BY <1>3, <2>1
  <2> QED
    BY <1>3, <1>4, <2>2, PageState, PaneGone
<1>6. Len(n.list) <= MaxIndicators
  <2>1. Len(n.list) \in Nat
    BY <1>4, GoodFields, LenProperties
  <2> QED
    BY <1>4, <2>1, PageState
<1>7. Values(n.list) \subseteq Values(engine.list) /\ gone' \in SUBSET Names
  BY <1>1, <1>4, PageState, NamesOf
<1> QED
  BY <1>1, <1>4, <1>5, <1>6, <1>7, PagePressed

LEMMA PagePaneCollapse ==
    ASSUME PageInv, NEW k \in DOMAIN layout, Page!PaneCollapse(layout[k].pane)
    PROVE  PageInv'
<1> DEFINE pane == layout[k].pane
           n == IF pane \in engine.collapsed THEN Page!ExpandPane(engine, pane)
                ELSE Page!CollapsePane(engine, pane)
           c == IF pane \in engine.collapsed THEN engine.collapsed \ {pane}
                ELSE engine.collapsed \union {pane}
<1>1. Page!Pressed(n) /\ gone' = gone
  BY DEF Page!PaneCollapse
<1>2. changed = {}
  BY <1>1 DEF Page!Pressed
<1>3. /\ k \in DOMAIN Page!ShownPanes(engine)
      /\ pane = Page!ShownPanes(engine)[k] /\ pane \in Page!Panes
  BY <1>2, ButtonPane
<1> HIDE DEF pane
<1>4. /\ n \in GoodEngines
      /\ n = [list |-> engine.list, order |-> engine.order, collapsed |-> c,
              max |-> engine.max]
  BY <1>3, PageState, FlagsAreGood
<1> HIDE DEF n
<1>5. n.list = engine.list /\ n.order = engine.order /\ n.collapsed = c
  BY <1>4
<1>6. ~((pane \in n.collapsed) <=> (pane \in engine.collapsed))
  BY <1>5
<1>7. Page!Layout(n) # Page!Layout(engine)
  BY <1>3, <1>4, <1>5, <1>6, PageState, FlagSeen
<1>8. Len(n.list) <= MaxIndicators /\ Values(n.list) \subseteq Values(engine.list)
      /\ gone' \in SUBSET Names
  BY <1>1, <1>5, PageState
<1> QED
  BY <1>1, <1>4, <1>7, <1>8, PagePressed

LEMMA PagePaneMaximize ==
    ASSUME PageInv, NEW k \in DOMAIN layout, Page!PaneMaximize(layout[k].pane)
    PROVE  PageInv'
<1> DEFINE pane == layout[k].pane
           m == IF engine.max = pane THEN None ELSE pane
           n == Page!MaximizePane(engine, m)
<1>1. Page!Pressed(n) /\ gone' = gone
  BY DEF Page!PaneMaximize
<1>2. changed = {}
  BY <1>1 DEF Page!Pressed
<1>3. /\ k \in DOMAIN Page!ShownPanes(engine)
      /\ pane = Page!ShownPanes(engine)[k] /\ pane \in Page!Panes
  BY <1>2, ButtonPane
<1>4. m \in Page!Panes \union {None} /\ ~((m = pane) <=> (engine.max = pane))
  BY <1>3, PageConstants
<1> HIDE DEF pane, m
<1>5. /\ n \in GoodEngines
      /\ n = [list |-> engine.list, order |-> engine.order, collapsed |-> engine.collapsed,
              max |-> m]
  BY <1>3, <1>4, PageState, FlagsAreGood
<1> HIDE DEF n
<1>6. n.list = engine.list /\ n.order = engine.order /\ n.max = m
  BY <1>5
<1>7. Page!Layout(n) # Page!Layout(engine)
  BY <1>3, <1>4, <1>5, <1>6, PageState, FlagSeen
<1>8. Len(n.list) <= MaxIndicators /\ Values(n.list) \subseteq Values(engine.list)
      /\ gone' \in SUBSET Names
  BY <1>1, <1>6, PageState
<1> QED
  BY <1>1, <1>5, <1>7, <1>8, PagePressed

LEMMA PageChangeSymbol ==
    ASSUME PageInv, NEW s \in Symbols, Page!ChangeSymbol(s)
    PROVE  PageInv'
<1>1. /\ changed = {} /\ symbol' = s /\ changed' = {"symbol"} /\ touched' = TRUE
      /\ changes < MaxChanges /\ changes' = changes + 1
      /\ engine' = engine /\ active' = active /\ restored' = restored /\ removed' = removed
      /\ persisted' = persisted /\ layout' = layout /\ stored' = stored /\ loaded' = loaded
      /\ paned' = paned /\ gone' = gone /\ rounds' = rounds
  BY DEF Page!ChangeSymbol
<1>2. /\ rounds = 0 /\ active = Page!Current(engine) /\ layout = Page!Layout(engine)
      /\ Complete(active) /\ (stored # None => Complete(stored.list))
      /\ (persisted # None => Complete(persisted.list))
      /\ restored \/ Page!RestoredList = <<>>
  BY <1>1, Unchanged
<1>3. PageTypes'
  <2>1. changes' \in 0 .. MaxChanges
    BY <1>1, PageConstants DEF PageInv, PageTypes
  <2>2. changed' \in SUBSET Page!Dirty
    BY <1>1 DEF Page!Dirty
  <2> QED
    BY <1>1, <2>1, <2>2 DEF PageInv, PageTypes
<1>4. Echoes'
  <2>1. active' = Page!Current(engine)' /\ layout' = Page!Layout(engine)'
    BY <1>1, <1>2 DEF Page!Current
  <2> QED
    BY <1>1, <2>1 DEF PageInv, Echoes
<1>5. Mounting' /\ Restoring'
  BY <1>1 DEF Mounting, Restoring
<1>6. Saves'
  BY <1>1 DEF Saves, Page!Due
<1>7. Completes'
  BY <1>1, <1>2 DEF Completes
<1>8. Calms'
  <2>1. Page!RestoredList' = Page!RestoredList
    BY <1>1 DEF Page!RestoredList
  <2> QED
    BY <1>1, <1>2, <2>1 DEF Calms, Page!Due
<1> QED
  BY <1>3, <1>4, <1>5, <1>6, <1>7, <1>8 DEF PageInv

LEMMA PageNewBars ==
    ASSUME PageInv, Page!NewBars
    PROVE  PageInv'
<1>1. /\ changed = {} /\ loaded' = TRUE /\ changed' = {"bars"}
      /\ engine' = engine /\ active' = active /\ restored' = restored /\ removed' = removed
      /\ persisted' = persisted /\ symbol' = symbol /\ layout' = layout /\ stored' = stored
      /\ paned' = paned /\ gone' = gone /\ touched' = touched /\ changes' = changes
      /\ rounds' = rounds
  BY DEF Page!NewBars, Page!page
<1>2. /\ rounds = 0 /\ active = Page!Current(engine) /\ layout = Page!Layout(engine)
      /\ Complete(active) /\ (stored # None => Complete(stored.list))
      /\ (persisted # None => Complete(persisted.list))
      /\ Page!MaySave => stored = Now
      /\ restored \/ Page!RestoredList = <<>>
  BY <1>1, Unchanged
<1>3. PageTypes'
  <2>1. changed' \in SUBSET Page!Dirty
    BY <1>1 DEF Page!Dirty
  <2> QED
    BY <1>1, <2>1 DEF PageInv, PageTypes
<1>4. Echoes'
  <2>1. active' = Page!Current(engine)' /\ layout' = Page!Layout(engine)'
    BY <1>1, <1>2 DEF Page!Current
  <2> QED
    BY <1>1, <2>1 DEF PageInv, Echoes
<1>5. Mounting'
  BY <1>1 DEF Mounting
<1>6. Saves'
  BY <1>1, <1>2 DEF Saves, Now, Page!MaySave
<1>7. Completes'
  BY <1>1, <1>2 DEF Completes
<1>8. Calms'
  <2>1. Page!RestoredList' = Page!RestoredList
    BY <1>1 DEF Page!RestoredList
  <2> QED
    BY <1>1, <1>2, <2>1 DEF Calms, Page!Due
<1>9. Restoring'
  <2>1. "mount" \notin changed /\ ~Page!Due({"engine", "persisted"})
    BY <1>1 DEF Page!Due
  <2>2. Restoring
    BY DEF PageInv
  <2> QED
    BY <1>1, <2>1, <2>2 DEF Restoring
<1> QED
  BY <1>3, <1>4, <1>5, <1>6, <1>7, <1>8, <1>9 DEF PageInv

(* A page that has just been mounted. *)
LEMMA NoEngineFacts ==
    /\ Page!NoEngine \in GoodEngines /\ Page!NoEngine.list = <<>>
    /\ <<>> \in Lists /\ Len(<<>>) = 0
<1> DEFINE z == <<>>
           n == [list |-> z, order |-> z, collapsed |-> {}, max |-> None]
<1>1. z \in Seq(Inds) /\ z \in Seq(Page!Panes) /\ Len(z) = 0 /\ DOMAIN z = {}
  BY EmptySeq
<1>2. Page!NoEngine = n
  BY DEF Page!NoEngine
<1> HIDE DEF z
<1>3. z \in Lists /\ Distinct(z) /\ Page!PanesOf(z) = {}
  BY <1>1 DEF Lists, Apart, Once, Distinct, Page!PanesOf
<1>4. n \in Engines /\ n.list = z /\ n.order = z
  BY <1>1 DEF Engines
<1> HIDE DEF n
<1>5. Ordered(n)
  BY <1>1, <1>3, <1>4 DEF Ordered
<1>6. n \in GoodEngines
  BY <1>3, <1>4, <1>5 DEF GoodEngines
<1> QED
  BY <1>1, <1>2, <1>3, <1>4, <1>6 DEF z

LEMMA PageReopen ==
    ASSUME PageInv, Page!Reopen
    PROVE  PageInv'
<1>1. /\ changed = {} /\ engine' = Page!NoEngine /\ active' = <<>>
      /\ restored' = FALSE /\ removed' = {} /\ persisted' = stored
      /\ symbol' = IF stored = None THEN Page!Blank ELSE stored.symbol
      /\ loaded' = FALSE /\ changed' = {"mount"}
      /\ paned' = FALSE /\ gone' = {} /\ touched' = FALSE
      /\ stored' = stored /\ changes' = changes /\ rounds' = rounds
  BY DEF Page!Reopen, Page!Mounted
<1>2. rounds = 0 /\ (stored # None => Complete(stored.list))
  BY <1>1, Unchanged
<1>3. /\ Page!NoEngine \in GoodEngines /\ Page!NoEngine.list = <<>>
      /\ <<>> \in Lists /\ Len(<<>>) = 0
  BY NoEngineFacts
<1>4. PageTypes'
  <2>1. stored \in Stores \union {None} /\ changes \in 0 .. MaxChanges
    BY DEF PageInv, PageTypes
  <2>2. symbol' \in Symbols
    <3>1. stored # None => stored.symbol \in Symbols
      BY <2>1 DEF Stores
    <3> QED
      BY <1>1, <3>1, PageConstants
  <2>3. changed' \in SUBSET Page!Dirty
    BY <1>1 DEF Page!Dirty
  <2>4. Len(engine.list)' <= MaxIndicators /\ Len(active)' <= MaxIndicators
    BY <1>1, <1>3, PageConstants
  <2> QED
    BY <1>1, <1>3, <2>1, <2>2, <2>3, <2>4 DEF PageTypes
<1>5. Echoes'
  <2>1. active' = Page!Current(engine)'
    BY <1>1, <1>3, CurrentSame DEF Page!Current
  <2> QED
    BY <1>1, <1>3, <2>1 DEF Echoes
<1>6. Mounting'
  BY <1>1, <1>2 DEF Mounting
<1>7. Saves'
  BY <1>1 DEF Saves, Page!MaySave
<1>8. Completes'
  <2>1. Complete(<<>>)
    BY EmptySeq DEF Complete, Signals
  <2> QED
    BY <1>1, <1>2, <2>1 DEF Completes
<1>9. Calms'
  BY <1>1, <1>2 DEF Calms, Page!Due
<1>10. Restoring'
  BY <1>1 DEF Restoring
<1> QED
  BY <1>4, <1>5, <1>6, <1>7, <1>8, <1>9, <1>10 DEF PageInv

LEMMA PageStarts ==
    ASSUME Page!Init
    PROVE  PageInv
<1>1. /\ engine = Page!NoEngine /\ active = <<>>
      /\ restored = FALSE /\ removed = {} /\ persisted = None /\ stored = None
      /\ symbol = Page!Blank /\ loaded = FALSE /\ changed = {"mount"}
      /\ paned = FALSE /\ gone = {} /\ touched = FALSE /\ changes = 0 /\ rounds = 0
  BY DEF Page!Init
<1>2. /\ Page!NoEngine \in GoodEngines /\ Page!NoEngine.list = <<>>
      /\ <<>> \in Lists /\ Len(<<>>) = 0
  BY NoEngineFacts
<1>3. PageTypes
  <2>1. changed \in SUBSET Page!Dirty
    BY <1>1 DEF Page!Dirty
  <2>2. Len(engine.list) <= MaxIndicators /\ Len(active) <= MaxIndicators
        /\ changes \in 0 .. MaxChanges /\ symbol \in Symbols
    BY <1>1, <1>2, PageConstants
  <2> QED
    BY <1>1, <1>2, <2>1, <2>2 DEF PageTypes
<1>4. Echoes
  <2>1. active = Page!Current(engine)
    BY <1>1, <1>2, CurrentSame DEF Page!Current
  <2> QED
    BY <1>1, <1>2, <2>1 DEF Echoes
<1>5. Mounting /\ Restoring
  BY <1>1 DEF Mounting, Restoring
<1>6. Saves
  BY <1>1 DEF Saves, Page!MaySave
<1>7. Completes
  <2>1. Complete(<<>>)
    BY EmptySeq DEF Complete, Signals
  <2> QED
    BY <1>1, <2>1 DEF Completes
<1>8. Calms
  BY <1>1 DEF Calms, Page!Due
<1> QED
  BY <1>3, <1>4, <1>5, <1>6, <1>7, <1>8 DEF PageInv

-----------------------------------------------------------------------------
(* A round of effects. *)
Tuned == IF Page!Due({"mount", "engine", "persisted"})
         THEN Page!SetSubPaneState(engine, Page!RestoredPanes) ELSE engine
Revived == IF Page!Restores THEN Page!Apply(Tuned, Page!RestoredList) ELSE Tuned
Reconciled == IF Page!Reconciles(Revived) THEN Page!Apply(Revived, Page!Desired(Revived))
           ELSE Revived
Tells == Page!Restores \/ Page!Reconciles(Revived) \/ Page!Synced(Reconciled) # Reconciled

LEMMA RenderIs ==
    ASSUME Page!Render
    PROVE  /\ changed # {}
           /\ Page!Save(Tuned)
           /\ engine' = Page!Synced(Reconciled)
           /\ restored' = (restored \/ Page!Restores)
           /\ active' = IF Tells THEN Page!Synced(Reconciled).list
                        ELSE Page!Current(Page!Synced(Reconciled))
           /\ layout' = IF Page!Due({"mount", "engine", "persisted", "active", "bars"})
                        THEN Page!Layout(Page!Synced(Reconciled)) ELSE layout
           /\ changed' = (IF Tells \/ "mount" \in changed THEN {"active"} ELSE {})
                         \union (IF "mount" \in changed THEN {"engine", "persisted"} ELSE {})
                         \union (IF layout' # layout THEN {"layout"} ELSE {})
           /\ rounds' = IF changed' = {} THEN 0 ELSE rounds + 1
           /\ paned' = (paned /\ active' # Page!Synced(Reconciled).list)
           /\ removed' = removed /\ persisted' = persisted /\ symbol' = symbol
           /\ loaded' = loaded /\ gone' = gone /\ touched' = touched /\ changes' = changes
  BY DEF Page!Render, Page!TakenOver, Tuned, Revived, Reconciled, Tells

(* What a round stores has the types of a store. *)
LEMMA SaveFacts ==
    ASSUME PageInv, NEW e \in GoodEngines, Page!Save(e), Page!Current(e) = active
    PROVE  /\ stored' = IF Page!Due({"mount", "persisted", "active", "layout", "symbol"})
                           /\ Page!MaySave
                        THEN [list |-> Page!Saved(active), sub |-> Page!SubPaneState(e),
                              symbol |-> symbol]
                        ELSE stored
           /\ stored' \in Stores \union {None}
<1>1. stored' = IF Page!Due({"mount", "persisted", "active", "layout", "symbol"})
                   /\ Page!MaySave
                THEN [list |-> Page!Saved(active), sub |-> Page!SubPaneState(e),
                      symbol |-> symbol]
                ELSE stored
  BY DEF Page!Save
<1> DEFINE s == Page!Saved(active)
           p == Page!SubPaneState(e)
<1>2. s \in SavedLists /\ Len(s) <= MaxIndicators /\ p \in SubStates
      /\ symbol \in Symbols /\ stored \in Stores \union {None}
  <2>1. s \in SavedLists
    BY PageState, SavedIsList
  <2>2. Len(s) = Len(active)
    BY PageState, SavedFacts
  <2>3. p \in SubStates
    BY SubPaneStateFacts
  <2> QED
    BY <2>1, <2>2, <2>3, PageState DEF PageInv, PageTypes
<1> HIDE DEF s, p
<1>3. [list |-> s, sub |-> p, symbol |-> symbol] \in Stores
  BY <1>2 DEF Stores
<1> QED
  BY <1>1, <1>2, <1>3 DEF s, p

(* The first round after a page is mounted. *)
LEMMA RenderMount ==
    ASSUME PageInv, Page!Render, "mount" \in changed
    PROVE  PageInv'
<1>1. /\ changed = {"mount"} /\ rounds = 0 /\ engine = Page!NoEngine /\ active = <<>>
      /\ ~restored /\ removed = {} /\ ~loaded /\ ~touched /\ ~paned
  BY DEF PageInv, Mounting
<1>2. persisted # None => Complete(persisted.list)
  BY DEF PageInv, Completes
<1>3. /\ Page!RestoredList \in SavedLists /\ Len(Page!RestoredList) <= MaxIndicators
      /\ Page!RestoredPanes \in SubStates
      /\ Complete(Page!RestoredList)
      /\ persisted # None => Page!RestoredList = persisted.list
                             /\ Page!RestoredPanes = persisted.sub
  BY <1>2, PageState, RestoredFacts
<1>4. /\ Page!NoEngine \in GoodEngines /\ Page!NoEngine.list = <<>>
      /\ <<>> \in Lists /\ Len(<<>>) = 0
  BY NoEngineFacts
<1>5. /\ Tuned \in GoodEngines /\ Tuned.list = <<>>
  <2>1. Tuned = Page!SetSubPaneState(engine, Page!RestoredPanes)
    BY <1>1 DEF Tuned, Page!Due
  <2>2. engine \in GoodEngines /\ engine.list = <<>>
    BY <1>1, <1>4
  <2> QED
    BY <1>3, <2>1, <2>2, SetSubPaneStateFacts
<1>6. Page!Restores <=> Page!RestoredList # <<>>
  BY <1>1 DEF Page!Restores, Page!Due
<1>7. /\ Revived \in GoodEngines /\ Page!Saved(Revived.list) = Page!RestoredList
      /\ Len(Revived.list) = Len(Page!RestoredList)
      /\ ~Page!Restores => Revived.list = <<>>
  <2>1. CASE Page!Restores
    <3> DEFINE l == Page!RestoredList
               n == Page!Apply(Tuned, l)
    <3>1. n \in GoodEngines /\ Len(n.list) = Len(l) /\ Page!Saved(n.list) = l
      BY <1>3, <1>5, ApplyFacts
    <3>2. Revived = n
      BY <2>1 DEF Revived
    <3> QED
      BY <2>1, <3>1, <3>2
  <2>2. CASE ~Page!Restores
    <3>1. Revived = Tuned /\ Page!RestoredList = <<>>
      BY <1>6, <2>2 DEF Revived
    <3>2. Page!Saved(<<>>) = <<>>
      <4> DEFINE z == <<>>
      <4>1. z \in Seq(Inds) /\ DOMAIN z = {} /\ Len(z) = 0
        BY EmptySeq
      <4>2. Page!Saved(z) \in Seq(Page!SavedIndicator) /\ Len(Page!Saved(z)) = Len(z)
        <5> HIDE DEF z
        <5> QED
          BY <4>1, SavedFacts
      <4>3. Page!Saved(z) = <<>>
        BY <4>1, <4>2, EmptySeq
      <4> QED
        BY <4>3
    <3> QED
      BY <1>5, <2>2, <3>1, <3>2
  <2> QED
    BY <2>1, <2>2
<1>8. Reconciled = Revived
  BY <1>1 DEF Reconciled, Page!Reconciles
<1>9. Complete(Revived.list) /\ Revived.list \in Lists /\ Revived.list \in Seq(Inds)
  <2>1. Revived.list \in Lists /\ Revived.list \in Seq(Inds)
    BY <1>7, GoodFields
  <2>2. Complete(Page!Saved(Revived.list))
    BY <1>3, <1>7
  <2>3. Complete(Revived.list)
    BY <2>1, <2>2, SavedAlike, AlikeComplete
  <2> QED
    BY <2>1, <2>3
<1>10. Page!Synced(Reconciled) = Revived
  BY <1>7, <1>8, <1>9, SyncedComplete
<1>11. Tells <=> Page!Restores
  BY <1>1, <1>8, <1>10 DEF Tells, Page!Reconciles
<1>12. /\ engine' = Revived /\ restored' = Page!Restores
       /\ layout' = Page!Layout(Revived)
       /\ {"active", "engine", "persisted"} \subseteq changed'
       /\ changed' \subseteq {"active", "engine", "persisted", "layout"}
       /\ rounds' = 1 /\ paned' = FALSE
       /\ removed' = removed /\ persisted' = persisted /\ symbol' = symbol
       /\ loaded' = loaded /\ gone' = gone /\ touched' = touched /\ changes' = changes
  <2>1. Page!Due({"mount", "engine", "persisted", "active", "bars"})
    BY <1>1 DEF Page!Due
  <2>2. changed' = {"active", "engine", "persisted"}
                   \union (IF layout' # layout THEN {"layout"} ELSE {})
    BY <1>1, RenderIs
  <2>3. rounds' = 1
    <3>1. changed' # {}
      BY <2>2
    <3> QED
      BY <1>1, <3>1, RenderIs
  <2>4. engine' = Revived /\ layout' = Page!Layout(Revived)
    BY <1>10, <2>1, RenderIs
  <2>5. /\ {"active", "engine", "persisted"} \subseteq changed'
        /\ changed' \subseteq {"active", "engine", "persisted", "layout"}
    BY <2>2
  <2>6. restored' = (restored \/ Page!Restores) /\ restored = FALSE
    BY <1>1, RenderIs DEF PageInv, PageTypes
  <2>7. restored' = Page!Restores
    BY <2>6 DEF Page!Restores
  <2>8. paned' = FALSE
    BY <1>1, RenderIs
  <2>9. /\ removed' = removed /\ persisted' = persisted /\ symbol' = symbol
        /\ loaded' = loaded /\ gone' = gone /\ touched' = touched /\ changes' = changes
    BY RenderIs
  <2> QED
    BY <2>3, <2>4, <2>5, <2>7, <2>8, <2>9
<1>13. active' = Revived.list
  <2>1. CASE Page!Restores
    BY <1>10, <1>11, <2>1, RenderIs
  <2>2. CASE ~Page!Restores
    <3>1. active' = Page!Current(Revived)
      BY <1>10, <1>11, <2>2, RenderIs
    <3>2. Page!Current(Revived) = active
      BY <1>1, <1>7, <1>9, <2>2, CurrentSelf
    <3> QED
      BY <1>1, <1>7, <2>2, <3>1, <3>2
  <2> QED
    BY <2>1, <2>2
<1>14. stored' = stored
  <2>1. ~Page!MaySave
    BY <1>1 DEF Page!MaySave
  <2> QED
    BY <2>1, RenderIs DEF Page!Save
<1>15. stored # None => Complete(stored.list)
  BY <1>1 DEF PageInv, Completes
<1>16. PageTypes'
  <2>1. changed' \in SUBSET Page!Dirty
    BY <1>12 DEF Page!Dirty
  <2>2. Len(engine.list)' <= MaxIndicators /\ Len(active)' <= MaxIndicators
    BY <1>3, <1>7, <1>12, <1>13
  <2>3. restored' \in BOOLEAN
    BY <1>12 DEF Page!Restores
  <2> QED
    BY <1>7, <1>9, <1>12, <1>13, <1>14, <2>1, <2>2, <2>3 DEF PageInv, PageTypes
<1>17. Echoes'
  <2>1. active' = Page!Current(engine)'
    BY <1>9, <1>12, <1>13, CurrentSame DEF Page!Current
  <2> QED
    BY <1>12, <1>13, <2>1 DEF Echoes
<1>18. Mounting'
  BY <1>12 DEF Mounting
<1>19. Saves'
  BY <1>12 DEF Saves, Page!Due
<1>20. Completes'
  BY <1>2, <1>9, <1>12, <1>13, <1>14, <1>15 DEF Completes
<1>21. Calms'
  <2>1. Page!RestoredList' = Page!RestoredList
    BY <1>12 DEF Page!RestoredList
  <2> QED
    BY <1>1, <1>6, <1>9, <1>12, <1>13, <2>1 DEF Calms, Page!Due
<1>22. Restoring'
  <2>1. Page!Due({"engine", "persisted"})'
    BY <1>12 DEF Page!Due
  <2> QED
    BY <1>1, <1>3, <1>7, <1>12, <1>13, <2>1 DEF Restoring
<1> QED
  BY <1>16, <1>17, <1>18, <1>19, <1>20, <1>21, <1>22 DEF PageInv

(* The round that puts the pane state of the store on the engine again.    *)
LEMMA RenderPanes ==
    ASSUME PageInv, Page!Render, Page!Due({"engine", "persisted"})
    PROVE  PageInv'
<1>1. /\ rounds = 1 /\ ~loaded /\ "active" \in changed /\ "persisted" \in changed
      /\ changed \intersect {"mount", "bars", "symbol"} = {}
      /\ Complete(active) /\ (restored \/ Page!RestoredList = <<>>)
  BY DEF PageInv, Calms
<1>2. ~paned /\ active = engine.list
  BY <1>1 DEF PageInv, Echoes
<1>3. persisted # None => Complete(persisted.list)
  BY DEF PageInv, Completes
<1>4. /\ Page!RestoredPanes \in SubStates
      /\ persisted # None => Page!RestoredPanes = persisted.sub
  BY <1>3, PageState, RestoredFacts
<1>5. Tuned = Page!SetSubPaneState(engine, Page!RestoredPanes)
  BY <1>1 DEF Tuned, Page!Due
<1>6. Tuned \in GoodEngines /\ Tuned.list = engine.list
  BY <1>4, <1>5, PageState, SetSubPaneStateFacts
<1>7. ~Page!Restores /\ Revived = Tuned /\ Reconciled = Tuned
  BY <1>1 DEF Page!Restores, Page!Reconciles, Revived, Reconciled
<1>8. Page!Synced(Reconciled) = Tuned
  BY <1>1, <1>2, <1>6, <1>7, SyncedComplete
<1>9. ~Tells
  BY <1>1, <1>7, <1>8 DEF Tells, Page!Reconciles
<1>10. Page!Current(Tuned) = active
  BY <1>2, <1>6, PageState, CurrentSelf
<1>11. /\ engine' = Tuned /\ active' = active /\ restored' = restored
       /\ layout' = Page!Layout(Tuned)
       /\ changed' = {} \/ changed' = {"layout"}
       /\ rounds' = (IF changed' = {} THEN 0 ELSE 2) /\ paned' = FALSE
       /\ removed' = removed /\ persisted' = persisted /\ symbol' = symbol
       /\ loaded' = loaded /\ gone' = gone /\ touched' = touched /\ changes' = changes
  <2>1. Page!Due({"mount", "engine", "persisted", "active", "bars"})
    BY <1>1 DEF Page!Due
  <2>2. engine' = Tuned /\ active' = active /\ layout' = Page!Layout(Tuned)
    BY <1>8, <1>9, <1>10, <2>1, RenderIs
  <2>3. restored' = restored
    <3>1. restored' = (restored \/ Page!Restores) /\ restored \in BOOLEAN
      BY RenderIs DEF PageInv, PageTypes
    <3> QED
      BY <1>7, <3>1
  <2>4. "mount" \notin changed
    BY <1>1
  <2>5. changed' = {} \/ changed' = {"layout"}
    BY <1>9, <2>4, RenderIs
  <2>6. rounds' = IF changed' = {} THEN 0 ELSE 2
    BY <1>1, RenderIs
  <2>7. paned' = FALSE
    BY <1>2, RenderIs
  <2>8. /\ removed' = removed /\ persisted' = persisted /\ symbol' = symbol
        /\ loaded' = loaded /\ gone' = gone /\ touched' = touched /\ changes' = changes
    BY RenderIs
  <2> QED
    BY <2>2, <2>3, <2>5, <2>6, <2>7, <2>8
<1>12. /\ stored' = IF Page!MaySave
                    THEN [list |-> Page!Saved(active), sub |-> Page!SubPaneState(Tuned),
                          symbol |-> symbol]
                    ELSE stored
       /\ stored' \in Stores \union {None}
  <2>1. Page!Due({"mount", "persisted", "active", "layout", "symbol"})
    BY <1>1 DEF Page!Due
  <2>2. Page!Save(Tuned)
    BY RenderIs
  <2> QED
    BY <1>6, <1>10, <2>1, <2>2, SaveFacts
<1>13. PageTypes'
  <2>1. changed' \in SUBSET Page!Dirty
    BY <1>11 DEF Page!Dirty
  <2>2. Len(engine.list)' <= MaxIndicators
    BY <1>6, <1>11, PageState
  <2> QED
    BY <1>6, <1>11, <1>12, <2>1, <2>2 DEF PageInv, PageTypes
<1>14. Echoes'
  <2>1. active' = Page!Current(engine)'
    BY <1>10, <1>11 DEF Page!Current
  <2>2. "active" \notin changed'
    BY <1>11
  <2> QED
    BY <1>2, <1>6, <1>11, <2>1, <2>2 DEF Echoes
<1>15. Mounting'
  BY <1>11 DEF Mounting
<1>16. Saves'
  <2>1. Page!MaySave' => Page!MaySave
    BY <1>11 DEF Page!MaySave
  <2>2. Page!MaySave => stored' = Now'
    BY <1>11, <1>12 DEF Now
  <2> QED
    BY <2>1, <2>2 DEF Saves
<1>17. Completes'
  <2>1. stored' # None => Complete(stored'.list)
    <3>1. CASE Page!MaySave
      <4>1. stored'.list = Page!Saved(active)
        BY <1>12, <3>1
      <4>2. Complete(Page!Saved(active))
        BY <1>1, PageState, SavedAlike, AlikeComplete
      <4> QED
        BY <4>1, <4>2
    <3>2. CASE ~Page!MaySave
      <4>1. stored' = stored /\ active = <<>>
        BY <1>12, <3>2 DEF Page!MaySave
      <4>2. stored # None => Complete(stored.list)
        BY <4>1 DEF PageInv, Completes
      <4> QED
        BY <4>1, <4>2
    <3> QED
      BY <3>1, <3>2
  <2> QED
    BY <1>1, <1>3, <1>11, <2>1 DEF Completes
<1>18. Calms'
  <2>1. Page!RestoredList' = Page!RestoredList
    BY <1>11 DEF Page!RestoredList
  <2> QED
    BY <1>1, <1>11, <2>1 DEF Calms, Page!Due
<1>19. Restoring'
  <2> SUFFICES ASSUME ~touched, persisted # None, persisted.list # <<>>
               PROVE  /\ Page!Saved(engine'.list) = persisted.list
                      /\ active' = engine'.list /\ removed' = {}
                      /\ engine' = Page!SetSubPaneState(engine', persisted.sub)
    BY <1>11 DEF Restoring
  <2>1. Page!Saved(engine.list) = persisted.list /\ active = engine.list /\ removed = {}
    BY <1>1 DEF PageInv, Restoring
  <2>2. Page!SetSubPaneState(Tuned, persisted.sub) = Tuned
    <3>1. Page!SetSubPaneState(Tuned, persisted.sub)
          = Page!SetSubPaneState(engine, persisted.sub)
      BY <1>6 DEF Page!SetSubPaneState
    <3> QED
      BY <1>4, <1>5, <3>1
  <2> QED
    BY <1>6, <1>11, <2>1, <2>2
<1> QED
  BY <1>13, <1>14, <1>15, <1>16, <1>17, <1>18, <1>19 DEF PageInv

(* Any other round starts with the engine as it is. *)
LEMMA Steady ==
    ASSUME PageInv, "mount" \notin changed, ~Page!Due({"engine", "persisted"})
    PROVE  /\ Tuned = engine /\ Revived = engine /\ ~Page!Restores
           /\ Page!Current(engine) = active
           /\ Page!Desired(engine) = Filtered(Base)
           /\ Page!Due({"mount", "persisted", "bars", "engine", "active"})
              <=> "bars" \in changed \/ "active" \in changed
           /\ Page!Due({"mount", "active"}) <=> "active" \in changed
<1>1. restored \/ Page!RestoredList = <<>>
  BY DEF PageInv, Calms
<1>2. /\ ~Page!Due({"mount", "engine", "persisted"})
      /\ Page!Due({"mount", "persisted", "bars", "engine", "active"})
         <=> "bars" \in changed \/ "active" \in changed
      /\ Page!Due({"mount", "active"}) <=> "active" \in changed
  BY DEF Page!Due
<1>3. Tuned = engine
  BY <1>2 DEF Tuned
<1>4. ~Page!Restores
  BY <1>1 DEF Page!Restores
<1>5. Revived = engine
  BY <1>3, <1>4 DEF Revived
<1>6. Page!Current(engine) = active
  BY DEF PageInv, Echoes
<1> QED
  BY <1>2, <1>3, <1>4, <1>5, <1>6, DesiredIs

LEMMA AlikeClean ==
    ASSUME NEW s, NEW t, Alike(s, t), Clean(s)
    PROVE  Clean(t)
  BY DEF Alike, Clean

LEMMA AlikeTurns ==
    ASSUME NEW s, NEW t, Alike(s, t)
    PROVE  Alike(t, s)
  BY DEF Alike

LEMMA BaseFacts ==
    ASSUME PageInv
    PROVE  /\ Base \in SavedLists /\ Len(Base) <= MaxIndicators /\ Len(Base) \in Nat
           /\ active = <<>> => Complete(Base)
           /\ active # <<>> => Base = Page!Saved(active) /\ Len(Base) = Len(active)
                               /\ Alike(Base, active) /\ Alike(active, Base)
<1>1. persisted # None => Complete(persisted.list)
  BY DEF PageInv, Completes
<1>2. /\ Page!RestoredList \in SavedLists /\ Len(Page!RestoredList) <= MaxIndicators
      /\ Complete(Page!RestoredList)
  BY <1>1, PageState, RestoredFacts
<1> DEFINE s == Page!Saved(active)
<1>3. s \in SavedLists /\ Len(s) = Len(active) /\ Alike(s, active)
  BY PageState, SavedIsList, SavedFacts, SavedAlike
<1>4. Alike(active, s)
  BY <1>3, AlikeTurns
<1> HIDE DEF s
<1>5. CASE active = <<>>
  <2>1. Base = Page!RestoredList
    BY <1>5 DEF Base
  <2>2. Len(Base) \in Nat
    BY <1>2, <2>1, SavedItems
  <2> QED
    BY <1>2, <1>5, <2>1, <2>2
<1>6. CASE active # <<>>
  <2>1. Base = s
    BY <1>6 DEF Base, s
  <2> QED
    BY <1>3, <1>4, <1>6, <2>1, PageState DEF s
<1> QED
  BY <1>5, <1>6

(* An effect that sets the page's list: what it leaves is complete.        *)
ToldTo(n) ==
    /\ n \in GoodEngines /\ Len(n.list) <= MaxIndicators /\ n.list # <<>>
    /\ Complete(n.list)
    /\ loaded => Clean(n.list)

LEMMA SyncedTold ==
    ASSUME NEW e, NEW n, SyncedTo(n, e), e.list # <<>>, e.list \in Seq(Inds),
           removed \in SUBSET (Names \intersect Removable), loaded => Clean(e.list)
    PROVE  ToldTo(n)
<1>1. n.list # <<>>
  <2>1. Len(e.list) \in Nat /\ Len(e.list) # 0
    BY EmptySeq, LenProperties
  <2>2. Len(n.list) # 0
    BY <2>1 DEF SyncedTo
  <2> QED
    BY <2>2, EmptySeq
<1>2. "score" \notin removed
  BY PageConstants
<1>3. loaded => Clean(n.list)
  BY <1>2 DEF Clean, SyncedTo
<1> QED
  BY <1>1, <1>3 DEF ToldTo, SyncedTo

LEMMA ToldByReconcile ==
    ASSUME PageInv, "mount" \notin changed, ~Page!Due({"engine", "persisted"}),
           Page!Reconciles(engine)
    PROVE  /\ ToldTo(Page!Synced(Page!Apply(engine, Page!Desired(engine))))
           /\ rounds = 0
           /\ ~(~touched /\ persisted # None /\ persisted.list # <<>>)
<1> DEFINE D == Page!Desired(engine)
           x == Page!Apply(engine, D)
<1>1. /\ D = Filtered(Base)
      /\ "bars" \in changed \/ "active" \in changed
      /\ loaded /\ D # <<>> /\ D # Page!Saved(engine.list)
  BY Steady DEF Page!Reconciles
<1>2. /\ Base \in SavedLists /\ Len(Base) <= MaxIndicators /\ Len(Base) \in Nat
      /\ active = <<>> => Complete(Base)
      /\ active # <<>> => Base = Page!Saved(active) /\ Len(Base) = Len(active)
                          /\ Alike(Base, active) /\ Alike(active, Base)
  BY BaseFacts
<1>3. /\ D \in SavedLists /\ Len(D) <= Len(Base)
      /\ Clean(D)
      /\ \A k \in DOMAIN D : \E i \in DOMAIN Base : D[k] = Base[i]
      /\ Scores(Base) # {} => Scores(D) # {}
      /\ Complete(Base) => Complete(D)
      /\ Clean(Base) => D = Base
  BY <1>1, <1>2, PageState, FilteredFacts
<1> HIDE DEF D
<1>4. Len(D) \in Nat /\ Len(D) # 0
  BY <1>1, <1>3, SavedItems, EmptySeq DEF SavedLists
<1>5. /\ x \in GoodEngines /\ x.collapsed = engine.collapsed /\ x.max = engine.max
      /\ Len(x.list) = Len(D) /\ Page!Saved(x.list) = D
  BY <1>3, PageState, ApplyFacts
<1> HIDE DEF x
<1>6. x.list \in Seq(Inds) /\ x.list # <<>> /\ Len(x.list) <= MaxIndicators
  <2>1. x.list \in Seq(Inds)
    BY <1>5, GoodFields
  <2>2. x.list # <<>>
    BY <1>4, <1>5, EmptySeq
  <2> QED
    BY <1>2, <1>3, <1>4, <1>5, <2>1, <2>2, PageState
<1>7. Alike(D, x.list) /\ Clean(x.list)
  <2>1. Alike(D, x.list)
    BY <1>5, <1>6, SavedAlike
  <2> QED
    BY <1>3, <2>1, AlikeClean
<1>8. ~(active # <<>> /\ active = engine.list /\ Clean(active))
  <2> SUFFICES ASSUME active # <<>>, active = engine.list, Clean(active) PROVE FALSE
    OBVIOUS
  <2>1. Clean(Base)
    BY <1>2, AlikeClean
  <2> QED
    BY <1>1, <1>2, <1>3, <2>1
<1>9. "active" \in changed => ~paned /\ active = engine.list
  BY DEF PageInv, Echoes
<1>10. rounds = 0
  <2>1. rounds \in 0 .. 2 /\ rounds # 2 /\ (rounds # 0 => "bars" \notin changed)
    <3>1. rounds = 2 => changed = {"layout"}
      BY DEF PageInv, Calms
    <3>2. rounds # 0 => changed \intersect {"mount", "bars", "symbol"} = {}
      BY DEF PageInv, Calms
    <3>3. rounds \in 0 .. 2
      BY DEF PageInv, Calms
    <3> QED
      BY <1>1, <3>1, <3>2, <3>3
  <2>2. ASSUME rounds = 1 PROVE FALSE
    <3>1. "active" \in changed
      BY <1>1, <2>1, <2>2
    <3>2. active # <<>> /\ Clean(active)
      BY <1>1, <2>2, <3>1 DEF PageInv, Calms
    <3> QED
      BY <1>8, <1>9, <3>1, <3>2
  <2> QED
    BY <2>1, <2>2
<1>11. ~(~touched /\ persisted # None /\ persisted.list # <<>>)
  <2> SUFFICES ASSUME ~touched, persisted # None, persisted.list # <<>> PROVE FALSE
    OBVIOUS
  <2>1. Page!Saved(engine.list) = persisted.list /\ active = engine.list /\ removed = {}
    BY DEF PageInv, Restoring
  <2>2. active # <<>>
    <3>1. Len(Page!Saved(active)) = Len(active) /\ Page!Saved(active) # <<>>
          /\ Page!Saved(active) \in Seq(Page!SavedIndicator)
      BY <2>1, PageState, SavedFacts
    <3>2. Len(active) # 0
      BY <3>1, EmptySeq
    <3> QED
      BY <3>2, EmptySeq
  <2>3. Clean(active)
    BY <2>1 DEF Clean
  <2> QED
    BY <1>8, <2>1, <2>2, <2>3
<1>12. ToldTo(Page!Synced(x))
  <2>1. CASE Complete(D)
    <3>1. Complete(x.list)
      BY <1>7, <2>1, AlikeComplete
    <3>2. Page!Synced(x) = x
      BY <1>5, <3>1, SyncedComplete
    <3> QED
      BY <1>5, <1>6, <1>7, <3>1, <3>2 DEF ToldTo
  <2>2. CASE ~Complete(D)
    <3>1. active # <<>> /\ ~Complete(active)
      BY <1>2, <1>3, <2>2, AlikeComplete
    <3>2. "active" \in changed /\ Page!Room(engine)
      BY <3>1 DEF PageInv, Completes
    <3>3. active = engine.list
      BY <1>9, <3>2
    <3>4. Len(x.list) <= Len(engine.list) /\ Len(x.list) \in Nat
      BY <1>2, <1>3, <1>4, <1>5, <3>1, <3>3, PageState
    <3>5. Page!PanesOf(x.list) \subseteq Page!PanesOf(engine.list)
      <4>1. \A k \in DOMAIN x.list : \E i \in DOMAIN engine.list :
                x.list[k].pane = engine.list[i].pane
        <5> SUFFICES ASSUME NEW k \in DOMAIN x.list
                     PROVE  \E i \in DOMAIN engine.list : x.list[k].pane = engine.list[i].pane
          OBVIOUS
        <5> DEFINE sx == Page!Saved(x.list)
                   sa == Page!Saved(active)
        <5>1. DOMAIN sx = DOMAIN x.list /\ sx[k] = [name |-> x.list[k].name,
                    pane |-> x.list[k].pane, visible |-> x.list[k].visible]
          BY <1>6, SavedFacts
        <5>2. DOMAIN sa = DOMAIN active
              /\ \A i \in DOMAIN active : sa[i] = [name |-> active[i].name,
                    pane |-> active[i].pane, visible |-> active[i].visible]
          BY PageState, SavedFacts
        <5>3. sx = D /\ sa = Base
          BY <1>2, <1>5, <3>1
        <5> HIDE DEF sx, sa
        <5>4. PICK i \in DOMAIN sa : sx[k] = sa[i]
          BY <1>3, <5>1, <5>3
        <5>5. sx[k].pane = x.list[k].pane
          BY <5>1
        <5>6. sa[i].pane = active[i].pane
          BY <5>2, <5>4
        <5> QED
          BY <3>3, <5>2, <5>4, <5>5, <5>6
      <4> QED
        BY <4>1 DEF Page!PanesOf
    <3>6. Scores(engine.list) # {} => Scores(x.list) # {}
      <4>1. Scores(Base) = Scores(active) /\ Scores(D) = Scores(x.list)
        BY <1>2, <1>7, <3>1, AlikeComplete
      <4> QED
        BY <1>3, <3>3, <4>1
    <3>7. Page!Room(x)
      BY <1>5, <3>2, <3>4, <3>5, <3>6, PageState, RoomKept
    <3>8. ~Complete(x.list)
      BY <1>7, <2>2, AlikeComplete
    <3>9. Page!Due({"mount", "active"})
      BY <3>2 DEF Page!Due
    <3>10. SyncedTo(Page!Synced(x), x)
      BY <1>5, <1>6, <3>7, <3>8, <3>9, PageState, SyncedFacts
    <3> QED
      BY <1>6, <1>7, <3>10, PageState, SyncedTold
  <2> QED
    BY <2>1, <2>2
<1> QED
  BY <1>10, <1>11, <1>12 DEF x, D

LEMMA ToldBySync ==
    ASSUME PageInv, "mount" \notin changed, ~Page!Due({"engine", "persisted"}),
           ~Page!Reconciles(engine), Page!Synced(engine) # engine
    PROVE  /\ ToldTo(Page!Synced(engine))
           /\ rounds = 0
           /\ ~(~touched /\ persisted # None /\ persisted.list # <<>>)
<1> DEFINE D == Page!Desired(engine)
<1>1. Page!Due({"mount", "active"}) /\ "active" \in changed
  BY SyncedIdle, Steady
<1>2. ~paned /\ active = engine.list
  BY <1>1 DEF PageInv, Echoes
<1>3. ~Complete(active)
  BY <1>2, PageState, SyncedComplete
<1>4. Page!Room(engine)
  BY <1>3 DEF PageInv, Completes
<1>5. Signals(active) # {}
  BY <1>3 DEF Complete
<1>6. active # <<>>
  BY <1>5, EmptySeq DEF Signals
<1>7. /\ Base \in SavedLists /\ Base = Page!Saved(active)
      /\ Alike(Base, active) /\ Alike(active, Base)
  BY <1>6, BaseFacts
<1>8. D = Filtered(Base)
  BY Steady
<1>9. /\ D \in SavedLists /\ Clean(D)
      /\ Signals(Base) # {} => Signals(D) # {}
  BY <1>7, <1>8, PageState, FilteredFacts
<1> HIDE DEF D
<1>10. loaded => Clean(engine.list)
  <2> SUFFICES ASSUME loaded PROVE Clean(engine.list)
    OBVIOUS
  <2>1. Signals(Base) = Signals(active)
    BY <1>7, AlikeComplete
  <2>2. D # <<>>
    BY <1>5, <1>9, <2>1, EmptySeq DEF Signals
  <2>3. Page!Due({"mount", "persisted", "bars", "engine", "active"})
    BY <1>1, Steady
  <2>4. D = Page!Saved(engine.list)
    BY <2>2, <2>3 DEF Page!Reconciles, D
  <2>5. Clean(Base)
    BY <1>2, <1>7, <1>9, <2>4
  <2> QED
    BY <1>2, <1>7, <2>5, AlikeClean
<1>11. rounds = 0
  <2>1. rounds # 2
    BY <1>1 DEF PageInv, Calms
  <2>2. rounds # 1
    BY <1>1, <1>3 DEF PageInv, Calms
  <2>3. rounds \in 0 .. 2
    BY DEF PageInv, Calms
  <2> QED
    BY <2>1, <2>2, <2>3
<1>12. SyncedTo(Page!Synced(engine), engine)
  BY <1>1, <1>2, <1>3, <1>4, PageState, SyncedFacts
<1>13. ToldTo(Page!Synced(engine))
  BY <1>2, <1>6, <1>10, <1>12, PageState, SyncedTold
<1>14. ~(~touched /\ persisted # None /\ persisted.list # <<>>)
  <2> SUFFICES ASSUME ~touched, persisted # None, persisted.list # <<>> PROVE FALSE
    OBVIOUS
  <2>1. Page!Saved(engine.list) = persisted.list
    BY DEF PageInv, Restoring
  <2>2. Complete(persisted.list)
    BY DEF PageInv, Completes
  <2>3. Complete(Base)
    BY <1>2, <1>7, <2>1, <2>2
  <2> QED
    BY <1>3, <1>7, <2>3, AlikeComplete
<1> QED
  BY <1>11, <1>13, <1>14

(* A round whose effects set the page's list. *)
LEMMA RenderTold ==
    ASSUME PageInv, Page!Render, "mount" \notin changed, ~Page!Due({"engine", "persisted"}),
           Tells
    PROVE  PageInv'
<1> DEFINE n == Page!Synced(Reconciled)
<1>1. /\ Tuned = engine /\ Revived = engine /\ ~Page!Restores
      /\ Page!Current(engine) = active
      /\ Page!Due({"mount", "persisted", "bars", "engine", "active"})
         <=> "bars" \in changed \/ "active" \in changed
      /\ Page!Due({"mount", "active"}) <=> "active" \in changed
  BY Steady
<1>2. /\ ToldTo(n) /\ rounds = 0
      /\ ~(~touched /\ persisted # None /\ persisted.list # <<>>)
  <2>1. CASE Page!Reconciles(engine)
    <3>1. Reconciled = Page!Apply(engine, Page!Desired(engine))
      BY <1>1, <2>1 DEF Reconciled
    <3> QED
      BY <2>1, <3>1, ToldByReconcile
  <2>2. CASE ~Page!Reconciles(engine)
    <3>1. Reconciled = engine
      BY <1>1, <2>2 DEF Reconciled
    <3>2. Page!Synced(engine) # engine
      BY <1>1, <2>2, <3>1 DEF Tells
    <3> QED
      BY <2>2, <3>1, <3>2, ToldBySync
  <2> QED
    BY <2>1, <2>2
<1>3. "bars" \in changed \/ "active" \in changed
  <2>1. CASE Page!Reconciles(engine)
    BY <1>1, <2>1 DEF Page!Reconciles
  <2>2. CASE ~Page!Reconciles(engine)
    <3>1. Reconciled = engine
      BY <1>1, <2>2 DEF Reconciled
    <3>2. Page!Synced(engine) # engine
      BY <1>1, <2>2, <3>1 DEF Tells
    <3> QED
      BY <1>1, <3>2, SyncedIdle
  <2> QED
    BY <2>1, <2>2
<1>4. Page!Due({"mount", "engine", "persisted", "active", "bars"})
  BY <1>3 DEF Page!Due
<1>5. /\ engine' = n /\ active' = n.list /\ layout' = Page!Layout(n)
      /\ "active" \in changed' /\ changed' \subseteq {"active", "layout"}
      /\ rounds' = 1 /\ paned' = FALSE /\ restored' = restored
      /\ removed' = removed /\ persisted' = persisted /\ symbol' = symbol
      /\ loaded' = loaded /\ gone' = gone /\ touched' = touched /\ changes' = changes
  <2>1. engine' = n /\ active' = n.list /\ layout' = Page!Layout(n)
    BY <1>4, RenderIs
  <2>2. changed' = {"active"} \union (IF layout' # layout THEN {"layout"} ELSE {})
    BY RenderIs
  <2>3. "active" \in changed' /\ changed' \subseteq {"active", "layout"}
    BY <2>2
  <2>4. rounds' = 1
    <3>1. changed' # {}
      BY <2>3
    <3> QED
      BY <1>2, <3>1, RenderIs
  <2>5. paned' = FALSE
    BY <2>1, RenderIs
  <2>6. restored' = restored
    <3>1. restored' = (restored \/ Page!Restores) /\ restored \in BOOLEAN
      BY RenderIs DEF PageInv, PageTypes
    <3> QED
      BY <1>1, <3>1
  <2>7. /\ removed' = removed /\ persisted' = persisted /\ symbol' = symbol
        /\ loaded' = loaded /\ gone' = gone /\ touched' = touched /\ changes' = changes
    BY RenderIs
  <2> QED
    BY <2>1, <2>3, <2>4, <2>5, <2>6, <2>7
<1>6. stored' \in Stores \union {None}
  BY <1>1, PageState, RenderIs, SaveFacts
<1> HIDE DEF n
<1>7. /\ n \in GoodEngines /\ Len(n.list) <= MaxIndicators /\ n.list # <<>>
      /\ Complete(n.list) /\ (loaded => Clean(n.list)) /\ n.list \in Lists
  BY <1>2, GoodFields DEF ToldTo
<1>8. PageTypes'
  <2>1. changed' \in SUBSET Page!Dirty
    BY <1>5 DEF Page!Dirty
  <2> QED
    BY <1>5, <1>6, <1>7, <2>1 DEF PageInv, PageTypes
<1>9. Echoes'
  <2>1. active' = Page!Current(engine)'
    BY <1>5, <1>7, CurrentSame DEF Page!Current
  <2> QED
    BY <1>5, <2>1 DEF Echoes
<1>10. Mounting'
  BY <1>5 DEF Mounting
<1>11. Saves'
  BY <1>5 DEF Saves, Page!Due
<1>12. Completes'
  BY <1>5, <1>7 DEF PageInv, Completes
<1>13. Calms'
  <2>1. Page!RestoredList' = Page!RestoredList
    BY <1>5 DEF Page!RestoredList
  <2>2. restored \/ Page!RestoredList = <<>>
    BY DEF PageInv, Calms
  <2>3. loaded => Clean(active)'
    BY <1>5, <1>7 DEF Clean
  <2> QED
    BY <1>5, <1>7, <2>1, <2>2, <2>3 DEF Calms, Page!Due
<1>14. Restoring'
  BY <1>2, <1>5 DEF Restoring
<1> QED
  BY <1>8, <1>9, <1>10, <1>11, <1>12, <1>13, <1>14 DEF PageInv

(* A round whose effects leave the page's list alone. *)
LEMMA RenderQuiet ==
    ASSUME PageInv, Page!Render, "mount" \notin changed, ~Page!Due({"engine", "persisted"}),
           ~Tells
    PROVE  PageInv'
<1>1. /\ Tuned = engine /\ Revived = engine /\ ~Page!Restores
      /\ Page!Current(engine) = active
      /\ Page!Due({"mount", "active"}) <=> "active" \in changed
  BY Steady
<1>2. Reconciled = engine /\ Page!Synced(engine) = engine
  BY <1>1 DEF Tells, Reconciled
<1>3. /\ engine' = engine /\ active' = active
      /\ layout' = (IF Page!Due({"mount", "engine", "persisted", "active", "bars"})
                    THEN Page!Layout(engine) ELSE layout)
      /\ changed' = (IF layout' # layout THEN {"layout"} ELSE {})
      /\ rounds' = (IF changed' = {} THEN 0 ELSE rounds + 1)
      /\ paned' = (paned /\ active # engine.list) /\ restored' = restored
      /\ removed' = removed /\ persisted' = persisted /\ symbol' = symbol
      /\ loaded' = loaded /\ gone' = gone /\ touched' = touched /\ changes' = changes
  <2>1. engine' = engine /\ active' = active
    BY <1>1, <1>2, RenderIs
  <2>2. layout' = IF Page!Due({"mount", "engine", "persisted", "active", "bars"})
                  THEN Page!Layout(engine) ELSE layout
    BY <1>2, RenderIs
  <2>3. changed' = IF layout' # layout THEN {"layout"} ELSE {}
    <3>1. changed' = (IF Tells \/ "mount" \in changed THEN {"active"} ELSE {})
                     \union (IF "mount" \in changed THEN {"engine", "persisted"} ELSE {})
                     \union (IF layout' # layout THEN {"layout"} ELSE {})
      BY RenderIs
    <3> QED
      BY <3>1
  <2>4. rounds' = IF changed' = {} THEN 0 ELSE rounds + 1
    BY RenderIs
  <2>5. paned' = (paned /\ active # engine.list)
    BY <1>2, <2>1, RenderIs
  <2>6. restored' = restored
    <3>1. restored' = (restored \/ Page!Restores) /\ restored \in BOOLEAN
      BY RenderIs DEF PageInv, PageTypes
    <3> QED
      BY <1>1, <3>1
  <2>7. /\ removed' = removed /\ persisted' = persisted /\ symbol' = symbol
        /\ loaded' = loaded /\ gone' = gone /\ touched' = touched /\ changes' = changes
    BY RenderIs
  <2> QED
    BY <2>1, <2>2, <2>3, <2>4, <2>5, <2>6, <2>7
<1>4. changed' = {} \/ changed' = {"layout"}
  BY <1>3
<1>5. layout' = Page!Layout(engine)
  <2>1. CASE Page!Due({"mount", "engine", "persisted", "active", "bars"})
    BY <1>3, <2>1
  <2>2. CASE ~Page!Due({"mount", "engine", "persisted", "active", "bars"})
    <3>1. ~Page!Due({"engine", "persisted", "active", "bars"})
      BY <2>2 DEF Page!Due
    <3>2. layout = Page!Layout(engine)
      BY <3>1 DEF PageInv, Echoes
    <3> QED
      BY <1>3, <2>2, <3>2
  <2> QED
    BY <2>1, <2>2
<1>6. changed = {"layout"} => changed' = {}
  <2> SUFFICES ASSUME changed = {"layout"} PROVE changed' = {}
    OBVIOUS
  <2>1. ~Page!Due({"mount", "engine", "persisted", "active", "bars"})
    BY DEF Page!Due
  <2> QED
    BY <1>3, <2>1
<1>7. Complete(active)
  <2> SUFFICES ASSUME ~Complete(active) PROVE FALSE
    OBVIOUS
  <2>1. "active" \in changed /\ Page!Room(engine)
    BY DEF PageInv, Completes
  <2>2. active = engine.list
    BY <2>1 DEF PageInv, Echoes
  <2>3. SyncedTo(Page!Synced(engine), engine)
    BY <1>1, <2>1, <2>2, PageState, SyncedFacts
  <2> QED
    BY <1>2, <2>2, <2>3 DEF SyncedTo
<1>8. /\ stored' = (IF Page!Due({"mount", "persisted", "active", "layout", "symbol"})
                       /\ Page!MaySave
                    THEN Now ELSE stored)
      /\ stored' \in Stores \union {None}
  BY <1>1, PageState, RenderIs, SaveFacts DEF Now
<1>9. PageTypes'
  <2>1. changed' \in SUBSET Page!Dirty
    BY <1>4 DEF Page!Dirty
  <2>2. paned' \in BOOLEAN
    BY <1>3
  <2> QED
    BY <1>3, <1>8, <2>1, <2>2 DEF PageInv, PageTypes
<1>10. Echoes'
  <2>1. active' = Page!Current(engine)'
    BY <1>1, <1>3 DEF Page!Current
  <2>2. ~paned' => active' = engine'.list
    BY <1>3 DEF PageInv, PageTypes, Echoes
  <2>3. "active" \notin changed'
    BY <1>4
  <2> QED
    BY <1>3, <1>5, <2>1, <2>2, <2>3 DEF Echoes
<1>11. Mounting'
  BY <1>4 DEF Mounting
<1>12. Saves'
  <2>1. Page!MaySave' <=> Page!MaySave
    BY <1>3 DEF Page!MaySave
  <2>2. Now' = Now
    BY <1>3 DEF Now
  <2>3. Page!MaySave => stored' = Now
    <3>1. CASE Page!Due({"mount", "persisted", "active", "layout", "symbol"})
      BY <1>8, <3>1
    <3>2. CASE ~Page!Due({"mount", "persisted", "active", "layout", "symbol"})
      <4>1. ~Page!Due({"persisted", "active", "layout", "symbol"})
        BY <3>2 DEF Page!Due
      <4> QED
        BY <1>8, <3>2, <4>1 DEF PageInv, Saves
    <3> QED
      BY <3>1, <3>2
  <2> QED
    BY <2>1, <2>2, <2>3 DEF Saves
<1>13. Completes'
  <2>1. stored' # None => Complete(stored'.list)
    <3>1. CASE stored' = Now /\ active # <<>>
      <4>1. stored'.list = Page!Saved(active)
        BY <3>1 DEF Now
      <4>2. Complete(Page!Saved(active))
        BY <1>7, PageState, SavedAlike, AlikeComplete
      <4> QED
        BY <4>1, <4>2
    <3>2. CASE stored' = Now /\ active = <<>>
      <4>1. stored'.list = Page!Saved(active)
        BY <3>2 DEF Now
      <4>2. Complete(Page!Saved(active))
        BY <1>7, PageState, SavedAlike, AlikeComplete
      <4> QED
        BY <4>1, <4>2
    <3>3. CASE stored' = stored /\ (active = <<>> \/ "active" \notin changed)
      BY <3>3 DEF PageInv, Completes
    <3>4. \/ stored' = Now
          \/ stored' = stored /\ (active = <<>> \/ "active" \notin changed)
      <4>1. "active" \in changed
            => Page!Due({"mount", "persisted", "active", "layout", "symbol"})
        BY DEF Page!Due
      <4> QED
        BY <1>8, <4>1 DEF Page!MaySave
    <3> QED
      BY <3>1, <3>2, <3>3, <3>4
  <2>2. persisted # None => Complete(persisted.list)
    BY DEF PageInv, Completes
  <2> QED
    BY <1>3, <1>7, <2>1, <2>2 DEF Completes
<1>14. Calms'
  <2>1. Page!RestoredList' = Page!RestoredList
    BY <1>3 DEF Page!RestoredList
  <2>2. restored \/ Page!RestoredList = <<>>
    BY DEF PageInv, Calms
  <2>3. rounds' \in 0 .. 2 /\ (changed' = {} => rounds' = 0)
        /\ (rounds' = 2 => changed' = {"layout"})
    <3>1. rounds \in 0 .. 2 /\ (rounds = 2 => changed = {"layout"})
      BY DEF PageInv, Calms
    <3> QED
      BY <1>3, <1>4, <1>6, <3>1
  <2>4. changed' \intersect {"mount", "bars", "symbol"} = {}
        /\ ~Page!Due({"engine", "persisted"})' /\ "active" \notin changed'
    BY <1>4 DEF Page!Due
  <2> QED
    BY <1>3, <2>1, <2>2, <2>3, <2>4 DEF Calms
<1>15. Restoring'
  <2>1. ~touched /\ persisted # None /\ persisted.list # <<>> =>
          /\ Page!Saved(engine.list) = persisted.list
          /\ active = engine.list /\ removed = {}
          /\ engine = Page!SetSubPaneState(engine, persisted.sub)
    BY DEF PageInv, Restoring
  <2> QED
    BY <1>3, <2>1 DEF Restoring
<1> QED
  BY <1>9, <1>10, <1>11, <1>12, <1>13, <1>14, <1>15 DEF PageInv

LEMMA PageRender ==
    ASSUME PageInv, Page!Render
    PROVE  PageInv'
<1>1. CASE "mount" \in changed
  BY <1>1, RenderMount
<1>2. CASE Page!Due({"engine", "persisted"})
  BY <1>2, RenderPanes
<1>3. CASE "mount" \notin changed /\ ~Page!Due({"engine", "persisted"}) /\ Tells
  BY <1>3, RenderTold
<1>4. CASE "mount" \notin changed /\ ~Page!Due({"engine", "persisted"}) /\ ~Tells
  BY <1>4, RenderQuiet
<1> QED
  BY <1>1, <1>2, <1>3, <1>4

-----------------------------------------------------------------------------
(* Every step of the page preserves its invariant, and the other parts of  *)
(* a chart leave it alone.                                                 *)
LEMMA PageNextKeepsPageInv ==
    ASSUME PageInv, Page!Next
    PROVE  PageInv'
<1>1. CASE Page!Render
  BY <1>1, PageRender
<1>2. CASE Page!NewBars
  BY <1>2, PageNewBars
<1>3. CASE Page!Reopen
  BY <1>3, PageReopen
<1>4. ASSUME NEW name \in Names, Page!AddNew(name)
      PROVE  PageInv'
  BY <1>4, PageAddNew
<1>5. CASE Page!ToggleStrategy
  BY <1>5, PageToggleStrategy
<1>6. ASSUME NEW id, Page!RemoveById(id) \/ Page!ToggleVisible(id)
      PROVE  PageInv'
  BY <1>6, PageRemoveById, PageToggleVisible
<1>7. ASSUME NEW id, NEW d \in {-1, 1}, Page!MoveInList(id, d)
      PROVE  PageInv'
  BY <1>7, PageMoveInList
<1>8. ASSUME NEW id, NEW pane, Page!MoveToPane(id, pane)
      PROVE  PageInv'
  BY <1>8, PageMoveToPane
<1>9. ASSUME NEW k \in DOMAIN layout, NEW d \in {-1, 1}, Page!PaneUpDown(layout[k].pane, d)
      PROVE  PageInv'
  BY <1>9, PagePaneUpDown
<1>10. ASSUME NEW k \in DOMAIN layout,
              \/ Page!PaneDelete(layout[k].pane) \/ Page!PaneCollapse(layout[k].pane)
              \/ Page!PaneMaximize(layout[k].pane)
       PROVE  PageInv'
  BY <1>10, PagePaneDelete, PagePaneCollapse, PagePaneMaximize
<1>11. ASSUME NEW s \in Symbols, Page!ChangeSymbol(s)
       PROVE  PageInv'
  BY <1>11, PageChangeSymbol
<1>12. Page!Event => PageInv'
  BY <1>4, <1>5, <1>6, <1>7, <1>8, <1>9, <1>10, <1>11 DEF Page!Event
<1> QED
  BY <1>1, <1>2, <1>3, <1>12 DEF Page!Next

LEMMA PageStays ==
    ASSUME PageInv, UNCHANGED pageVars
    PROVE  PageInv'
<1>1. /\ engine' = engine /\ active' = active /\ restored' = restored
      /\ removed' = removed /\ persisted' = persisted /\ symbol' = symbol
      /\ stored' = stored /\ loaded' = loaded /\ layout' = layout
      /\ changed' = changed /\ paned' = paned /\ gone' = gone
      /\ touched' = touched /\ changes' = changes /\ rounds' = rounds
  BY DEF pageVars
<1>2. /\ Page!MaySave' = Page!MaySave /\ Now' = Now
      /\ Page!RestoredList' = Page!RestoredList
      /\ Page!Current(engine)' = Page!Current(engine)
      /\ Page!Room(engine)' = Page!Room(engine)
  <2>1. Page!FreshPane(engine)' = Page!FreshPane(engine)
    BY <1>1 DEF Page!FreshPane, Page!UsedPanes
  <2> QED
    BY <1>1, <2>1 DEF Page!MaySave, Now, Page!RestoredList, Page!Current, Page!Room
<1>3. PageTypes' /\ Echoes' /\ Mounting'
  BY <1>1, <1>2 DEF PageInv, PageTypes, Echoes, Mounting, Page!Due
<1>4. Saves' /\ Completes'
  BY <1>1, <1>2 DEF PageInv, Saves, Completes, Page!Due
<1>5. Clean(active)' = Clean(active)
  BY <1>1 DEF Clean
<1>6. Calms' /\ Restoring'
  BY <1>1, <1>2, <1>5 DEF PageInv, Calms, Restoring, Page!Due
<1> QED
  BY <1>3, <1>4, <1>6 DEF PageInv

(* The invariant says what the runs check. *)
LEMMA ListTyped ==
    ASSUME NEW list \in Lists, Len(list) <= MaxIndicators
    PROVE  Page!IsList(list)
<1> DEFINE s == Page!Saved(list)
           ids == [i \in DOMAIN list |-> list[i].id]
<1>1. list \in Seq(Inds) /\ Apart(list)
  BY DEF Lists
<1>2. s \in SavedLists /\ Len(s) = Len(list)
  BY <1>1, SavedIsList, SavedFacts
<1>3. Page!IsSavedList(s)
  BY <1>2, SavedItems DEF Page!IsSavedList
<1>4. Page!IsInjective(ids)
  BY <1>1 DEF Apart, Page!IsInjective
<1> QED
  BY <1>3, <1>4 DEF Page!IsList

LEMMA SubStateTyped ==
    ASSUME NEW s \in SubStates
    PROVE  Page!IsSubState(s)
<1>1. /\ s.order \in Seq(Page!Panes) /\ s.collapsed \in SUBSET Page!Panes
      /\ s.max \in Page!Panes \union {None} /\ Distinct(s.order)
  BY DEF SubStates
<1>2. \A k \in DOMAIN s.order : s.order[k] \in Page!Panes
  BY <1>1, LenProperties
<1> QED
  BY <1>1, <1>2 DEF Page!IsSubState, Page!ToSet, Page!IsInjective, Distinct

LEMMA StoreTyped ==
    ASSUME NEW s \in Stores \union {None}
    PROVE  Page!IsStored(s)
<1> SUFFICES ASSUME s # None
             PROVE  /\ Page!IsSavedList(s.list) /\ Page!IsSubState(s.sub)
                    /\ s.symbol \in Symbols
  BY DEF Page!IsStored
<1>1. /\ s.list \in SavedLists /\ s.sub \in SubStates /\ s.symbol \in Symbols
      /\ Len(s.list) <= MaxIndicators
  BY DEF Stores
<1>2. Page!IsSavedList(s.list)
  BY <1>1, SavedItems DEF Page!IsSavedList
<1> QED
  BY <1>1, <1>2, SubStateTyped

LEMMA PageInvTypes ==
    ASSUME PageInv
    PROVE  Page!TypeOK
<1>1. Page!IsList(engine.list) /\ Page!IsList(active)
  BY PageState, ListTyped
<1>2. Page!IsSubState(Page!SubPaneState(engine))
  BY PageState, SubPaneStateFacts, SubStateTyped
<1>3. Page!IsInjective(engine.order) /\ Page!ToSet(engine.order) = Page!PanesOf(engine.list)
  BY PageState, GoodFields DEF Distinct, Page!IsInjective, Page!ToSet, Values
<1>4. Page!IsStored(persisted) /\ Page!IsStored(stored)
  BY StoreTyped DEF PageInv, PageTypes
<1>5. rounds \in 0 .. MaxRounds + 1
  BY PageConstants DEF PageInv, Calms
<1>6. /\ restored \in BOOLEAN /\ removed \subseteq Names /\ gone \subseteq Names
      /\ symbol \in Symbols /\ loaded \in BOOLEAN /\ changed \subseteq Page!Dirty
      /\ paned \in BOOLEAN /\ touched \in BOOLEAN /\ changes \in 0 .. MaxChanges
  BY DEF PageInv, PageTypes
<1> QED
  BY <1>1, <1>2, <1>3, <1>4, <1>5, <1>6 DEF Page!TypeOK

LEMMA PageInvAgrees ==
    ASSUME PageInv
    PROVE  Page!PageAgrees
<1>1. Page!LegendIsShown
  BY DEF PageInv, Echoes, Page!LegendIsShown
<1>2. Page!StoredIsShown
  BY Unchanged DEF PageInv, Echoes, Now, Page!StoredIsShown, Page!Settled
<1>3. Page!Settles
  BY PageConstants DEF PageInv, Calms, Page!Settles
<1>4. Page!ReopenRestores
  <2> SUFFICES ASSUME changed = {}, ~touched, persisted # None, persisted.list # <<>>
               PROVE  /\ Page!Saved(engine.list) = persisted.list
                      /\ engine = Page!SetSubPaneState(engine, persisted.sub)
    BY DEF Page!ReopenRestores, Page!Settled
  <2>1. "mount" \notin changed /\ ~Page!Due({"engine", "persisted"})
    BY DEF Page!Due
  <2> QED
    BY <2>1 DEF PageInv, Restoring
<1> QED
  BY <1>1, <1>2, <1>3, <1>4 DEF Page!PageAgrees, Page!ListsAgree, Page!SettlesAsSaved

(* The invariant of the page holds in every behaviour of a chart. *)
THEOREM PageInvariance == PartsSpec => []PageInv
<1>1. PartsInit => PageInv
  BY PageStarts DEF PartsInit
<1>2. PageInv /\ [PartsNext]_<<part, vars, pageVars, feedVars>> => PageInv'
  <2> SUFFICES ASSUME PageInv, [PartsNext]_<<part, vars, pageVars, feedVars>> PROVE PageInv'
    OBVIOUS
  <2>1. Page!Next \/ UNCHANGED pageVars
    BY DEF PartsNext
  <2> QED
    BY <2>1, PageStays, PageNextKeepsPageInv
<1> QED
  BY <1>1, <1>2, PTL DEF PartsSpec

(* However the user, the bars and the effects of the page follow each      *)
(* other, the effects end after two rounds at the most, and then the       *)
(* indicators in the engine, in the page and in localStorage are the same; *)
(* and a page opened again shows what was saved.                           *)
THEOREM PageAgreesHolds == PartsSpec => []PageAgrees
<1>1. PageInv => PageAgrees
  BY PageInvAgrees DEF PageAgrees
<1> QED
  BY <1>1, PageInvariance, PTL

(* The types of the three parts, in every behaviour of a chart. *)
THEOREM PartsTypeOKHolds == PartsSpec => []PartsTypeOK
<1>1. PartsInit => IInv
  BY InitIInv DEF PartsInit
<1>2. IInv /\ [PartsNext]_<<part, vars, pageVars, feedVars>> => IInv'
  <2> SUFFICES ASSUME IInv, [PartsNext]_<<part, vars, pageVars, feedVars>> PROVE IInv'
    OBVIOUS
  <2>1. [Next]_vars
    BY DEF PartsNext
  <2> QED
    BY <2>1, NextKeepsIInv
<1>3. IInv /\ PageInv /\ FeedInv => PartsTypeOK
  BY IInvTypes, PageInvTypes, FeedInvGives DEF PartsTypeOK
<1> QED
  BY <1>1, <1>2, <1>3, PageInvariance, FeedInvariance, PTL DEF PartsSpec
=============================================================================
