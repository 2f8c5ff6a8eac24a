--------------------------- MODULE ChartDrawings ---------------------------
(***************************************************************************)
(* The drawings of a chart: trend lines, brush strokes and texts made,     *)
(* dragged, locked, coloured and deleted with the mouse, with undo and     *)
(* redo from the keyboard (chart/core/ChartEngine.ts), and the component   *)
(* around the canvas that owns the tool bar, the context menu and the text *)
(* box and keeps its own copy of the selection                             *)
(* (chart/components/ChartCanvas.tsx).                                     *)
(*                                                                         *)
(* A drawing is a pair of anchors; an anchor is its bar index only, and    *)
(* which drawing the pointer is over is chosen freely.  The tool bar, the  *)
(* menu and the text box are clicked, so they are not used while the mouse *)
(* button is held; keys and a lost focus come at any moment.  Fibonacci    *)
(* retracements behave as trend lines do.  Hover highlighting, the         *)
(* crosshair and the colour of a drawing are display only and left out.    *)
(***************************************************************************)
EXTENDS Integers, Sequences

CONSTANTS
    MaxDrawings,    \* bound: drawings ever made
    MaxEdits,       \* bound: entries ever pushed on the undo stack
    Places,         \* where the mouse can be, as bar indices
    Bars,           \* number of bars of the chart
    UndoLimit,      \* entries the undo stack keeps (50 in the code)
    None

ASSUME DrawingAssumption ==
    /\ MaxDrawings \in Nat /\ MaxEdits \in Nat
    /\ Bars \in Nat \ {0} /\ Places \subseteq 0 .. Bars - 1
    /\ UndoLimit \in Nat \ {0}
    /\ None \notin Int

Ids == 1 .. MaxDrawings
Kinds == {"trendline", "brush", "text"}
Tools == Kinds \union {"none"}
Shape == [kind: Kinds, a: Int, b: Int, locked: BOOLEAN]
Docs == [Ids -> Shape \union {None}]

ASSUME NoneIsNoShape == None \notin Shape

VARIABLES
    drawings,       \* id -> shape, None where there is none
    undo, redo,     \* drawingUndoStack, drawingRedoStack
    selected,       \* selectedDrawingId
    tool,           \* activeDrawingTool
    draft,          \* drawingStart, drawingCurrent, drawingBrushPoints
    pointer,        \* drawingPointerActive
    drag,           \* draggedDrawingId and the origin of the drag
    told,           \* the component's selectedDrawing
    menu,           \* the component's ctxMenu: a drawing
    textAt,         \* the component's pendingTextAnchor
    button,         \* the left mouse button is held
    made, edits,    \* counters behind the bounds
    before, rewound \* history: the drawings when the drag began; an undo or redo since

engineVars == <<drawings, undo, redo, selected, tool, draft, pointer, drag>>
component == <<told, menu, textAt>>
ghosts == <<before, rewound>>
vars == <<engineVars, component, button, made, edits, ghosts>>

(* Texts and strokes stay on the bars; a line may leave them. *)
TypeOK ==
    /\ drawings \in Docs
    /\ \A i \in Ids : drawings[i] # None /\ drawings[i].kind # "trendline"
                     => {drawings[i].a, drawings[i].b} \subseteq 0 .. Bars - 1
    /\ undo \in Seq(Docs) /\ redo \in Seq(Docs)
    /\ selected \in Ids \union {None}
    /\ tool \in Tools
    /\ draft \in [from: Places, to: Places, points: 1 .. 2] \union {None}
    /\ pointer \in BOOLEAN
    /\ drag \in [id: Ids, from: Places, at: Places, a: Int, b: Int,
                 part: {"start", "end", "whole"}] \union {None}
    /\ told \in [id: Ids, kind: Kinds, locked: BOOLEAN] \union {None}
    /\ menu \in Ids \union {None}
    /\ textAt \in Places \union {None}
    /\ button \in BOOLEAN
    /\ made \in 0 .. MaxDrawings
    /\ edits \in 0 .. MaxEdits
    /\ before \in Docs
    /\ rewound \in BOOLEAN

Empty == [i \in Ids |-> None]

Init ==
    /\ drawings = Empty
    /\ undo = <<>> /\ redo = <<>>
    /\ selected = None
    /\ tool = "none"
    /\ draft = None /\ pointer = FALSE /\ drag = None
    /\ told = None /\ menu = None /\ textAt = None
    /\ button = FALSE
    /\ made = 0 /\ edits = 0
    /\ before = Empty /\ rewound = FALSE

-----------------------------------------------------------------------------
Exists(i) == drawings[i] # None

(* pushDrawingUndo. *)
(* Mutant: the limit is looked at before the push. *)
MutCapped(s) == IF Len(s) > UndoLimit + 1 THEN Tail(s) ELSE s
Capped(s) == IF Len(s) > UndoLimit THEN Tail(s) ELSE s
Butlast(s) == SubSeq(s, 1, Len(s) - 1)

(* Mutant: the redo stack survives an edit. *)
MutPushUndo ==
    /\ edits < MaxEdits
    /\ edits' = edits + 1
    /\ undo' = Capped(Append(undo, drawings))
    /\ redo' = redo

PushUndo ==
    /\ edits < MaxEdits
    /\ edits' = edits + 1
    /\ undo' = Capped(Append(undo, drawings))
    /\ redo' = <<>>
NoPush == UNCHANGED <<undo, redo, edits>>

(* What the component is told of drawing i of document doc. *)
SelectionOf(doc, i) ==
    IF i = None \/ doc[i] = None THEN None
    ELSE [id |-> i, kind |-> doc[i].kind, locked |-> doc[i].locked]

(* setSelectedDrawingId, once the drawings of this step are in place: the  *)
(* component hears of a change of the selection only.                      *)
Select(i) ==
    /\ selected' = i
    /\ told' = IF selected = i THEN told ELSE SelectionOf(drawings', i)

NoDraft == draft' = None /\ pointer' = FALSE

NewShape(kind, a, b) ==
    [kind |-> kind, a |-> a, b |-> b, locked |-> FALSE]
Add(shape) ==
    /\ made < MaxDrawings
    /\ made' = made + 1
    /\ drawings' = [drawings EXCEPT ![made + 1] = shape]

-----------------------------------------------------------------------------
(* The mouse.  With a tool, the button starts a draft; without one it      *)
(* takes the drawing under the pointer, an end of a line before a body,    *)
(* and remembers the document before anything has moved.                   *)
DraftBegins(p) ==
    /\ tool # "none"
    /\ draft' = [from |-> p, to |-> p, points |-> 1]
    /\ pointer' = TRUE
    /\ Select(None)
    /\ NoPush
    /\ UNCHANGED <<drawings, drag, ghosts>>

Grab(i, p, part) ==
    /\ drag' = [id |-> i, from |-> p, at |-> p,
                a |-> drawings[i].a, b |-> drawings[i].b, part |-> part]
    /\ before' = drawings /\ rewound' = FALSE

(* Mutant: locks and the undo stack are not looked at. *)
MutDragBegins(i, p, part) ==
    /\ tool = "none"
    /\ Exists(i)
    /\ part # "whole" => drawings[i].kind = "trendline"
    /\ UNCHANGED drawings
    /\ NoPush
    /\ Select(i)
    /\ Grab(i, p, part)
    /\ UNCHANGED <<draft, pointer>>

DragBegins(i, p, part) ==
    /\ tool = "none"
    /\ Exists(i) /\ ~drawings[i].locked
    /\ part # "whole" => drawings[i].kind = "trendline"
    /\ PushUndo
    /\ UNCHANGED drawings
    /\ Select(i)
    /\ Grab(i, p, part)
    /\ UNCHANGED <<draft, pointer>>

LockedHit(i) ==
    /\ tool = "none"
    /\ Exists(i) /\ drawings[i].locked
    /\ UNCHANGED drawings
    /\ Select(i)
    /\ NoPush
    /\ UNCHANGED <<draft, pointer, drag, ghosts>>

(* Beside every drawing: the chart itself is panned. *)
MissHit ==
    /\ tool = "none"
    /\ UNCHANGED drawings
    /\ Select(None)
    /\ NoPush
    /\ UNCHANGED <<draft, pointer, drag, ghosts>>

MouseDown(p) ==
    /\ ~button /\ menu = None
    /\ button' = TRUE
    /\ \/ DraftBegins(p)
       \/ \E i \in Ids, part \in {"start", "end", "whole"} : DragBegins(i, p, part)
       \/ \E i \in Ids : LockedHit(i)
       \/ MissHit
    /\ UNCHANGED <<tool, menu, textAt, made>>

(* translateAnchor keeps an anchor on the bars; lines are not clamped. *)
(* Mutant: on the left only. *)
MutClamp(x) == IF x < 0 THEN 0 ELSE x
Clamp(x) == IF x < 0 THEN 0 ELSE IF x > Bars - 1 THEN Bars - 1 ELSE x

(* processMouseMove on the dragged drawing s, the pointer now at p.        *)
(* Mutant: the move is added to where the drawing has got to, not to where *)
(* it was when the drag began.                                             *)
MutMoved(s, p) ==
    LET d == p - drag.from
    IN  CASE s.kind \in {"text", "brush"} -> [s EXCEPT !.a = Clamp(@ + d), !.b = Clamp(@ + d)]
          [] s.kind = "trendline" -> [s EXCEPT !.a = IF drag.part = "end" THEN @ ELSE @ + d,
                                              !.b = IF drag.part = "start" THEN @ ELSE @ + d]
Moved(s, p) ==
    LET d == p - drag.from
    IN  CASE s.kind = "text" -> [s EXCEPT !.a = Clamp(drag.a + d), !.b = Clamp(drag.a + d)]
          [] s.kind = "brush" -> [s EXCEPT !.a = Clamp(@ + d), !.b = Clamp(@ + d)]
          [] s.kind = "trendline" ->
                [s EXCEPT !.a = IF drag.part = "end" THEN @ ELSE drag.a + d,
                          !.b = IF drag.part = "start" THEN @ ELSE drag.b + d]

DraftMoves(p) ==
    /\ pointer
    /\ draft' = [draft EXCEPT !.to = p, !.points = IF p # draft.to THEN 2 ELSE @]
    /\ UNCHANGED <<drawings, drag>>

DragMoves(p) ==
    /\ ~pointer /\ drag # None
    /\ drawings' = IF Exists(drag.id)
                   THEN [drawings EXCEPT ![drag.id] = Moved(@, p)] ELSE drawings
    /\ drag' = [drag EXCEPT !.at = p,
                            !.from = IF Exists(drag.id) /\ drawings[drag.id].kind = "brush"
                                     THEN p ELSE @]
    /\ UNCHANGED draft

MouseMove(p) ==
    /\ DraftMoves(p) \/ DragMoves(p)
    /\ UNCHANGED <<undo, redo, selected, tool, pointer, component, button, made, edits, ghosts>>

(* The button is let go.  A line must have moved, a stroke have two        *)
(* points; a text asks the component for its words.                        *)
DraftEnds ==
    /\ pointer
    /\ NoDraft
    /\ IF tool = "text"
       THEN /\ textAt' = draft.from
            /\ NoPush
            /\ UNCHANGED <<drawings, selected, told, made>>
       ELSE /\ UNCHANGED textAt
            /\ IF \/ tool = "brush" /\ draft.points > 1
                  \/ tool = "trendline" /\ draft.from # draft.to
               THEN /\ PushUndo
                    /\ Add(NewShape(tool, draft.from, draft.to))
                    /\ Select(made + 1)
               ELSE NoPush /\ UNCHANGED <<drawings, selected, told, made>>
    /\ UNCHANGED <<drag, ghosts>>

Forget == before' = Empty /\ rewound' = FALSE

DragEnds ==
    /\ ~pointer
    /\ drag' = None /\ Forget
    /\ NoPush
    /\ UNCHANGED <<drawings, selected, told, draft, pointer, textAt, made>>

MouseUp ==
    /\ button
    /\ button' = FALSE
    /\ DraftEnds \/ DragEnds
    /\ UNCHANGED <<tool, menu>>

(* The window loses the focus or is hidden: resetDragState.  The draft     *)
(* itself stays where it is.                                               *)
Blur ==
    /\ drag' = None /\ pointer' = FALSE /\ Forget
    /\ UNCHANGED <<drawings, undo, redo, selected, tool, draft, component,
                   button, made, edits>>

-----------------------------------------------------------------------------
(* The context menu of the drawing under the pointer.                      *)
ContextMenu(i) ==
    /\ menu = None
    /\ Exists(i)
    /\ menu' = i
    /\ UNCHANGED drawings
    /\ Select(i)
    /\ UNCHANGED <<undo, redo, tool, draft, pointer, drag, textAt, button, made, edits, ghosts>>

MenuDelete ==
    /\ ~button /\ menu # None
    /\ PushUndo
    /\ drawings' = [drawings EXCEPT ![menu] = None]
    /\ IF selected = menu THEN Select(None) ELSE UNCHANGED <<selected, told>>
    /\ menu' = None
    /\ UNCHANGED <<tool, draft, pointer, drag, textAt, button, made, ghosts>>

(* A new colour, the same one too, is an edit like any other. *)
MenuColor ==
    /\ ~button /\ menu # None
    /\ Exists(menu)
    /\ PushUndo
    /\ UNCHANGED <<drawings, selected, tool, draft, pointer, drag, component, button, made, ghosts>>

MenuClose ==
    /\ ~button /\ menu # None
    /\ menu' = None
    /\ UNCHANGED <<engineVars, told, textAt, button, made, edits, ghosts>>

-----------------------------------------------------------------------------
(* The keys, which reach the engine and the open menu alike.               *)
(* Mutant: the menu stays open. *)
MutRestored ==
    /\ Select(None)
    /\ rewound' = (drag # None)
    /\ UNCHANGED <<tool, draft, pointer, drag, menu, textAt, button, made, edits, before>>

Restored ==
    /\ Select(None)
    /\ menu' = None
    /\ rewound' = (drag # None)
    /\ UNCHANGED <<tool, draft, pointer, drag, textAt, button, made, edits, before>>

(* Mutant: the selection outlives the drawings it was made on. *)
MutKeyUndo ==
    /\ undo # <<>>
    /\ redo' = Append(redo, drawings)
    /\ drawings' = undo[Len(undo)]
    /\ undo' = Butlast(undo)
    /\ menu' = None
    /\ rewound' = (drag # None)
    /\ UNCHANGED <<selected, told, tool, draft, pointer, drag, textAt, button, made, edits, before>>

KeyUndo ==
    /\ undo # <<>>
    /\ redo' = Append(redo, drawings)
    /\ drawings' = undo[Len(undo)]
    /\ undo' = Butlast(undo)
    /\ Restored

KeyRedo ==
    /\ redo # <<>>
    /\ undo' = Append(undo, drawings)
    /\ drawings' = redo[Len(redo)]
    /\ redo' = Butlast(redo)
    /\ Restored

(* With nothing to undo or redo the key still closes the menu. *)
KeyIdle ==
    /\ menu # None
    /\ undo = <<>> \/ redo = <<>>
    /\ menu' = None
    /\ UNCHANGED <<engineVars, told, textAt, button, made, edits, ghosts>>

-----------------------------------------------------------------------------
(* The tool bar.  Choosing the tool in use again puts it away.             *)
SelectTool(t) ==
    /\ ~button /\ menu = None
    /\ tool' = IF tool = t THEN "none" ELSE t
    /\ NoDraft
    /\ textAt' = None
    /\ UNCHANGED <<drawings, undo, redo, selected, drag, told, menu, button, made, edits, ghosts>>

ClearDrawings ==
    /\ ~button /\ menu = None
    /\ IF drawings # Empty THEN PushUndo ELSE NoPush
    /\ drawings' = Empty
    /\ Select(None)
    /\ NoDraft
    /\ tool' = "none"
    /\ textAt' = None
    /\ UNCHANGED <<drag, menu, button, made, ghosts>>

(* The lock button turns round what the component believes. *)
ToggleLock ==
    /\ ~button /\ menu = None
    /\ told # None
    /\ Exists(told.id)
    /\ drawings[told.id].locked # ~told.locked
    /\ PushUndo
    /\ drawings' = [drawings EXCEPT ![told.id].locked = ~told.locked]
    /\ told' = SelectionOf(drawings', selected)
    /\ UNCHANGED <<selected, tool, draft, pointer, drag, menu, textAt, button, made, ghosts>>

(* The text box: without words it is only closed. *)
CommitText ==
    /\ ~button /\ textAt # None
    /\ PushUndo
    /\ Add(NewShape("text", textAt, textAt))
    /\ Select(made + 1)
    /\ textAt' = None
    /\ UNCHANGED <<tool, draft, pointer, drag, menu, button, ghosts>>

CancelText ==
    /\ ~button /\ textAt # None
    /\ textAt' = None
    /\ UNCHANGED <<engineVars, told, menu, button, made, edits, ghosts>>

Next ==
    \/ \E p \in Places : MouseDown(p) \/ MouseMove(p)
    \/ MouseUp \/ Blur
    \/ \E i \in Ids : ContextMenu(i)
    \/ MenuDelete \/ MenuClose \/ MenuColor
    \/ KeyUndo \/ KeyRedo \/ KeyIdle
    \/ \E t \in Tools : SelectTool(t)
    \/ ClearDrawings \/ ToggleLock \/ CommitText \/ CancelText

Spec == Init /\ [][Next]_vars

-----------------------------------------------------------------------------
Dragging == drag # None

(* The drawings, the undo stack and the redo stack are one line of         *)
(* documents as EditHistory promises; a drag is its open gesture.  An undo *)
(* in the middle of a drag, after which the drag goes on in the document   *)
(* restored, does not break it: it changes the current document only.      *)
History == INSTANCE EditHistory WITH
    Docs <- Docs, Limit <- UndoLimit,
    doc <- drawings, past <- undo, future <- redo, open <- Dragging

OneLineOfDocuments == History!Spec

(* Undone and undoable documents fit into the limit of the undo stack      *)
(* together, although redo pushes without looking at it.                   *)
HistoryBounded == History!HistoryBounded

(* What the tool bar believes to be selected is the selected drawing as it *)
(* is, lock and all: the lock button turns round the right lock.  It takes *)
(* every step that replaces drawings to also reset the selection.  Nor     *)
(* does the menu offer to delete or colour a drawing that is gone.         *)
SelectionTold ==
    /\ selected # None => Exists(selected)
    /\ told = SelectionOf(drawings, selected)
    /\ menu # None => Exists(menu)

(* A drag is undone as one step: while it lasts, and unless the user has   *)
(* pressed undo or redo in the middle of it, the top of the undo stack is  *)
(* the document as it was when the button went down, and nothing is left   *)
(* to redo.                                                                *)
DragUndoneAtOnce ==
    Dragging /\ ~rewound => /\ undo # <<>> /\ undo[Len(undo)] = before
                           /\ redo = <<>>

(* A dragged line or text is where the pointer has taken it from where it  *)
(* was, whatever way the pointer took and however often it left the bars.  *)
(* (A brush stroke is not: each move clamps its points anew, so a stroke   *)
(* pushed against the first bar stays squeezed.)                           *)
DragFollowsPointer ==
    Dragging /\ ~rewound /\ before[drag.id].kind # "brush"
    => LET was == before[drag.id]
           is == drawings[drag.id]
           d == drag.at - drag.from
       IN  IF was.kind = "text" THEN is.a = Clamp(was.a + d) /\ is.b = is.a
           ELSE /\ is.a = was.a + (IF drag.part = "end" THEN 0 ELSE d)
                /\ is.b = was.b + (IF drag.part = "start" THEN 0 ELSE d)

(* A drag is one edit: what is shown follows the pointer, and one undo     *)
(* takes all of it back.                                                   *)
DragIsOneEdit == DragUndoneAtOnce /\ DragFollowsPointer

(* A locked drawing stays where it is, whatever is dragged: only undo and  *)
(* redo move it, and a drag that goes on after them.                       *)
Rewinds == undo' # undo /\ edits' = edits
LockedStaysPut ==
    [][\A i \in Ids :
         (/\ Exists(i) /\ drawings[i].locked
          /\ drawings'[i] # None /\ ~rewound /\ ~Rewinds)
         => drawings'[i].a = drawings[i].a /\ drawings'[i].b = drawings[i].b]_vars
=============================================================================
