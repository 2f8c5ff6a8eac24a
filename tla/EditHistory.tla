---------------------------- MODULE EditHistory ----------------------------
(***************************************************************************)
(* What an editor with undo and redo promises, whatever it edits: one line *)
(* of documents, the past behind the current one and the undone ones ahead *)
(* of it.  An edit is remembered and gives up what was undone; undo and    *)
(* redo move along the line and lose nothing; the past is dropped at its   *)
(* far end only, and only beyond Limit.  While a gesture is open (a        *)
(* drawing is being dragged) the document may also change in place: the    *)
(* gesture as a whole was remembered when it began.                        *)
(* ChartDrawings implements this module.                                   *)
(***************************************************************************)
EXTENDS Integers, Sequences

CONSTANTS Docs, Limit

VARIABLES doc, past, future, open

vars == <<doc, past, future, open>>

TypeOK ==
    /\ doc \in Docs
    /\ past \in Seq(Docs)
    /\ future \in Seq(Docs)
    /\ open \in BOOLEAN

Init ==
    /\ doc \in Docs
    /\ past = <<>> /\ future = <<>>
    /\ open = FALSE

Capped(s) == IF Len(s) > Limit THEN Tail(s) ELSE s
Butlast(s) == SubSeq(s, 1, Len(s) - 1)

Edit ==
    /\ past' = Capped(Append(past, doc))
    /\ future' = <<>>
    /\ doc' \in Docs

Undo ==
    /\ past # <<>>
    /\ doc' = past[Len(past)]
    /\ past' = Butlast(past)
    /\ future' = Append(future, doc)

Redo ==
    /\ future # <<>>
    /\ doc' = future[Len(future)]
    /\ future' = Butlast(future)
    /\ past' = Append(past, doc)

Adjust ==
    /\ open
    /\ doc' \in Docs
    /\ UNCHANGED <<past, future>>

(* A gesture may begin and end with any of these, or with none. *)
Next ==
    /\ open' \in BOOLEAN
    /\ Edit \/ Undo \/ Redo \/ Adjust \/ UNCHANGED <<doc, past, future>>

Spec == Init /\ [][Next]_vars

(* Redo does not look at the limit, and need not: what was undone and what *)
(* can be undone fit into it together.                                     *)
HistoryBounded == Len(past) + Len(future) <= Limit
=============================================================================
