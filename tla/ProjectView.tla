----------------------------- MODULE ProjectView -----------------------------
(***************************************************************************)
(* What the project projection promises its readers: they see nothing or   *)
(* one whole snapshot; a newer attempt takes the turn from an older one;   *)
(* only the attempt whose turn it is changes what they see, once, and one  *)
(* that fails leaves it as it was.                                         *)
(***************************************************************************)
EXTENDS Naturals

CONSTANTS Snapshots, NoSnapshot, Content

VARIABLES turn,  \* the attempt that may publish: the last one begun
          open,  \* it has neither published nor failed
          shown, \* the snapshot published last
          view   \* the projects a reader sees

vars == <<turn, open, shown, view>>

Init == turn = 0 /\ open = FALSE /\ shown = NoSnapshot /\ view = {}

Begin == turn' = turn + 1 /\ open' = TRUE /\ UNCHANGED <<shown, view>>

Publish(q) ==
  open /\ open' = FALSE /\ shown' = q /\ view' = Content[q] /\ UNCHANGED turn

Fail == open /\ open' = FALSE /\ UNCHANGED <<turn, shown, view>>

Next == Begin \/ Fail \/ \E q \in Snapshots : Publish(q)

Spec == Init /\ [][Next]_vars
=============================================================================
