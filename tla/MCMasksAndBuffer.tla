--------------------------- MODULE MCMasksAndBuffer ---------------------------
(***************************************************************************)
(* The two questions about masks of MCAlarmEngine, all masks on Critical   *)
(* alarms and floods, and the double buffer, side by side: an instance     *)
(* explores one of them, while the others rest.                            *)
(*                                                                         *)
(* Of the buffer there is one map more than MapsBounded allows, so that    *)
(* the bound is one of the code and not of the instance.  The addresses of *)
(* maps are numbers without a meaning: a new map gets the lowest free one. *)
(***************************************************************************)
EXTENDS MCAlarmEngine, DoubleBuffer

VARIABLE question

LowestFree == \A m \in alive' \ alive, n \in Maps \ alive' : m < n

QuestionInit ==
  /\ question \in {"masks", "floods", "buffer"}
  /\ Init /\ BufferInit
  /\ \A m \in pool, n \in Maps \ alive : m < n

QuestionNext ==
  /\ UNCHANGED question
  /\ \/ question = "masks" /\ MaskNext /\ UNCHANGED bufferVars
     \/ question = "floods" /\ FloodNext /\ UNCHANGED bufferVars
     \/ question = "buffer" /\ BufferNext /\ LowestFree /\ UNCHANGED vars

QuestionSpec == QuestionInit /\ [][QuestionNext]_<<vars, bufferVars, question>>
=============================================================================
