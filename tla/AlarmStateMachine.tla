-------------------------- MODULE AlarmStateMachine --------------------------
(***************************************************************************)
(* AlarmStateMachine.h: the table of the transitions that an alarm may     *)
(* make.  The engine has tests of its own and never asks it.               *)
(***************************************************************************)

(* The states that may follow each state.                                   *)
Successors ==
  [Normal              |-> {"ActiveUnack", "outOfService"},
   ActiveUnack         |-> {"Activeack", "ReturnToNormalunack", "Shelved",
                            "SuppressedByDesign"},
   Activeack           |-> {"ReturnToNormalunack", "Shelved", "SuppressedByDesign",
                            "ActiveUnack"},
   ReturnToNormalunack |-> {"ReturnToNormalack", "ActiveUnack"},
   ReturnToNormalack   |-> {"Normal", "ActiveUnack"},
   Shelved             |-> {"ActiveUnack", "ReturnToNormalunack"},
   SuppressedByDesign  |-> {"ActiveUnack", "ReturnToNormalunack", "outOfService"},
   outOfService        |-> {"ActiveUnack", "ReturnToNormalunack"}]

CanTransition(from, to) == to \in Successors[from]
=============================================================================
