----------------------------- MODULE SnapshotStore -----------------------------
(***************************************************************************)
(* What DoubleBuffer promises its readers: commit publishes, in one step,  *)
(* everything the parse thread has written since the commit before, and    *)
(* what a reader has taken does not change under it.                       *)
(***************************************************************************)
CONSTANTS
  Tags,       \* tag ids
  Values,     \* the data of a Snapshot
  Readers,    \* the threads that call readAll
  Absent,     \* a tag without an entry, none of the Values
  Closed      \* a reader that holds no snapshot

VARIABLES
  written,    \* since the last commit
  current,    \* the published snapshot
  seen        \* the snapshot each reader looks at

vars == <<written, current, seen>>

Empty == [t \in Tags |-> Absent]

Init == /\ written = Empty
        /\ current = Empty
        /\ seen = [r \in Readers |-> Closed]

Write(t, v) == /\ written' = [written EXCEPT ![t] = v]
               /\ UNCHANGED <<current, seen>>

Commit == /\ current' = written
          /\ written' = Empty
          /\ UNCHANGED seen

Look(r) == /\ seen[r] = Closed
           /\ seen' = [seen EXCEPT ![r] = current]
           /\ UNCHANGED <<written, current>>

Close(r) == /\ seen[r] # Closed
            /\ seen' = [seen EXCEPT ![r] = Closed]
            /\ UNCHANGED <<written, current>>

Next == \/ \E t \in Tags, v \in Values : Write(t, v)
        \/ Commit
        \/ \E r \in Readers : Look(r) \/ Close(r)

Spec == Init /\ [][Next]_vars
=============================================================================
