---------------------------- MODULE ShelveManager ----------------------------
(***************************************************************************)
(* ShelveManager.h: the deadlines of shelved tags.  One record per tag:    *)
(*   deadline - m_deadlines[tag] against the clock: no entry, pending, due *)
(*   auto     - m_isAuto[tag] (kept and removed together with the deadline)*)
(*   count    - m_shelveCount[tag], capped at MaxAutoShelve                *)
(*   recent   - m_lastUnshelve[tag] is younger than RESHELVE_WINDOW_MS     *)
(* The history list is a log that no decision reads; it is left out.       *)
(***************************************************************************)
EXTENDS Naturals

CONSTANT MaxAutoShelve  \* MAX_AUTO_SHELVE_COUNT, 3 in the code

ASSUME MaxAutoShelveAssumption == MaxAutoShelve \in Nat \ {0}

Shelves == [deadline : {"none", "pending", "due"}, auto : BOOLEAN,
            count : 0 .. MaxAutoShelve, recent : BOOLEAN]

NotShelved == [deadline |-> "none", auto |-> FALSE, count |-> 0, recent |-> FALSE]

(* durationSec > 0, < 0 (a deadline in the past) and = 0 (no deadline).     *)
Durations == {"timed", "past", "open"}

Bump(n) == IF n < MaxAutoShelve THEN n + 1 ELSE MaxAutoShelve

AfterShelve(s, duration, isAuto) ==
  [ deadline |-> CASE duration = "timed" -> "pending"
                   [] duration = "past"  -> "due"
                   [] duration = "open"  -> "none",
    auto     |-> isAuto /\ duration # "open",
    count    |-> IF ~ isAuto THEN s.count ELSE IF s.recent THEN Bump(s.count) ELSE 1,
    recent   |-> s.recent ]

AfterUnshelve(s) == [s EXCEPT !.deadline = "none", !.auto = FALSE, !.recent = TRUE]

(* checkExpired: a due deadline is either extended or handed back to the    *)
(* caller, which must then unshelve the tag itself.                         *)
ExtendsOnExpiry(s) == s.deadline = "due" /\ s.auto /\ s.count >= MaxAutoShelve
(* Faulty variant: the deadline of an operator's shelve is overlooked.      *)
ReleasedIfAuto(s) == s.deadline = "due" /\ s.auto /\ ~ ExtendsOnExpiry(s)
ReleasedOnExpiry(s) == s.deadline = "due" /\ ~ ExtendsOnExpiry(s)

(* Faulty variant: the extended deadline is erased with the expired ones.   *)
AfterExpiryCheckErased(s) ==
  IF s.deadline = "due" THEN [s EXCEPT !.deadline = "none", !.auto = FALSE] ELSE s

AfterExpiryCheck(s) ==
  CASE ExtendsOnExpiry(s)  -> [s EXCEPT !.deadline = "pending", !.count = Bump(@)]
    [] ReleasedOnExpiry(s) -> [s EXCEPT !.deadline = "none", !.auto = FALSE]
    [] OTHER               -> s
=============================================================================
