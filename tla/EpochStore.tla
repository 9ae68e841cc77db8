----------------------------- MODULE EpochStore -----------------------------
(***************************************************************************)
(* What the storage of a table promises, without pages, files or buffers:  *)
(* contents that change while the table is open, a history of what they    *)
(* were at each checkpointed epoch, and opening at any epoch of it.        *)
(***************************************************************************)
EXTENDS Integers

VARIABLES open,    \* whether the table is open
          table,   \* what it contains, chunk by chunk; nothing unless it is open
          floor,   \* the earliest epoch that can be opened
          ceiling, \* the last one
          history  \* the contents at each of them

vars == <<open, table, floor, ceiling, history>>

Nothing == <<>>

Init ==
  /\ open = TRUE
  /\ table = Nothing
  /\ floor = 0 /\ ceiling = 0
  /\ history = [e \in {0} |-> Nothing]

\* Rows are appended, updated, vacuumed or dropped: only an open table changes,
\* and no epoch of its history does.
Change == open /\ open' /\ UNCHANGED <<floor, ceiling, history>>

\* The contents become those of epoch e at once; epochs that were skipped have the
\* contents of the one before, and those below the new floor are given up.
Checkpoint ==
  /\ open /\ open'
  /\ ceiling' >= ceiling
  /\ floor' \in floor .. ceiling'
  /\ history' = [e \in floor' .. ceiling' |->
                   IF e = ceiling' THEN table
                   ELSE history[IF e <= ceiling THEN e ELSE ceiling]]
  /\ UNCHANGED table

\* The process ends, in order or not: what was not checkpointed is lost.
Lose ==
  /\ ~open'
  /\ table' = Nothing
  /\ UNCHANGED <<floor, ceiling, history>>

\* The table is opened at an epoch of its history; later epochs are forgotten.
Open ==
  /\ ~open /\ open'
  /\ ceiling' \in floor .. ceiling
  /\ floor' = floor
  /\ history' = [e \in floor .. ceiling' |-> history[e]]
  /\ table' = history[ceiling']

Next == Change \/ Checkpoint \/ Lose \/ Open

Spec == Init /\ [][Next]_vars
=============================================================================
