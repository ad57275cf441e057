----------------------------- MODULE MCNotifier -----------------------------
(* Small instances of Notifier. An instant of the model is a few minutes:  *)
(* what matters is the order of a slot, its lateness threshold, its event  *)
(* and the ticks.                                                          *)
EXTENDS Notifier

CONSTANTS
    early,      \* a reminder ahead of its event
    distant     \* a reminder further ahead of its event

Leads == [s \in Reminders \cup Tests |-> IF s = early THEN 2 ELSE IF s = distant THEN 3 ELSE 0]

Mornings == [d \in Digests |-> 2]
=============================================================================
