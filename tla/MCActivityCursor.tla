-------------------------- MODULE MCActivityCursor --------------------------
(* Small instances of ActivityCursor: two calendars, two places in the     *)
(* log, so that the last id of either table can be freed and taken again.  *)
EXTENDS ActivityCursor
=============================================================================
