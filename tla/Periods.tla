------------------------------- MODULE Periods -------------------------------
(* The dates of items and the period they are filtered by (src/feed.go). *)
EXTENDS Integers

CONSTANT NoDate   \* a date that is absent or does not parse, no bound

\* filterDate
FilterDate(item, preferUpdated) ==
    LET preferred == IF preferUpdated THEN item.modified ELSE item.published
        other     == IF preferUpdated THEN item.published ELSE item.modified
    IN IF preferred # NoDate THEN preferred ELSE other

\* An item without a date is in no period but the unlimited one.
WithinPeriod(item, since, until, preferUpdated) ==
    \/ since = NoDate /\ until = NoDate
    \/ LET date == FilterDate(item, preferUpdated)
       IN /\ date # NoDate
          /\ since # NoDate => date >= since
          /\ until # NoDate => date < until
=============================================================================
