--------------------------- MODULE MCUserSchedules ---------------------------
(* Small instances of UserSchedules for TLC. *)
EXTENDS UserSchedules

Nightly == [type |-> "cron", slots |-> {2, 3, 5, 6, 7}]
Hourly  == [type |-> "every", secs |-> 1]
Once    == [type |-> "at", ts |-> 2]

Cron     == {Nightly}
CronOnce == {Nightly, Once}
AllSpecs == {Nightly, Hourly, Once}

Patch(spec, enabled, body) == [spec |-> spec, enabled |-> enabled, body |-> body]

Renames  == {Patch(NULL, NULL, b) : b \in Bodies}
Toggles  == {Patch(NULL, e, NULL) : e \in BOOLEAN}
Respecs  == {Patch(s, NULL, NULL) : s \in Specs}
MixedUpdates == Renames \cup Toggles \cup Respecs
Switches == Toggles \cup Respecs
=============================================================================
