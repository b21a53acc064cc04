-------------------------- MODULE MCModuleSchedules --------------------------
(* Small instances of ModuleSchedules for TLC. *)
EXTENDS ModuleSchedules

CONSTANTS s1, s2, m1

OneOwner == [id \in Ids |-> m1]
OneKey   == [id \in Ids |-> "k"]
OwnKeys  == [id \in Ids |-> id]

Daily  == [type |-> "cron", slots |-> {2, 4, 6, 8}]
Weekly == [type |-> "cron", slots |-> {3, 6}]
Once   == [type |-> "at", ts |-> 2]

TwoCrons == {Daily, Weekly}
Single   == {Once}

OneWait == <<1>>

Symmetry == Permutations(Clients)
=============================================================================
