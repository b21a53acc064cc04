--------------------------- MODULE MCDeliveryPump ---------------------------
(* Small instances of DeliveryPump for TLC. *)
EXTENDS DeliveryPump

CONSTANTS s1, s2, s3, m1, m2

OneOwner  == [id \in Ids |-> m1]
OneKey    == [id \in Ids |-> "k"]
OwnKeys   == [id \in Ids |-> id]

Daily  == [type |-> "cron", slots |-> {2, 4, 6, 8}]
Weekly == [type |-> "cron", slots |-> {2, 6, 8}]
Hourly == [type |-> "every", secs |-> 1]
Late   == [type |-> "at", ts |-> 2]

Cron     == {Daily}
TwoCrons == {Daily, Weekly}
Never    == {[type |-> "at", ts |-> 0]}

OneWait == <<1>>
=============================================================================
