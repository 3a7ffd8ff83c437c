----------------------------- MODULE MCCharger -----------------------------
(* Small instances of Charger for TLC. *)
EXTENDS Charger

Report(s, c, t) == [state |-> s, cur |-> c, temp |-> t]

(* A charger without a temperature sensor, one that is full, and one that  *)
(* is connected to nothing.                                                *)
SomePackets == {Report("Bulk", "load", "NA"), Report("Bulk", "zero", "NA"),
                Report("Float", "zero", "real")}

Frame(s, c, on) == [state |-> s, cur |-> c, online |-> on]

ShortScript == <<Frame("Load detect", "zero", TRUE), Frame("Bulk", "load", TRUE),
                 Frame("Fault", "zero", TRUE), Frame("Float", "load", FALSE)>>

DemoAndAuto == {"Demo", "Auto"}
SomeFaults == {"keys", "restart", "crash"}
=============================================================================
