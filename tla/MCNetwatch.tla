----------------------------- MODULE MCNetwatch -----------------------------
(* Small instances of Netwatch for TLC.  What a byte of RTC memory may hold *)
(* after a power loss is either below every threshold or above them all.    *)
EXTENDS Netwatch

OneLevel == {1}
Cleared == {0}
ClearedOrHigh == {0, 4}

NetFaults == {"crater", "wedge", "wifi", "power"}
BootFaults == {"wedge", "wifi", "taskwdt", "power", "panic", "restart", "ota",
               "stall"}
WebOtaFaults == {"webota", "crater"}
=============================================================================
