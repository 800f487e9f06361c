---------------------------- MODULE MCVTPSession ----------------------------
(* VDR's main thread and the thread of the device.                         *)
EXTENDS VTPSession

CONSTANTS main, device
MCThreads == {main, device}
MCCalls == [t \in MCThreads |-> IF t = device THEN {"OPEN", "CLOSE"}
                                ELSE {"PROV", "TUNE", "PRIO", "QUIT"}]
=============================================================================
