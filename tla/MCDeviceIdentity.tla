-------------------------- MODULE MCDeviceIdentity --------------------------
(* A small instance of DeviceIdentity for TLC: nine slots in the current    *)
(* schema, of which six never change, a network card that may change or     *)
(* vanish, a group of two signals, and the stored secret.                   *)
EXTENDS DeviceIdentity

Stable == {"machine_guid", "cpu_id", "disk_serial", "ram_total", "firmware", "volume_id"}

MCSignals == Stable \cup {"nic_identity", "system_uuid", "board_serial", "platform_identity"}
MCGroupName ==
  [s \in MCSignals |-> IF s \in {"system_uuid", "board_serial"} THEN "platform_identity" ELSE s]
MCCurrentSignals == MCSignals \ {"platform_identity"}
MCLegacySignals == Stable \cup {"nic_identity", "board_serial"}
\* The query whose answer may fail to come: it leaves one slot absent and changes
\* another, as eight slots are still enough to refresh the helper.
MCSources == {{"nic_identity", "system_uuid"}}
MCExtraMandatory == [a \in Apps |-> IF a \in Forcing THEN {"nic_identity"} ELSE {}]
=============================================================================
