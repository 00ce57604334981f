----------------------------- MODULE DevSensors -----------------------------
(***************************************************************************)
(* Binary, occupancy, temperature and humidity sensors: dev_if/            *)
(* bin_sensor.c, occ_sensor.c, temp_sensor.c and hum_sensor.c.  They have  *)
(* no setter that does anything.                                           *)
(***************************************************************************)
EXTENDS DevKinds

-----------------------------------------------------------------------------
(* Binary sensors. *)

BinSensorFields == {"on", "count", "power"}
BinSensorDefault(mode) == [on |-> 0, count |-> 0, power |-> 2, reachable |-> 0]

BinSensorReadAttr == ReadAttrs
BinSensorReadState == ReadStates(BinSensorFields)
BinSensorWriteAttr == WriteAttrs
BinSensorWriteState == WriteStates(BinSensorFields)

\* write_bin_sensor_state_on also counts the change from 0.
BinSensorCounts(old, new) == old = 0 /\ new # 0

BinSensorUpdateOn == Update
BinSensorUpdatePower == Update
BinSensorUpdate == [on |-> BinSensorUpdateOn, power |-> BinSensorUpdatePower]
BinSensorBound(mode) == {"bin", "power"}
BinSensorAdd(mode) == [Adding({"bin", "power"}, {}) EXCEPT !.reachable = 0]

-----------------------------------------------------------------------------
(* Occupancy sensors. *)

OccSensorFields == {"on", "count", "power"}
OccSensorDefault(mode) == [on |-> 0, count |-> 0, power |-> 2, reachable |-> 0]

OccSensorReadAttr == ReadAttrs
OccSensorReadState == ReadStates(OccSensorFields)
OccSensorWriteAttr == WriteAttrs
OccSensorWriteState == WriteStates(OccSensorFields)

OccSensorCounts(old, new) == old = 0 /\ new # 0

OccSensorUpdateOn == Update
OccSensorUpdatePower == Update
OccSensorUpdate == [on |-> OccSensorUpdateOn, power |-> OccSensorUpdatePower]
OccSensorBound(mode) == {"occ", "power"}
OccSensorAdd(mode) == [Adding({"occ", "power"}, {}) EXCEPT !.reachable = 0]

-----------------------------------------------------------------------------
(* Temperature sensors. *)

TempSensorFields == {"temp", "power"}
TempSensorDefault(mode) == [temp |-> 1, power |-> 2, reachable |-> 0]

TempSensorReadAttr == ReadAttrs
TempSensorReadState == ReadStates(TempSensorFields)
TempSensorWriteAttr == WriteAttrs
TempSensorWriteState == WriteStates(TempSensorFields)

TempSensorUpdateTemp == Update
TempSensorUpdatePower == Update
TempSensorUpdate == [temp |-> TempSensorUpdateTemp, power |-> TempSensorUpdatePower]
TempSensorBound(mode) == {"temp", "power"}
TempSensorAdd(mode) == [Adding({"temp", "power"}, {}) EXCEPT !.reachable = 0]

-----------------------------------------------------------------------------
(* Humidity sensors. *)

HumSensorFields == {"hum", "power"}
HumSensorDefault(mode) == [hum |-> 1, power |-> 2, reachable |-> 0]

HumSensorReadAttr == ReadAttrs
HumSensorReadState == ReadStates(HumSensorFields)
HumSensorWriteAttr == WriteAttrs
HumSensorWriteState == WriteStates(HumSensorFields)

HumSensorUpdateHum == Update

\* It calls set_hum_sensor_state_reachable, which does nothing but fail: an
\* update of the power of a sensor that is not reachable is given up.
HumSensorUpdatePower == [Update EXCEPT !.revives = FALSE]
HumSensorUpdate == [hum |-> HumSensorUpdateHum, power |-> HumSensorUpdatePower]
HumSensorBound(mode) == {"hum", "power"}
HumSensorAdd(mode) == [Adding({"hum", "power"}, {}) EXCEPT !.reachable = 0]
=============================================================================
