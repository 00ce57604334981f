---------------------------- MODULE DevStateProofs ----------------------------
(***************************************************************************)
(* The states of devices, for any devices, callers, fields and lengths of  *)
(* the queues: rises of a sensor are counted once each and errors are      *)
(* counted as far as they go; once nothing is under way, clients know what *)
(* is on record and devices do it.                                         *)
(***************************************************************************)
EXTENDS DevState, FiniteSetTheorems, TLAPS

-----------------------------------------------------------------------------
(* What the tables of the types say. *)

LEMMA OverFacts ==
    ASSUME NEW f, NEW g
    PROVE  /\ DOMAIN Over(f, g) = DOMAIN f \cup DOMAIN g
           /\ \A x \in DOMAIN f : Over(f, g)[x] = f[x]
           /\ \A x \in DOMAIN g \ DOMAIN f : Over(f, g)[x] = g[x]
BY DEF Over

\* What the record of a device has of its state.
OnRecord(t) == DOMAIN Default(t, "none")

LEMMA LampRecords ==
    \A m : /\ DOMAIN Default("light", m) = LightFields \cup {"reachable"}
           /\ DOMAIN Default("switch", m) = SwitchFields \cup {"reachable"}
           /\ DOMAIN Default("plug", m) = PlugFields \cup {"reachable"}
           /\ DOMAIN Default("panel", m) = PanelFields \cup {"reachable"}
<1> TAKE m
<1>1. DOMAIN Default("light", m) = LightFields \cup {"reachable"}
  BY DEF Default, LightDefault
<1>2. DOMAIN Default("switch", m) = SwitchFields \cup {"reachable"}
  BY DEF Default, SwitchDefault, SwitchFields
<1>3. DOMAIN Default("plug", m) = PlugFields \cup {"reachable"}
  BY DEF Default, PlugDefault, PlugFields
<1>4. DOMAIN Default("panel", m) = PanelFields \cup {"reachable"}
  BY DEF Default, PanelDefault, PanelFields
<1> QED BY <1>1, <1>2, <1>3, <1>4

LEMMA ActuatorRecords ==
    \A m : /\ DOMAIN Default("shade", m) = ShadeFields \cup {"reachable"}
           /\ DOMAIN Default("bin_ctrl", m) = BinCtrlFields \cup {"reachable"}
           /\ DOMAIN Default("level_ctrl", m) = LevelCtrlFields \cup {"reachable"}
           /\ DOMAIN Default("warn_dev", m) = WarnFields \cup {"reachable"}
           /\ DOMAIN Default("sonos", m) = SonosFields \cup {"reachable"}
<1> TAKE m
<1>1. DOMAIN Default("shade", m) = ShadeFields \cup {"reachable"}
  BY DEF Default, ShadeDefault, ShadeFields
<1>2. DOMAIN Default("bin_ctrl", m) = BinCtrlFields \cup {"reachable"}
  BY DEF Default, BinCtrlDefault, BinCtrlFields
<1>3. DOMAIN Default("level_ctrl", m) = LevelCtrlFields \cup {"reachable"}
  BY DEF Default, LevelCtrlDefault, LevelCtrlFields
<1>4. DOMAIN Default("warn_dev", m) = WarnFields \cup {"reachable"}
  BY DEF Default, WarnDefault, WarnFields
<1>5. DOMAIN Default("sonos", m) = SonosFields \cup {"reachable"}
  BY DEF Default, SonosDefault, SonosFields
<1> QED BY <1>1, <1>2, <1>3, <1>4, <1>5

LEMMA SensorRecords ==
    \A m : /\ DOMAIN Default("bin_sensor", m) = BinSensorFields \cup {"reachable"}
           /\ DOMAIN Default("occ_sensor", m) = OccSensorFields \cup {"reachable"}
           /\ DOMAIN Default("temp_sensor", m) = TempSensorFields \cup {"reachable"}
           /\ DOMAIN Default("hum_sensor", m) = HumSensorFields \cup {"reachable"}
<1> TAKE m
<1>1. DOMAIN Default("bin_sensor", m) = BinSensorFields \cup {"reachable"}
  BY DEF Default, BinSensorDefault, BinSensorFields
<1>2. DOMAIN Default("occ_sensor", m) = OccSensorFields \cup {"reachable"}
  BY DEF Default, OccSensorDefault, OccSensorFields
<1>3. DOMAIN Default("temp_sensor", m) = TempSensorFields \cup {"reachable"}
  BY DEF Default, TempSensorDefault, TempSensorFields
<1>4. DOMAIN Default("hum_sensor", m) = HumSensorFields \cup {"reachable"}
  BY DEF Default, HumSensorDefault, HumSensorFields
<1> QED BY <1>1, <1>2, <1>3, <1>4

LEMMA RecordFields ==
    ASSUME NEW t \in DevTypes
    PROVE  \A m : DOMAIN Default(t, m) = OnRecord(t)
BY LampRecords, ActuatorRecords, SensorRecords DEF DevTypes, OnRecord

LEMMA FieldsAre ==
    /\ Fields("light") = {"on", "bri", "ct", "xy"}
    /\ Fields("switch") = {"on", "level"}
    /\ Fields("plug") = {"on"}
    /\ Fields("panel") = {"on", "level"}
    /\ Fields("shade") = {"level", "action"}
    /\ Fields("bin_ctrl") = {"on"}
    /\ Fields("level_ctrl") = {"level"}
    /\ Fields("warn_dev") = {"warn_mode", "duration"}
    /\ Fields("sonos") = {"play", "volume", "url_id"}
    /\ Fields("bin_sensor") = {"on", "power"}
    /\ Fields("occ_sensor") = {"on", "power"}
    /\ Fields("temp_sensor") = {"temp", "power"}
    /\ Fields("hum_sensor") = {"hum", "power"}
<1>1. /\ Fields("light") = {"on", "bri", "ct", "xy"}
      /\ Fields("switch") = {"on", "level"}
      /\ Fields("plug") = {"on"}
      /\ Fields("panel") = {"on", "level"}
  BY LampRecords DEF Fields, LightFields, SwitchFields, PlugFields, PanelFields
<1>2. /\ Fields("shade") = {"level", "action"}
      /\ Fields("bin_ctrl") = {"on"}
      /\ Fields("level_ctrl") = {"level"}
      /\ Fields("warn_dev") = {"warn_mode", "duration"}
      /\ Fields("sonos") = {"play", "volume", "url_id"}
  BY ActuatorRecords
  DEF Fields, ShadeFields, BinCtrlFields, LevelCtrlFields, WarnFields, SonosFields
<1>3. /\ Fields("bin_sensor") = {"on", "power"}
      /\ Fields("occ_sensor") = {"on", "power"}
      /\ Fields("temp_sensor") = {"temp", "power"}
      /\ Fields("hum_sensor") = {"hum", "power"}
  BY SensorRecords
  DEF Fields, BinSensorFields, OccSensorFields, TempSensorFields, HumSensorFields
<1> QED BY <1>1, <1>2, <1>3


-----------------------------------------------------------------------------
(* Where things are kept. *)

\* What only the record has, and nothing but the state is written to it.
StateKept(t) == (OnRecord(t) \ {"colormode"}) \cup {"at_err_tick"}

LEMMA AttrPlaces ==
    /\ DOMAIN WriteAttrs = ApiAttrs \cup {"ext_attr"} \cup Links
    /\ DOMAIN ReadAttrs = ApiAttrs \cup {"ext_attr"} \cup Links
    /\ WriteAttrs["changerpt"] = <<"file">>
    /\ ReadAttrs["changerpt"] = "file"
<1> DEFINE W == From(<<"file">>, ApiAttrs \cup {"ext_attr"})
           R == From("file", ApiAttrs \cup {"ext_attr"})
<1>1. /\ DOMAIN W = ApiAttrs \cup {"ext_attr"} /\ W["changerpt"] = <<"file">>
      /\ DOMAIN R = ApiAttrs \cup {"ext_attr"} /\ R["changerpt"] = "file"
  BY DEF From, ApiAttrs
<1>2. DOMAIN From(<<"file", "ram">>, Links) = Links /\ DOMAIN From("ram", Links) = Links
  BY DEF From
<1>3. "changerpt" \in ApiAttrs
  BY DEF ApiAttrs
<1>4. WriteAttrs = Over(W, From(<<"file", "ram">>, Links)) /\ ReadAttrs = Over(R, From("ram", Links))
  BY DEF WriteAttrs, ReadAttrs
<1> HIDE DEF W, R
<1> QED BY <1>1, <1>2, <1>3, <1>4 DEF Over

LEMMA StatePlaces ==
    ASSUME NEW fs
    PROVE  /\ DOMAIN WriteStates(fs) = fs \cup {"reachable", "new_dev", "not_added", "at_err_tick"}
           /\ DOMAIN ReadStates(fs) = fs \cup {"reachable", "new_dev", "not_added", "at_err_tick"}
           /\ \A f \in DOMAIN WriteStates(fs) :
                WriteStates(fs)[f] = <<"ram">> /\ ReadStates(fs)[f] = "ram"
BY DEF WriteStates, ReadStates, From, Misc

\* The places of a type whose tables are made of attributes and state.
Placed(t, fs, as) ==
    /\ DOMAIN WriteAttr[t] = DOMAIN WriteAttrs \cup as
    /\ WriteAttr[t]["changerpt"] = <<"file">>
    /\ DOMAIN ReadAttr[t] = DOMAIN ReadAttrs \cup as
    /\ ReadAttr[t]["changerpt"] = "file"
    /\ DOMAIN WriteState[t] = DOMAIN WriteStates(fs)
    /\ \A f \in DOMAIN WriteStates(fs) \ {"colormode"} : WriteState[t][f] = <<"ram">>
    /\ ReadState[t] = ReadStates(fs)

LEMMA LampPlaces ==
    /\ Placed("light", LightFields, {"ext_colormode"})
    /\ Placed("switch", SwitchFields, {"ext_colormode"})
    /\ Placed("plug", PlugFields, {})
    /\ Placed("panel", PanelFields, {})
<1>1. Placed("light", LightFields, {"ext_colormode"})
  <2>1. /\ DOMAIN LightWriteAttr = DOMAIN WriteAttrs \cup {"ext_colormode"}
        /\ LightWriteAttr["changerpt"] = <<"file">>
    BY AttrPlaces DEF Over, LightWriteAttr, ApiAttrs
  <2>2. /\ DOMAIN LightReadAttr = DOMAIN ReadAttrs \cup {"ext_colormode"}
        /\ LightReadAttr["changerpt"] = "file"
    BY AttrPlaces DEF Over, LightReadAttr, ApiAttrs
  <2>3. /\ DOMAIN LightWriteState = {"colormode"} \cup DOMAIN WriteStates(LightFields)
        /\ \A f \in DOMAIN WriteStates(LightFields) \ {"colormode"} :
                LightWriteState[f] = WriteStates(LightFields)[f]
    BY DEF Over, LightWriteState
  <2>4. "colormode" \in LightFields
    BY DEF LightFields
  <2>5. /\ WriteAttr["light"] = LightWriteAttr /\ ReadAttr["light"] = LightReadAttr
        /\ WriteState["light"] = LightWriteState /\ ReadState["light"] = ReadStates(LightFields)
    BY DEF WriteAttr, ReadAttr, WriteState, ReadState, LightReadState
  <2>6. DOMAIN LightWriteState = DOMAIN WriteStates(LightFields)
    <3>1. "colormode" \in DOMAIN WriteStates(LightFields)
      BY <2>4 DEF WriteStates, From
    <3> QED BY <3>1, <2>3
  <2>7. \A f \in DOMAIN WriteStates(LightFields) : WriteStates(LightFields)[f] = <<"ram">>
    BY StatePlaces
  <2> QED BY <2>1, <2>2, <2>3, <2>5, <2>6, <2>7 DEF Placed
<1>2. Placed("switch", SwitchFields, {"ext_colormode"})
  <2>1. /\ DOMAIN SwitchWriteAttr = DOMAIN WriteAttrs \cup {"ext_colormode"}
        /\ SwitchWriteAttr["changerpt"] = <<"file">>
    BY AttrPlaces DEF Over, SwitchWriteAttr, ApiAttrs
  <2>2. /\ DOMAIN SwitchReadAttr = DOMAIN ReadAttrs \cup {"ext_colormode"}
        /\ SwitchReadAttr["changerpt"] = "file"
    BY AttrPlaces DEF Over, SwitchReadAttr, ApiAttrs
  <2>3. /\ DOMAIN SwitchWriteState = {"colormode"} \cup DOMAIN WriteStates(SwitchFields)
        /\ \A f \in DOMAIN WriteStates(SwitchFields) \ {"colormode"} :
                SwitchWriteState[f] = WriteStates(SwitchFields)[f]
    BY DEF Over, SwitchWriteState
  <2>4. "colormode" \in SwitchFields
    BY DEF SwitchFields
  <2>5. /\ WriteAttr["switch"] = SwitchWriteAttr /\ ReadAttr["switch"] = SwitchReadAttr
        /\ WriteState["switch"] = SwitchWriteState /\ ReadState["switch"] = ReadStates(SwitchFields)
    BY DEF WriteAttr, ReadAttr, WriteState, ReadState, SwitchReadState
  <2>6. DOMAIN SwitchWriteState = DOMAIN WriteStates(SwitchFields)
    <3>1. "colormode" \in DOMAIN WriteStates(SwitchFields)
      BY <2>4 DEF WriteStates, From
    <3> QED BY <3>1, <2>3
  <2>7. \A f \in DOMAIN WriteStates(SwitchFields) : WriteStates(SwitchFields)[f] = <<"ram">>
    BY StatePlaces
  <2> QED BY <2>1, <2>2, <2>3, <2>5, <2>6, <2>7 DEF Placed
<1>3. Placed("plug", PlugFields, {})
  BY AttrPlaces, StatePlaces
  DEF Placed, WriteAttr, ReadAttr, WriteState, ReadState, PlugWriteAttr, PlugReadAttr,
      PlugWriteState, PlugReadState
<1>4. Placed("panel", PanelFields, {})
  BY AttrPlaces, StatePlaces
  DEF Placed, WriteAttr, ReadAttr, WriteState, ReadState, PanelWriteAttr, PanelReadAttr,
      PanelWriteState, PanelReadState
<1> QED BY <1>1, <1>2, <1>3, <1>4

LEMMA ActuatorPlaces ==
    /\ Placed("shade", ShadeFields, {})
    /\ Placed("bin_ctrl", BinCtrlFields, {})
    /\ Placed("level_ctrl", LevelCtrlFields, {})
    /\ Placed("warn_dev", WarnFields, {})
    /\ Placed("sonos", SonosFields, {})
<1>1. Placed("shade", ShadeFields, {})
  BY AttrPlaces, StatePlaces
  DEF Placed, WriteAttr, ReadAttr, WriteState, ReadState, ShadeWriteAttr, ShadeReadAttr,
      ShadeWriteState, ShadeReadState
<1>2. Placed("bin_ctrl", BinCtrlFields, {})
  BY AttrPlaces, StatePlaces
  DEF Placed, WriteAttr, ReadAttr, WriteState, ReadState, BinCtrlWriteAttr, BinCtrlReadAttr,
      BinCtrlWriteState, BinCtrlReadState
<1>3. Placed("level_ctrl", LevelCtrlFields, {})
  BY AttrPlaces, StatePlaces
  DEF Placed, WriteAttr, ReadAttr, WriteState, ReadState, LevelCtrlWriteAttr, LevelCtrlReadAttr,
      LevelCtrlWriteState, LevelCtrlReadState
<1>4. Placed("warn_dev", WarnFields, {})
  BY AttrPlaces, StatePlaces
  DEF Placed, WriteAttr, ReadAttr, WriteState, ReadState, WarnWriteAttr, WarnReadAttr,
      WarnWriteState, WarnReadState
<1>5. Placed("sonos", SonosFields, {})
  BY AttrPlaces, StatePlaces
  DEF Placed, WriteAttr, ReadAttr, WriteState, ReadState, SonosWriteAttr, SonosReadAttr,
      SonosWriteState, SonosReadState
<1> QED BY <1>1, <1>2, <1>3, <1>4, <1>5

LEMMA SensorPlaces ==
    /\ Placed("bin_sensor", BinSensorFields, {})
    /\ Placed("occ_sensor", OccSensorFields, {})
    /\ Placed("temp_sensor", TempSensorFields, {})
    /\ Placed("hum_sensor", HumSensorFields, {})
<1>1. Placed("bin_sensor", BinSensorFields, {})
  BY AttrPlaces, StatePlaces
  DEF Placed, WriteAttr, ReadAttr, WriteState, ReadState, BinSensorWriteAttr, BinSensorReadAttr,
      BinSensorWriteState, BinSensorReadState
<1>2. Placed("occ_sensor", OccSensorFields, {})
  BY AttrPlaces, StatePlaces
  DEF Placed, WriteAttr, ReadAttr, WriteState, ReadState, OccSensorWriteAttr, OccSensorReadAttr,
      OccSensorWriteState, OccSensorReadState
<1>3. Placed("temp_sensor", TempSensorFields, {})
  BY AttrPlaces, StatePlaces
  DEF Placed, WriteAttr, ReadAttr, WriteState, ReadState, TempSensorWriteAttr, TempSensorReadAttr,
      TempSensorWriteState, TempSensorReadState
<1>4. Placed("hum_sensor", HumSensorFields, {})
  BY AttrPlaces, StatePlaces
  DEF Placed, WriteAttr, ReadAttr, WriteState, ReadState, HumSensorWriteAttr, HumSensorReadAttr,
      HumSensorWriteState, HumSensorReadState
<1> QED BY <1>1, <1>2, <1>3, <1>4

LEMMA PlacedKept ==
    ASSUME NEW t \in DevTypes, NEW fs, NEW as, Placed(t, fs, as),
           NEW f \in (fs \cup {"reachable", "at_err_tick"}) \ {"colormode"},
           f \notin ApiAttrs \cup {"ext_attr"} \cup Links \cup as
    PROVE  /\ f \in DOMAIN WriteTo[t] /\ WriteTo[t][f] = <<"ram">>
           /\ f \in DOMAIN ReadFrom[t] /\ ReadFrom[t][f] = "ram"
<1>1. f \notin DOMAIN WriteAttr[t] /\ f \notin DOMAIN ReadAttr[t]
  BY AttrPlaces DEF Placed
<1>2. f \in DOMAIN WriteStates(fs) /\ f \in DOMAIN ReadStates(fs)
  BY DEF WriteStates, ReadStates, From, Misc
<1>3. WriteState[t][f] = <<"ram">> /\ f \in DOMAIN WriteState[t]
  BY <1>2 DEF Placed
<1>4. ReadState[t][f] = "ram" /\ f \in DOMAIN ReadState[t]
  <2>1. ReadStates(fs)[f] = "ram"
    BY <1>2, StatePlaces
  <2> QED BY <2>1, <1>2 DEF Placed
<1>5. WriteTo[t] = Over(WriteAttr[t], WriteState[t]) /\ ReadFrom[t] = Over(ReadAttr[t], ReadState[t])
  BY DEF WriteTo, ReadFrom
<1> QED BY <1>1, <1>3, <1>4, <1>5 DEF Over

LEMMA PlacedRpt ==
    ASSUME NEW t \in DevTypes, NEW fs, NEW as, Placed(t, fs, as)
    PROVE  /\ "changerpt" \in DOMAIN WriteTo[t] /\ WriteTo[t]["changerpt"] = <<"file">>
           /\ "changerpt" \in DOMAIN ReadFrom[t] /\ ReadFrom[t]["changerpt"] = "file"
<1>1. "changerpt" \in DOMAIN WriteAttr[t] /\ "changerpt" \in DOMAIN ReadAttr[t]
  BY AttrPlaces DEF Placed, ApiAttrs
<1>2. WriteAttr[t]["changerpt"] = <<"file">> /\ ReadAttr[t]["changerpt"] = "file"
  BY DEF Placed
<1>5. WriteTo[t] = Over(WriteAttr[t], WriteState[t]) /\ ReadFrom[t] = Over(ReadAttr[t], ReadState[t])
  BY DEF WriteTo, ReadFrom
<1> QED BY <1>1, <1>2, <1>5 DEF Over

\* One place each: the state is in the record, changerpt in the file.
LEMMA Kept ==
    ASSUME NEW t \in DevTypes
    PROVE  /\ \A f \in StateKept(t) : 
                /\ f \in DOMAIN WriteTo[t] /\ WriteTo[t][f] = <<"ram">>
                /\ f \in DOMAIN ReadFrom[t] /\ ReadFrom[t][f] = "ram"
           /\ "changerpt" \in DOMAIN WriteTo[t] /\ WriteTo[t]["changerpt"] = <<"file">>
           /\ "changerpt" \in DOMAIN ReadFrom[t] /\ ReadFrom[t]["changerpt"] = "file"
<1>1. CASE t = "light"
  <2>1. Placed(t, LightFields, {"ext_colormode"})
    BY <1>1, LampPlaces
  <2>2. \A f \in StateKept(t) :
            /\ f \in (LightFields \cup {"reachable", "at_err_tick"}) \ {"colormode"}
            /\ f \notin ApiAttrs \cup {"ext_attr"} \cup Links \cup {"ext_colormode"}
    BY <1>1, LampRecords DEF StateKept, OnRecord, LightFields, ApiAttrs, Links
  <2> QED BY <2>1, <2>2, PlacedKept, PlacedRpt
<1>2. CASE t = "switch"
  <2>1. Placed(t, SwitchFields, {"ext_colormode"})
    BY <1>2, LampPlaces
  <2>2. \A f \in StateKept(t) :
            /\ f \in (SwitchFields \cup {"reachable", "at_err_tick"}) \ {"colormode"}
            /\ f \notin ApiAttrs \cup {"ext_attr"} \cup Links \cup {"ext_colormode"}
    BY <1>2, LampRecords DEF StateKept, OnRecord, SwitchFields, ApiAttrs, Links
  <2> QED BY <2>1, <2>2, PlacedKept, PlacedRpt
<1>3. CASE t = "plug"
  <2>1. Placed(t, PlugFields, {})
    BY <1>3, LampPlaces
  <2>2. \A f \in StateKept(t) :
            /\ f \in (PlugFields \cup {"reachable", "at_err_tick"}) \ {"colormode"}
            /\ f \notin ApiAttrs \cup {"ext_attr"} \cup Links \cup {}
    BY <1>3, LampRecords DEF StateKept, OnRecord, PlugFields, ApiAttrs, Links
  <2> QED BY <2>1, <2>2, PlacedKept, PlacedRpt
<1>4. CASE t = "panel"
  <2>1. Placed(t, PanelFields, {})
    BY <1>4, LampPlaces
  <2>2. \A f \in StateKept(t) :
            /\ f \in (PanelFields \cup {"reachable", "at_err_tick"}) \ {"colormode"}
            /\ f \notin ApiAttrs \cup {"ext_attr"} \cup Links \cup {}
    BY <1>4, LampRecords DEF StateKept, OnRecord, PanelFields, ApiAttrs, Links
  <2> QED BY <2>1, <2>2, PlacedKept, PlacedRpt
<1>5. CASE t = "shade"
  <2>1. Placed(t, ShadeFields, {})
    BY <1>5, ActuatorPlaces
  <2>2. \A f \in StateKept(t) :
            /\ f \in (ShadeFields \cup {"reachable", "at_err_tick"}) \ {"colormode"}
            /\ f \notin ApiAttrs \cup {"ext_attr"} \cup Links \cup {}
    BY <1>5, ActuatorRecords DEF StateKept, OnRecord, ShadeFields, ApiAttrs, Links
  <2> QED BY <2>1, <2>2, PlacedKept, PlacedRpt
<1>6. CASE t = "bin_ctrl"
  <2>1. Placed(t, BinCtrlFields, {})
    BY <1>6, ActuatorPlaces
  <2>2. \A f \in StateKept(t) :
            /\ f \in (BinCtrlFields \cup {"reachable", "at_err_tick"}) \ {"colormode"}
            /\ f \notin ApiAttrs \cup {"ext_attr"} \cup Links \cup {}
    BY <1>6, ActuatorRecords DEF StateKept, OnRecord, BinCtrlFields, ApiAttrs, Links
  <2> QED BY <2>1, <2>2, PlacedKept, PlacedRpt
<1>7. CASE t = "level_ctrl"
  <2>1. Placed(t, LevelCtrlFields, {})
    BY <1>7, ActuatorPlaces
  <2>2. \A f \in StateKept(t) :
            /\ f \in (LevelCtrlFields \cup {"reachable", "at_err_tick"}) \ {"colormode"}
            /\ f \notin ApiAttrs \cup {"ext_attr"} \cup Links \cup {}
    BY <1>7, ActuatorRecords DEF StateKept, OnRecord, LevelCtrlFields, ApiAttrs, Links
  <2> QED BY <2>1, <2>2, PlacedKept, PlacedRpt
<1>8. CASE t = "warn_dev"
  <2>1. Placed(t, WarnFields, {})
    BY <1>8, ActuatorPlaces
  <2>2. \A f \in StateKept(t) :
            /\ f \in (WarnFields \cup {"reachable", "at_err_tick"}) \ {"colormode"}
            /\ f \notin ApiAttrs \cup {"ext_attr"} \cup Links \cup {}
    BY <1>8, ActuatorRecords DEF StateKept, OnRecord, WarnFields, ApiAttrs, Links
  <2> QED BY <2>1, <2>2, PlacedKept, PlacedRpt
<1>9. CASE t = "sonos"
  <2>1. Placed(t, SonosFields, {})
    BY <1>9, ActuatorPlaces
  <2>2. \A f \in StateKept(t) :
            /\ f \in (SonosFields \cup {"reachable", "at_err_tick"}) \ {"colormode"}
            /\ f \notin ApiAttrs \cup {"ext_attr"} \cup Links \cup {}
    BY <1>9, ActuatorRecords DEF StateKept, OnRecord, SonosFields, ApiAttrs, Links
  <2> QED BY <2>1, <2>2, PlacedKept, PlacedRpt
<1>10. CASE t = "bin_sensor"
  <2>1. Placed(t, BinSensorFields, {})
    BY <1>10, SensorPlaces
  <2>2. \A f \in StateKept(t) :
            /\ f \in (BinSensorFields \cup {"reachable", "at_err_tick"}) \ {"colormode"}
            /\ f \notin ApiAttrs \cup {"ext_attr"} \cup Links \cup {}
    BY <1>10, SensorRecords DEF StateKept, OnRecord, BinSensorFields, ApiAttrs, Links
  <2> QED BY <2>1, <2>2, PlacedKept, PlacedRpt
<1>11. CASE t = "occ_sensor"
  <2>1. Placed(t, OccSensorFields, {})
    BY <1>11, SensorPlaces
  <2>2. \A f \in StateKept(t) :
            /\ f \in (OccSensorFields \cup {"reachable", "at_err_tick"}) \ {"colormode"}
            /\ f \notin ApiAttrs \cup {"ext_attr"} \cup Links \cup {}
    BY <1>11, SensorRecords DEF StateKept, OnRecord, OccSensorFields, ApiAttrs, Links
  <2> QED BY <2>1, <2>2, PlacedKept, PlacedRpt
<1>12. CASE t = "temp_sensor"
  <2>1. Placed(t, TempSensorFields, {})
    BY <1>12, SensorPlaces
  <2>2. \A f \in StateKept(t) :
            /\ f \in (TempSensorFields \cup {"reachable", "at_err_tick"}) \ {"colormode"}
            /\ f \notin ApiAttrs \cup {"ext_attr"} \cup Links \cup {}
    BY <1>12, SensorRecords DEF StateKept, OnRecord, TempSensorFields, ApiAttrs, Links
  <2> QED BY <2>1, <2>2, PlacedKept, PlacedRpt
<1>13. CASE t = "hum_sensor"
  <2>1. Placed(t, HumSensorFields, {})
    BY <1>13, SensorPlaces
  <2>2. \A f \in StateKept(t) :
            /\ f \in (HumSensorFields \cup {"reachable", "at_err_tick"}) \ {"colormode"}
            /\ f \notin ApiAttrs \cup {"ext_attr"} \cup Links \cup {}
    BY <1>13, SensorRecords DEF StateKept, OnRecord, HumSensorFields, ApiAttrs, Links
  <2> QED BY <2>1, <2>2, PlacedKept, PlacedRpt
<1> QED BY <1>1, <1>2, <1>3, <1>4, <1>5, <1>6, <1>7, <1>8, <1>9, <1>10, <1>11, <1>12, <1>13 DEF DevTypes

-----------------------------------------------------------------------------
(* The shape of the state. *)

UsedOK ==
    /\ used \in [{"sets", "fails", "inputs", "tick"} -> Nat]
    /\ used["fails"] <= MaxFails
    /\ used["tick"] \in {ScanLimit - 2, ScanLimit - 1}

RecordOK(t) ==
    /\ DOMAIN ram[t] = OnRecord(t) \cup {"at_err_tick"}
    /\ ram[t]["reachable"] \in {0, 1}
    /\ ram[t]["at_err_tick"] \in Nat
    /\ ram[t]["at_err_tick"] <= used["tick"] + used["fails"]
    /\ "colormode" \in OnRecord(t) => ram[t]["colormode"] \in Modes(t)
    /\ "count" \in OnRecord(t) => ram[t]["count"] \in Nat
    /\ \A f \in Fields(t) : ram[t][f] \in Values
    /\ file[t] \in [{"changerpt"} -> {0, 1}]

RecordsOK ==
    /\ \E s \in Sites : site = DOMAIN s
    /\ DOMAIN ram = site
    /\ file \in [site -> [{"changerpt"} -> {0, 1}]]
    /\ \A t \in site : RecordOK(t)
    /\ UsedOK

\* A state and some fields of each of the devices S.
StatesOf(S, x) ==
    /\ x \in [S -> UNION {[Fields(t) -> Values] : t \in S}]
    /\ \A t \in S : x[t] \in [Fields(t) -> Values]

FieldsOf(S, x) ==
    /\ x \in [S -> UNION {SUBSET Fields(t) : t \in S}]
    /\ \A t \in S : x[t] \subseteq Fields(t)

DevicesOK ==
    /\ RecordsOK
    /\ StatesOf(site, phys) /\ StatesOf(site, seen)
    /\ FieldsOf(site, stray) /\ FieldsOf(site, unseen) /\ FieldsOf(site, hushed)
    /\ failed \in [site -> Nat] /\ rises \in [site -> Nat]

LEMMA SiteTypes == ASSUME DevicesOK PROVE site \subseteq DevTypes
BY SiteAssumption DEF DevicesOK, RecordsOK

LEMMA KeptFields ==
    ASSUME NEW t \in DevTypes
    PROVE  /\ Fields(t) \subseteq StateKept(t) 
           /\ "reachable" \in StateKept(t) /\ "at_err_tick" \in StateKept(t)
           /\ StateKept(t) \subseteq OnRecord(t) \cup {"at_err_tick"}
           /\ "colormode" \notin StateKept(t)
           /\ "reachable" \notin Fields(t) /\ "at_err_tick" \notin Fields(t)
           /\ "count" \notin Fields(t) /\ "colormode" \notin Fields(t)
<1>1. Fields(t) \subseteq OnRecord(t) \ {"colormode"}
  BY DEF Fields, OnRecord
<1>2. "reachable" \in OnRecord(t)
  BY RecordFields, LampRecords, ActuatorRecords, SensorRecords DEF DevTypes, OnRecord
<1>3. "reachable" \notin Fields(t) /\ "count" \notin Fields(t) /\ "colormode" \notin Fields(t)
  BY DEF Fields
<1>4. "at_err_tick" \notin Fields(t)
  BY FieldsAre DEF DevTypes
<1> QED BY <1>1, <1>2, <1>3, <1>4 DEF StateKept

LEMMA Reads ==
    ASSUME DevicesOK, NEW t \in site
    PROVE  /\ \A f \in StateKept(t) : Read(t, f) = ram[t][f]
           /\ Read(t, "changerpt") = file[t]["changerpt"]
<1>1. t \in DevTypes
  BY SiteTypes
<1> QED BY <1>1, Kept DEF Read

\* vals has been written to the record of t, and nothing else.
Written(t, vals) ==
    /\ DOMAIN ram' = DOMAIN ram
    /\ \A u \in DOMAIN ram \ {t} : ram'[u] = ram[u]
    /\ DOMAIN ram'[t] = DOMAIN ram[t] \cup DOMAIN vals
    /\ \A f \in DOMAIN vals : ram'[t][f] = vals[f]
    /\ \A f \in DOMAIN ram[t] \ DOMAIN vals : ram'[t][f] = ram[t][f]
    /\ file' = file

LEMMA Writes ==
    ASSUME DevicesOK, NEW t \in site, NEW vals, DOMAIN vals \subseteq StateKept(t),
           Write(t, vals)
    PROVE  Written(t, vals)
<1>1. t \in DevTypes
  BY SiteTypes
<1> DEFINE R == [f \in {g \in DOMAIN vals : "ram" \in Range(WriteTo[t][g])} |-> vals[f]]
           F == [f \in {g \in DOMAIN vals : "file" \in Range(WriteTo[t][g])} |-> vals[f]]
<1>2. \A g \in DOMAIN vals : WriteTo[t][g] = <<"ram">>
  BY <1>1, Kept
<1>3. Range(<<"ram">>) = {"ram"}
  BY DEF Range
<1>4. {g \in DOMAIN vals : "ram" \in Range(WriteTo[t][g])} = DOMAIN vals
  BY <1>2, <1>3
<1>5. {g \in DOMAIN vals : "file" \in Range(WriteTo[t][g])} = {}
  BY <1>2, <1>3
<1>6. R = [f \in DOMAIN vals |-> vals[f]]
  BY <1>4
<1>7. DOMAIN F = {}
  BY <1>5
<1>8. ram' = [ram EXCEPT ![t] = Over(R, @)] /\ file' = [file EXCEPT ![t] = Over(F, @)]
  BY DEF Write, Stored
<1>9. file[t] \in [{"changerpt"} -> {0, 1}] /\ file \in [site -> [{"changerpt"} -> {0, 1}]]
  BY DEF DevicesOK, RecordsOK
<1>10. Over(F, file[t]) = [x \in {"changerpt"} |-> file[t][x]]
  <2> HIDE DEF F
  <2> QED BY <1>7, <1>9 DEF Over
<1>11. Over(F, file[t]) = file[t]
  BY <1>9, <1>10
<1>12. file' = file
  <2> HIDE DEF F
  <2> QED BY <1>8, <1>9, <1>11
<1>13. DOMAIN ram = site
  BY DEF DevicesOK, RecordsOK
<1>14. DOMAIN R = DOMAIN vals /\ \A f \in DOMAIN vals : R[f] = vals[f]
  BY <1>6
<1>15. /\ DOMAIN ram' = DOMAIN ram
       /\ \A u \in DOMAIN ram \ {t} : ram'[u] = ram[u]
       /\ ram'[t] = Over(R, ram[t])
  <2> HIDE DEF R
  <2> QED BY <1>8, <1>13
<1> HIDE DEF R, F
<1> QED BY <1>12, <1>14, <1>15 DEF Written, Over

LEMMA WritesRpt ==
    ASSUME DevicesOK, NEW t \in site, NEW v \in {0, 1},
           Write(t, [changerpt |-> v])
    PROVE  /\ DOMAIN ram' = DOMAIN ram
           /\ \A u \in site : DOMAIN ram'[u] = DOMAIN ram[u]
           /\ \A u \in site : \A f \in DOMAIN ram[u] : ram'[u][f] = ram[u][f]
           /\ file' \in [site -> [{"changerpt"} -> {0, 1}]]
           /\ file' = [file EXCEPT ![t] = [x \in {"changerpt"} |-> v]]
<1>1. t \in DevTypes
  BY SiteTypes
<1> DEFINE vals == [changerpt |-> v]
<1> DEFINE R == [f \in {g \in DOMAIN vals : "ram" \in Range(WriteTo[t][g])} |-> vals[f]]
           F == [f \in {g \in DOMAIN vals : "file" \in Range(WriteTo[t][g])} |-> vals[f]]
<1>2. \A g \in DOMAIN vals : g = "changerpt" /\ WriteTo[t][g] = <<"file">>
  BY <1>1, Kept
<1>3. Range(<<"file">>) = {"file"}
  BY DEF Range
<1>4. {g \in DOMAIN vals : "ram" \in Range(WriteTo[t][g])} = {}
  BY <1>2, <1>3
<1>5. {g \in DOMAIN vals : "file" \in Range(WriteTo[t][g])} = {"changerpt"}
  BY <1>2, <1>3
<1>6. F = [f \in {"changerpt"} |-> v]
  BY <1>5
<1>7. DOMAIN R = {}
  BY <1>4
<1>8. ram' = [ram EXCEPT ![t] = Over(R, @)] /\ file' = [file EXCEPT ![t] = Over(F, @)]
  BY DEF Write, Stored
<1>9. file[t] \in [{"changerpt"} -> {0, 1}] /\ file \in [site -> [{"changerpt"} -> {0, 1}]]
  BY DEF DevicesOK, RecordsOK
<1>10. DOMAIN ram = site
  BY DEF DevicesOK, RecordsOK
<1>11. Over(F, file[t]) = F
  BY <1>6, <1>9 DEF Over
<1>12. file' = [file EXCEPT ![t] = [x \in {"changerpt"} |-> v]]
  BY <1>6, <1>8, <1>11
<1>13. file' \in [site -> [{"changerpt"} -> {0, 1}]]
  BY <1>9, <1>12
<1>14. /\ DOMAIN Over(R, ram[t]) = DOMAIN ram[t]
       /\ \A f \in DOMAIN ram[t] : Over(R, ram[t])[f] = ram[t][f]
  <2> HIDE DEF R
  <2> QED BY <1>7 DEF Over
<1>15. /\ DOMAIN ram' = DOMAIN ram
       /\ \A u \in DOMAIN ram \ {t} : ram'[u] = ram[u]
       /\ ram'[t] = Over(R, ram[t])
  <2> HIDE DEF R
  <2> QED BY <1>8, <1>10
<1> HIDE DEF R, F
<1> QED BY <1>10, <1>12, <1>13, <1>14, <1>15

-----------------------------------------------------------------------------
(* What setters do. *)

LEMMA RequestsAre ==
    ASSUME NEW r \in Requests
    PROVE  \/ r = <<"light", "on">> \/ r = <<"light", "bri">> \/ r = <<"light", "ct">>
           \/ r = <<"light", "xy">>
           \/ r = <<"bin_ctrl", "on">> \/ r = <<"plug", "on">> \/ r = <<"switch", "on">>
           \/ r = <<"panel", "on">>
           \/ r = <<"level_ctrl", "level">> \/ r = <<"switch", "level">>
           \/ r = <<"panel", "level">>
           \/ r = <<"warn_dev", "warn_mode">> \/ r = <<"warn_dev", "duration">>
           \/ r = <<"warn_dev", "warn_cfg">>
           \/ r = <<"shade", "action">>
           \/ r = <<"sonos", "play">> \/ r = <<"sonos", "volume">> \/ r = <<"sonos", "url_id">>
<1> DEFINE A == [on |-> SettableOn, bri |-> SettableBri, level |-> SettableLevel,
                 action |-> SettableAction]
<1>1. r = <<r[1], r[2]>> /\ r[2] \in DOMAIN Settable /\ r[1] \in Settable[r[2]] 
      /\ r[1] \in DOMAIN SetState /\ r[2] \in DOMAIN SetState[r[1]]
  BY DEF Requests
<1>2. Settable = Over(A, Over(SettableColour, Over(SettableWarn, SettableSonos)))
  BY DEF Settable
<1>3. DOMAIN A = {"on", "bri", "level", "action"}
      /\ A["on"] = SettableOn /\ A["bri"] = SettableBri /\ A["level"] = SettableLevel
      /\ A["action"] = SettableAction
  OBVIOUS
<1>4. DOMAIN SettableColour = {"ct", "xy"}
      /\ SettableColour["ct"] = {"light"} /\ SettableColour["xy"] = {"light"}
  BY DEF SettableColour
<1>5. DOMAIN SettableWarn = {"warn_mode", "duration", "warn_cfg"}
      /\ \A f \in DOMAIN SettableWarn : SettableWarn[f] = {"warn_dev"}
  BY DEF SettableWarn
<1>6. DOMAIN SettableSonos = {"play", "volume", "url_id"}
      /\ \A f \in DOMAIN SettableSonos : SettableSonos[f] = {"sonos"}
  BY DEF SettableSonos
<1>7. DOMAIN Settable = {"on", "bri", "level", "action", "ct", "xy", "warn_mode", "duration",
                         "warn_cfg", "play", "volume", "url_id"}
  <2> HIDE DEF A
  <2> QED BY <1>2, <1>3, <1>4, <1>5, <1>6 DEF Over
<1>8. /\ Settable["on"] = SettableOn /\ Settable["bri"] = SettableBri
      /\ Settable["level"] = SettableLevel /\ Settable["action"] = SettableAction
      /\ Settable["ct"] = {"light"} /\ Settable["xy"] = {"light"}
      /\ \A f \in {"warn_mode", "duration", "warn_cfg"} : Settable[f] = {"warn_dev"}
      /\ \A f \in {"play", "volume", "url_id"} : Settable[f] = {"sonos"}
  <2> HIDE DEF A
  <2> QED BY <1>2, <1>3, <1>4, <1>5, <1>6 DEF Over
<1>9. DOMAIN SetState["plug"] = {"on"}
  BY DEF SetState, PlugSet
<1> QED BY <1>1, <1>7, <1>8, <1>9
        DEF SettableOn, SettableBri, SettableLevel, SettableAction

\* The setter of a request, with what the models make of it.
IsSetter(t, f, fields, carries, modes, charge, limits, queued) ==
    LET s == SetState[t][f]
    IN /\ s.fields = fields /\ s.carries = carries /\ s.modes = modes /\ s.charge = charge
       /\ s.limits = limits /\ s.queued = queued

LEMMA LampSetters ==
    /\ IsSetter("light", "on", {"on"}, {}, AnyMode, "light", {}, TRUE)
    /\ IsSetter("light", "bri", {"bri"}, {}, AnyMode, "light", {}, TRUE)
    /\ IsSetter("light", "ct", {"ct"}, {}, {"ct"}, "light", {"command", "record"}, TRUE)
    /\ IsSetter("light", "xy", {"xy"}, {}, {"xy"}, "light", {}, TRUE)
    /\ IsSetter("switch", "on", {"on"}, {}, {"on_off", "multi"}, "switch", {}, TRUE)
    /\ IsSetter("switch", "level", {"level"}, {}, {"level", "multi"}, "switch", {"command"}, TRUE)
    /\ IsSetter("plug", "on", {"on"}, {}, AnyMode, "plug", {}, TRUE)
    /\ IsSetter("panel", "on", {"on"}, {}, AnyMode, "panel", {}, TRUE)
    /\ IsSetter("panel", "level", {"level"}, {}, AnyMode, "switch", {"command"}, TRUE)
<1>1. /\ IsSetter("light", "on", {"on"}, {}, AnyMode, "light", {}, TRUE)
      /\ IsSetter("light", "bri", {"bri"}, {}, AnyMode, "light", {}, TRUE)
  BY DEF IsSetter, SetState, LightSet, LightSetOn, LightSetBri, Setter
<1>2. IsSetter("light", "ct", {"ct"}, {}, {"ct"}, "light", {"command", "record"}, TRUE)
  BY DEF IsSetter, SetState, LightSet, LightSetCt, Setter
<1>3. IsSetter("light", "xy", {"xy"}, {}, {"xy"}, "light", {}, TRUE)
  BY DEF IsSetter, SetState, LightSet, LightSetXy, Setter
<1>4. IsSetter("switch", "on", {"on"}, {}, {"on_off", "multi"}, "switch", {}, TRUE)
  BY DEF IsSetter, SetState, SwitchSet, SwitchSetOn, Setter
<1>5. IsSetter("switch", "level", {"level"}, {}, {"level", "multi"}, "switch", {"command"}, TRUE)
  BY DEF IsSetter, SetState, SwitchSet, SwitchSetLevel, Setter
<1>6. IsSetter("plug", "on", {"on"}, {}, AnyMode, "plug", {}, TRUE)
  BY DEF IsSetter, SetState, PlugSet, PlugSetOn, Setter
<1>7. IsSetter("panel", "on", {"on"}, {}, AnyMode, "panel", {}, TRUE)
  BY DEF IsSetter, SetState, PanelSet, PanelSetOn, Setter
<1>8. IsSetter("panel", "level", {"level"}, {}, AnyMode, "switch", {"command"}, TRUE)
  BY DEF IsSetter, SetState, PanelSet, PanelSetLevel, Setter
<1> QED BY <1>1, <1>2, <1>3, <1>4, <1>5, <1>6, <1>7, <1>8

LEMMA ActuatorSetters ==
    /\ IsSetter("bin_ctrl", "on", {"on"}, {}, AnyMode, "bin_ctrl", {}, TRUE)
    /\ IsSetter("level_ctrl", "level", {"level"}, {}, AnyMode, "level_ctrl", {}, TRUE)
    /\ IsSetter("shade", "action", {"action"}, {}, AnyMode, "shade", {}, TRUE)
    /\ IsSetter("warn_dev", "warn_mode", {"warn_mode"}, {"duration"}, AnyMode, "warn_dev", {}, TRUE)
    /\ IsSetter("warn_dev", "duration", {"duration"}, {"warn_mode"}, AnyMode, "warn_dev", {}, TRUE)
    /\ IsSetter("warn_dev", "warn_cfg", WarnFields, {}, AnyMode, "warn_dev", {}, TRUE)
    /\ IsSetter("sonos", "play", {"play"}, {}, AnyMode, "sonos", {"command", "record"}, FALSE)
    /\ IsSetter("sonos", "volume", {"volume"}, {}, AnyMode, "sonos", {"command", "record"}, FALSE)
    /\ IsSetter("sonos", "url_id", {"url_id", "play"}, {}, AnyMode, "sonos", {}, FALSE)
<1>1. IsSetter("bin_ctrl", "on", {"on"}, {}, AnyMode, "bin_ctrl", {}, TRUE)
  BY DEF IsSetter, SetState, BinCtrlSet, BinCtrlSetOn, Setter
<1>2. IsSetter("level_ctrl", "level", {"level"}, {}, AnyMode, "level_ctrl", {}, TRUE)
  BY DEF IsSetter, SetState, LevelCtrlSet, LevelCtrlSetLevel, Setter
<1>3. IsSetter("shade", "action", {"action"}, {}, AnyMode, "shade", {}, TRUE)
  BY DEF IsSetter, SetState, ShadeSet, ShadeSetAction, Setter
<1>4. IsSetter("warn_dev", "warn_mode", {"warn_mode"}, {"duration"}, AnyMode, "warn_dev", {}, TRUE)
  BY DEF IsSetter, SetState, WarnSet, WarnSetMode, Setter
<1>5. IsSetter("warn_dev", "duration", {"duration"}, {"warn_mode"}, AnyMode, "warn_dev", {}, TRUE)
  BY DEF IsSetter, SetState, WarnSet, WarnSetDuration, Setter
<1>6. IsSetter("warn_dev", "warn_cfg", WarnFields, {}, AnyMode, "warn_dev", {}, TRUE)
  BY DEF IsSetter, SetState, WarnSet, WarnSetCfg, Setter
<1>7. /\ IsSetter("sonos", "play", {"play"}, {}, AnyMode, "sonos", {"command", "record"}, FALSE)
      /\ IsSetter("sonos", "volume", {"volume"}, {}, AnyMode, "sonos", {"command", "record"}, FALSE)
  BY DEF IsSetter, SetState, SonosSet, SonosSetPlay, SonosSetVolume, Setter
<1>8. IsSetter("sonos", "url_id", {"url_id", "play"}, {}, AnyMode, "sonos", {}, FALSE)
  BY DEF IsSetter, SetState, SonosSet, SonosSetUrl, Setter
<1> QED BY <1>1, <1>2, <1>3, <1>4, <1>5, <1>6, <1>7, <1>8

\* The fields of a type in a mode.
WorkingIn(t, m) ==
    {f \in Fields(t) :
        /\ t = "switch" /\ m = "on_off" => f # "level"
        /\ t = "switch" /\ m = "level" => f # "on"
        /\ t = "light" /\ f \in {"ct", "xy"} => m = f}

Sensors == {"bin_sensor", "occ_sensor", "temp_sensor", "hum_sensor"}

SetterOK(t, f) ==
    LET s == SetState[t][f]
    IN /\ t \in DevTypes \ Sensors
       /\ s.fields \subseteq Fields(t) /\ s.carries \subseteq Fields(t)
       /\ s.fields \cap s.carries = {}
       /\ f \in s.fields \/ (f = "warn_cfg" /\ s.fields = WarnFields)
       /\ s.charge = t \/ (t = "panel" /\ s.charge = "switch")
       /\ s.queued \in BOOLEAN /\ (s.queued <=> t # "sonos")
       /\ "record" \in s.limits =>
            "command" \in s.limits /\ (t = "sonos" \/ (t = "light" /\ s.fields = {"ct"}))
       /\ "command" \in s.limits /\ "record" \notin s.limits => s.fields = {"level"}
       /\ s.carries # {} => t = "warn_dev"
       /\ \A m \in Modes(t) : m = "none" \/ m \in s.modes =>
            s.fields \cup s.carries \subseteq WorkingIn(t, m)

LEMMA SetterFacts == ASSUME NEW r \in Requests PROVE SetterOK(r[1], r[2])
<1>1. SetterOK("light", "on")
  <2>1. IsSetter("light", "on", {"on"}, {}, AnyMode, "light", {}, TRUE)
    BY LampSetters
  <2> QED BY <2>1, FieldsAre
      DEF SetterOK, IsSetter, DevTypes, Sensors, Modes, WorkingIn, WarnFields
<1>2. SetterOK("light", "bri")
  <2>1. IsSetter("light", "bri", {"bri"}, {}, AnyMode, "light", {}, TRUE)
    BY LampSetters
  <2> QED BY <2>1, FieldsAre
      DEF SetterOK, IsSetter, DevTypes, Sensors, Modes, WorkingIn, WarnFields
<1>3. SetterOK("light", "ct")
  <2>1. IsSetter("light", "ct", {"ct"}, {}, {"ct"}, "light", {"command", "record"}, TRUE)
    BY LampSetters
  <2> QED BY <2>1, FieldsAre
      DEF SetterOK, IsSetter, DevTypes, Sensors, Modes, WorkingIn, WarnFields
<1>4. SetterOK("light", "xy")
  <2>1. IsSetter("light", "xy", {"xy"}, {}, {"xy"}, "light", {}, TRUE)
    BY LampSetters
  <2> QED BY <2>1, FieldsAre
      DEF SetterOK, IsSetter, DevTypes, Sensors, Modes, WorkingIn, WarnFields
<1>5. SetterOK("switch", "on")
  <2>1. IsSetter("switch", "on", {"on"}, {}, {"on_off", "multi"}, "switch", {}, TRUE)
    BY LampSetters
  <2> QED BY <2>1, FieldsAre
      DEF SetterOK, IsSetter, DevTypes, Sensors, Modes, WorkingIn, WarnFields
<1>6. SetterOK("switch", "level")
  <2>1. IsSetter("switch", "level", {"level"}, {}, {"level", "multi"}, "switch", {"command"}, TRUE)
    BY LampSetters
  <2> QED BY <2>1, FieldsAre
      DEF SetterOK, IsSetter, DevTypes, Sensors, Modes, WorkingIn, WarnFields
<1>7. SetterOK("plug", "on")
  <2>1. IsSetter("plug", "on", {"on"}, {}, AnyMode, "plug", {}, TRUE)
    BY LampSetters
  <2> QED BY <2>1, FieldsAre
      DEF SetterOK, IsSetter, DevTypes, Sensors, Modes, WorkingIn, WarnFields
<1>8. SetterOK("panel", "on")
  <2>1. IsSetter("panel", "on", {"on"}, {}, AnyMode, "panel", {}, TRUE)
    BY LampSetters
  <2> QED BY <2>1, FieldsAre
      DEF SetterOK, IsSetter, DevTypes, Sensors, Modes, WorkingIn, WarnFields
<1>9. SetterOK("panel", "level")
  <2>1. IsSetter("panel", "level", {"level"}, {}, AnyMode, "switch", {"command"}, TRUE)
    BY LampSetters
  <2> QED BY <2>1, FieldsAre
      DEF SetterOK, IsSetter, DevTypes, Sensors, Modes, WorkingIn, WarnFields
<1>10. SetterOK("bin_ctrl", "on")
  <2>1. IsSetter("bin_ctrl", "on", {"on"}, {}, AnyMode, "bin_ctrl", {}, TRUE)
    BY ActuatorSetters
  <2> QED BY <2>1, FieldsAre
      DEF SetterOK, IsSetter, DevTypes, Sensors, Modes, WorkingIn, WarnFields
<1>11. SetterOK("level_ctrl", "level")
  <2>1. IsSetter("level_ctrl", "level", {"level"}, {}, AnyMode, "level_ctrl", {}, TRUE)
    BY ActuatorSetters
  <2> QED BY <2>1, FieldsAre
      DEF SetterOK, IsSetter, DevTypes, Sensors, Modes, WorkingIn, WarnFields
<1>12. SetterOK("shade", "action")
  <2>1. IsSetter("shade", "action", {"action"}, {}, AnyMode, "shade", {}, TRUE)
    BY ActuatorSetters
  <2> QED BY <2>1, FieldsAre
      DEF SetterOK, IsSetter, DevTypes, Sensors, Modes, WorkingIn, WarnFields
<1>13. SetterOK("warn_dev", "warn_mode")
  <2>1. IsSetter("warn_dev", "warn_mode", {"warn_mode"}, {"duration"}, AnyMode, "warn_dev", {}, TRUE)
    BY ActuatorSetters
  <2> QED BY <2>1, FieldsAre
      DEF SetterOK, IsSetter, DevTypes, Sensors, Modes, WorkingIn, WarnFields
<1>14. SetterOK("warn_dev", "duration")
  <2>1. IsSetter("warn_dev", "duration", {"duration"}, {"warn_mode"}, AnyMode, "warn_dev", {}, TRUE)
    BY ActuatorSetters
  <2> QED BY <2>1, FieldsAre
      DEF SetterOK, IsSetter, DevTypes, Sensors, Modes, WorkingIn, WarnFields
<1>15. SetterOK("warn_dev", "warn_cfg")
  <2>1. IsSetter("warn_dev", "warn_cfg", WarnFields, {}, AnyMode, "warn_dev", {}, TRUE)
    BY ActuatorSetters
  <2> QED BY <2>1, FieldsAre
      DEF SetterOK, IsSetter, DevTypes, Sensors, Modes, WorkingIn, WarnFields
<1>16. SetterOK("sonos", "play")
  <2>1. IsSetter("sonos", "play", {"play"}, {}, AnyMode, "sonos", {"command", "record"}, FALSE)
    BY ActuatorSetters
  <2> QED BY <2>1, FieldsAre
      DEF SetterOK, IsSetter, DevTypes, Sensors, Modes, WorkingIn, WarnFields
<1>17. SetterOK("sonos", "volume")
  <2>1. IsSetter("sonos", "volume", {"volume"}, {}, AnyMode, "sonos", {"command", "record"}, FALSE)
    BY ActuatorSetters
  <2> QED BY <2>1, FieldsAre
      DEF SetterOK, IsSetter, DevTypes, Sensors, Modes, WorkingIn, WarnFields
<1>18. SetterOK("sonos", "url_id")
  <2>1. IsSetter("sonos", "url_id", {"url_id", "play"}, {}, AnyMode, "sonos", {}, FALSE)
    BY ActuatorSetters
  <2> QED BY <2>1, FieldsAre
      DEF SetterOK, IsSetter, DevTypes, Sensors, Modes, WorkingIn, WarnFields
<1> QED BY RequestsAre, <1>1, <1>2, <1>3, <1>4, <1>5, <1>6, <1>7, <1>8, <1>9, <1>10, <1>11, <1>12, <1>13, <1>14, <1>15, <1>16, <1>17, <1>18

-----------------------------------------------------------------------------
(* Who hears of what. *)

LEMMA ReceiverFacts ==
    ASSUME NEW cluster, NEW ep, NEW t \in Receivers(cluster, ep)
    PROVE  /\ t \in site /\ Endpoint(t) = ep
           /\ cluster \in DOMAIN SearchOrder
           /\ \E i \in DOMAIN SearchOrder[cluster] : t = SearchOrder[cluster][i]
           /\ \A u \in Receivers(cluster, ep) : u = t
<1> DEFINE order == SearchOrder[cluster]
           fits == {i \in DOMAIN order : order[i] \in site /\ Endpoint(order[i]) = ep}
           first == {k \in fits : \A l \in fits : k <= l}
<1>1. cluster \in DOMAIN SearchOrder
  BY DEF Receivers
<1>2. Receivers(cluster, ep) = {order[i] : i \in first}
  BY <1>1 DEF Receivers
<1>3. DOMAIN order \subseteq Nat
  BY <1>1 DEF SearchOrder
<1>4. \A k, l \in first : k = l
  <2> SUFFICES ASSUME NEW k \in first, NEW l \in first PROVE k = l
    OBVIOUS
  <2>1. k <= l /\ l <= k /\ k \in Nat /\ l \in Nat
    BY <1>3
  <2> QED BY <2>1
<1>5. \A k \in first : k \in DOMAIN order /\ order[k] \in site /\ Endpoint(order[k]) = ep
  OBVIOUS
<1> HIDE DEF order, first
<1>6. PICK i \in first : t = order[i]
  BY <1>2
<1>7. \A u \in Receivers(cluster, ep) : u = t
  BY <1>2, <1>4, <1>6
<1> QED BY <1>1, <1>5, <1>6, <1>7 DEF order

LEMMA SearchedTypes ==
    ASSUME NEW cluster \in DOMAIN SearchOrder, NEW i \in DOMAIN SearchOrder[cluster],
           NEW t, t = SearchOrder[cluster][i]
    PROVE  \/ cluster = "power" /\ t \in Sensors
           \/ cluster = "onoff" /\ t \in {"light", "plug", "switch"}
           \/ cluster = "level" /\ t = "switch"
           \/ cluster = "occ" /\ t = "occ_sensor"
           \/ cluster = "bin" /\ t = "bin_sensor"
           \/ cluster = "temp" /\ t = "temp_sensor"
           \/ cluster = "hum" /\ t = "hum_sensor"
<1>1. cluster \in {"power", "onoff", "level", "occ", "bin", "temp", "hum"}
  BY DEF SearchOrder
<1>2. CASE cluster = "power"
  <2>1. SearchOrder[cluster] = <<"occ_sensor", "bin_sensor", "temp_sensor", "hum_sensor">>
    BY <1>2 DEF SearchOrder
  <2> QED BY <1>2, <2>1 DEF Sensors
<1>3. CASE cluster = "onoff"
  <2>1. SearchOrder[cluster] = <<"light", "plug", "switch">>
    BY <1>3 DEF SearchOrder
  <2> QED BY <1>3, <2>1
<1>4. CASE cluster \in {"level", "occ", "bin", "temp", "hum"}
  <2>1. SearchOrder[cluster] \in {<<"switch">>, <<"occ_sensor">>, <<"bin_sensor">>,
                                  <<"temp_sensor">>, <<"hum_sensor">>}
    BY <1>4 DEF SearchOrder
  <2>2. i = 1
    BY <2>1
  <2> QED BY <1>4, <2>2 DEF SearchOrder
<1> QED BY <1>1, <1>2, <1>3, <1>4

LEMMA Endpoints ==
    ASSUME NEW t \in DevTypes, NEW u \in DevTypes, Endpoint(t) = Endpoint(u)
    PROVE  \/ t = u
           \/ t = "temp_sensor" /\ u = "hum_sensor"
           \/ t = "hum_sensor" /\ u = "temp_sensor"
BY DEF Endpoint, DevTypes

LEMMA Clusters ==
    ASSUME NEW t \in DevTypes, NEW f \in Fields(t)
    PROVE  /\ f = "on" => Cluster(t, f) = CASE t = "bin_sensor" -> "bin"
                                            [] t = "occ_sensor" -> "occ"
                                            [] t \notin {"bin_sensor", "occ_sensor"} -> "onoff"
           /\ f \in {"level", "power", "temp", "hum"} => Cluster(t, f) = f
           /\ f \in {"play", "volume"} => Cluster(t, f) = "sonos" /\ t = "sonos"
           /\ f \notin {"on", "level", "power", "temp", "hum", "play", "volume"}
                => Cluster(t, f) = "none"
<1>1. f \in {"play", "volume"} => t = "sonos"
  BY FieldsAre DEF DevTypes
<1> QED BY <1>1 DEF Cluster

\* The event of u is heard by u, or its power by the other of the two sensors.
LEMMA Receiving ==
    ASSUME NEW u \in DevTypes, NEW f \in Fields(u), NEW t \in DevTypes,
           t \in Receivers(Cluster(u, f), Endpoint(u))
    PROVE  /\ t # "sonos" /\ f \in Fields(t) /\ Cluster(t, f) = Cluster(u, f)
           /\ Endpoint(t) = Endpoint(u) /\ f \in DOMAIN UpdateState[t]
           /\ t = u \/ f = "power"
<1> DEFINE cl == Cluster(u, f)
<1>1. /\ Endpoint(t) = Endpoint(u) /\ cl \in DOMAIN SearchOrder
      /\ \E i \in DOMAIN SearchOrder[cl] : t = SearchOrder[cl][i]
  BY ReceiverFacts
<1>2. \/ cl = "power" /\ t \in Sensors
      \/ cl = "onoff" /\ t \in {"light", "plug", "switch"}
      \/ cl = "level" /\ t = "switch"
      \/ cl = "occ" /\ t = "occ_sensor"
      \/ cl = "bin" /\ t = "bin_sensor"
      \/ cl = "temp" /\ t = "temp_sensor"
      \/ cl = "hum" /\ t = "hum_sensor"
  <2> HIDE DEF cl
  <2> QED BY <1>1, SearchedTypes
<1>3. \/ t = u
      \/ t = "temp_sensor" /\ u = "hum_sensor"
      \/ t = "hum_sensor" /\ u = "temp_sensor"
  BY <1>1, Endpoints
<1>4. t # "sonos"
  BY <1>2 DEF Sensors
<1>5. CASE t = u
  <2>1. f \in DOMAIN UpdateState[t]
    <3>1. \/ t \in {"light", "plug"} /\ f = "on"
          \/ t = "switch" /\ f \in {"on", "level"}
          \/ t \in {"bin_sensor", "occ_sensor"} /\ f \in {"on", "power"}
          \/ t = "temp_sensor" /\ f \in {"temp", "power"}
          \/ t = "hum_sensor" /\ f \in {"hum", "power"}
      BY <1>2, <1>5, Clusters, FieldsAre DEF Sensors, DevTypes
    <3>2. CASE t \in {"light", "plug", "switch"}
      BY <3>1, <3>2 DEF UpdateState, LightUpdate, SwitchUpdate, PlugUpdate
    <3>3. /\ DOMAIN UpdateState["bin_sensor"] = {"on", "power"}
          /\ DOMAIN UpdateState["occ_sensor"] = {"on", "power"}
          /\ DOMAIN UpdateState["temp_sensor"] = {"temp", "power"}
          /\ DOMAIN UpdateState["hum_sensor"] = {"hum", "power"}
      BY DEF UpdateState, BinSensorUpdate, OccSensorUpdate, TempSensorUpdate, HumSensorUpdate
    <3>4. t \in {"light", "plug", "switch", "bin_sensor", "occ_sensor", "temp_sensor", "hum_sensor"}
      BY <3>1
    <3>5. t \in {"bin_sensor", "occ_sensor"} => f \in DOMAIN UpdateState[t]
      BY <3>1, <3>3
    <3>6. t \in {"temp_sensor", "hum_sensor"} => f \in DOMAIN UpdateState[t]
      BY <3>1, <3>3
    <3> QED BY <3>2, <3>4, <3>5, <3>6
  <2> QED BY <1>4, <1>5, <2>1
<1>6. CASE t # u
  <2>1. /\ u = "hum_sensor" => f \in {"hum", "power"}
        /\ u = "temp_sensor" => f \in {"temp", "power"}
        /\ u \in {"hum_sensor", "temp_sensor"}
    BY <1>3, <1>6, FieldsAre
  <2>2. f = "power" /\ cl = "power"
    <3>1. Cluster(u, f) = f
      BY <2>1, Clusters
    <3> QED BY <1>2, <1>3, <1>6, <2>1, <3>1 DEF Sensors
  <2>3. f \in Fields(t) /\ f \in DOMAIN UpdateState[t]
    BY <1>3, <1>6, <2>2, FieldsAre DEF UpdateState, TempSensorUpdate, HumSensorUpdate
  <2>4. Cluster(t, f) = "power"
    BY <2>2, <2>3, Clusters
  <2> QED BY <1>1, <1>4, <2>2, <2>3, <2>4
<1> QED BY <1>5, <1>6

\* Of what it hears.
LEMMA HeardFields ==
    ASSUME NEW t \in DevTypes, NEW f \in Fields(t), Heard(t, f)
    PROVE  \/ t = "sonos" /\ f \in {"play", "volume"}
           \/ t \in {"light", "plug"} /\ f = "on"
           \/ t = "switch" /\ f \in {"on", "level"}
           \/ t \in {"bin_sensor", "occ_sensor"} /\ f \in {"on", "power"}
           \/ t = "temp_sensor" /\ f \in {"temp", "power"}
           \/ t = "hum_sensor" /\ f \in {"hum", "power"}
<1>1. CASE Cluster(t, f) = "sonos"
  BY <1>1, FieldsAre, Clusters DEF DevTypes
<1>2. CASE t \in Receivers(Cluster(t, f), Endpoint(t))
  <2> DEFINE cl == Cluster(t, f)
  <2>1. \/ cl = "power" /\ t \in Sensors
        \/ cl = "onoff" /\ t \in {"light", "plug", "switch"}
        \/ cl = "level" /\ t = "switch"
        \/ cl = "occ" /\ t = "occ_sensor"
        \/ cl = "bin" /\ t = "bin_sensor"
        \/ cl = "temp" /\ t = "temp_sensor"
        \/ cl = "hum" /\ t = "hum_sensor"
    <3>1. /\ cl \in DOMAIN SearchOrder
          /\ \E i \in DOMAIN SearchOrder[cl] : t = SearchOrder[cl][i]
      BY <1>2, ReceiverFacts
    <3> HIDE DEF cl
    <3> QED BY <3>1, SearchedTypes
  <2> QED BY <2>1, FieldsAre, Clusters DEF DevTypes, Sensors
<1> QED BY <1>1, <1>2 DEF Heard

LEMMA HeardTells ==
    ASSUME NEW t \in DevTypes, Mode(t) \in Modes(t), NEW f \in WorkingIn(t, Mode(t)), Heard(t, f)
    PROVE  Tells(t, f)
<1>1. f \in Fields(t)
  BY DEF WorkingIn
<1>2. \/ t = "sonos" /\ f \in {"play", "volume"}
      \/ t \in {"light", "plug"} /\ f = "on"
      \/ t = "switch" /\ f \in {"on", "level"}
      \/ t \in {"bin_sensor", "occ_sensor"} /\ f \in {"on", "power"}
      \/ t = "temp_sensor" /\ f \in {"temp", "power"}
      \/ t = "hum_sensor" /\ f \in {"hum", "power"}
  BY <1>1, HeardFields
<1>3. CASE t \in {"sonos", "light", "plug"}
  BY <1>1, <1>2, <1>3, Clusters DEF Tells, Bound, PlugBound
<1>4. CASE t = "switch"
  <2>1. Bound(t, Mode(t)) = SwitchBound(Mode(t))
    BY <1>4 DEF Bound
  <2>2. Mode(t) \in {"on_off", "level", "multi"}
    BY <1>4 DEF Modes
  <2>3. f = "on" => Cluster(t, f) = "onoff" /\ Mode(t) # "level"
    BY <1>1, <1>4, Clusters DEF WorkingIn
  <2>4. f = "level" => Cluster(t, f) = "level" /\ Mode(t) # "on_off"
    BY <1>1, <1>4, Clusters DEF WorkingIn
  <2> QED BY <1>2, <1>4, <2>1, <2>2, <2>3, <2>4 DEF Tells, SwitchBound
<1>5. CASE t \in Sensors
  BY <1>1, <1>2, <1>5, Clusters
  DEF Sensors, Tells, Bound, BinSensorBound, OccSensorBound, TempSensorBound, HumSensorBound
<1> QED BY <1>2, <1>3, <1>4, <1>5 DEF Sensors

\* What changes for several is told by each.
LEMMA SharedTold ==
    ASSUME NEW t \in DevTypes, NEW u \in DevTypes, NEW f \in Fields(t), f \in Fields(u),
           Endpoint(u) = Endpoint(t), f = "power" \/ u = t
    PROVE  /\ Cluster(u, f) = Cluster(t, f)
           /\ f = "power" => Tells(u, f)
<1>1. f = "power" => t \in Sensors /\ u \in Sensors /\ Cluster(u, f) = "power" /\ Cluster(t, f) = "power"
  BY FieldsAre, Clusters DEF DevTypes, Sensors
<1>2. f = "power" => Tells(u, f)
  BY <1>1 DEF Sensors, Tells, Bound, BinSensorBound, OccSensorBound, TempSensorBound, HumSensorBound
<1> QED BY <1>1, <1>2

-----------------------------------------------------------------------------
(* What devices do. *)

LEMMA ListOf ==
    ASSUME NEW S, IsFiniteSet(S)
    PROVE  /\ Cardinality(S) \in Nat
           /\ SetToSeq(S) \in [1..Cardinality(S) -> S]
           /\ \A x \in S : \E k \in 1..Cardinality(S) : SetToSeq(S)[k] = x
           /\ \A k, l \in 1..Cardinality(S) : SetToSeq(S)[k] = SetToSeq(S)[l] => k = l
<1> DEFINE n == Cardinality(S)
           q == SetToSeq(S)
<1>1. n \in Nat /\ ExistsBijection(1..n, S)
  BY FS_CardinalityType
<1>2. PICK g : g \in Bijection(1..n, S)
  BY <1>1 DEF ExistsBijection
<1>3. g \in [1..n -> S] /\ IsInjective(g)
  BY <1>2 DEF Bijection, Injection, IsInjective
<1>4. q \in [1..n -> S] /\ IsInjective(q)
  BY <1>3 DEF SetToSeq
<1> HIDE DEF q
<1>5. q \in Injection(1..n, S)
  BY <1>4 DEF Injection, IsInjective
<1>6. Cardinality(1..n) = n
  BY <1>1, FS_Interval
<1>7. q \in Surjection(1..n, S)
  <2>1. (Cardinality(1..n) = Cardinality(S)) <=> q \in Surjection(1..n, S)
    BY <1>5, FS_Injection
  <2> QED BY <2>1, <1>6
<1>8. \A x \in S : \E k \in 1..n : q[k] = x
  BY <1>7 DEF Surjection
<1>9. \A k, l \in 1..n : q[k] = q[l] => k = l
  BY <1>4 DEF IsInjective
<1> QED BY <1>1, <1>4, <1>8, <1>9 DEF q

LEMMA FewFields ==
    ASSUME NEW t \in DevTypes
    PROVE  IsFiniteSet(Fields(t))
<1> DEFINE A == {"on", "bri", "ct", "xy", "level", "action", "warn_mode", "duration", "play",
                 "volume", "url_id", "power", "temp", "hum"}
           E == <<"on", "bri", "ct", "xy", "level", "action", "warn_mode", "duration", "play",
                 "volume", "url_id", "power", "temp", "hum">>
<1>1. E \in Surjection(1..14, A)
  <2>1. E \in [1..14 -> A]
    OBVIOUS
  <2>2. \A x \in A : \E k \in 1..14 : E[k] = x
    <3>1. /\ E[1] = "on" /\ E[2] = "bri" /\ E[3] = "ct" /\ E[4] = "xy" /\ E[5] = "level"
          /\ E[6] = "action" /\ E[7] = "warn_mode" /\ E[8] = "duration" /\ E[9] = "play"
          /\ E[10] = "volume" /\ E[11] = "url_id" /\ E[12] = "power" /\ E[13] = "temp"
          /\ E[14] = "hum"
      OBVIOUS
    <3> HIDE DEF E
    <3> QED BY <3>1
  <2> HIDE DEF A, E
  <2> QED BY <2>1, <2>2 DEF Surjection
<1>2. IsFiniteSet(A)
  <2>1. IsFiniteSet(1..14)
    <3>1. \A n \in Int : IsFiniteSet(1..n)
      BY FS_Interval
    <3>2. 14 \in Int
      OBVIOUS
    <3> QED BY <3>1, <3>2, Zenon
  <2> HIDE DEF A, E
  <2> QED BY <1>1, <2>1, FS_Surjection
<1>3. Fields(t) \subseteq A
  BY FieldsAre DEF DevTypes
<1> HIDE DEF A
<1> QED BY <1>2, <1>3, FS_Subset

LEMMA AtType ==
    ASSUME DevicesOK, NEW t \in site, NEW f \in Fields(t)
    PROVE  At(t, f) \in Values
<1>1. site \subseteq DevTypes
  BY SiteTypes
<1>2. \A u \in site : phys[u] \in [Fields(u) -> Values]
  BY DEF DevicesOK, StatesOf
<1>3. CASE f = "power" /\ Endpoint(t) \in site
  <2>1. t \in Sensors
    BY <1>1, <1>3, FieldsAre DEF DevTypes, Sensors
  <2>2. "power" \in Fields(Endpoint(t))
    BY <2>1, FieldsAre DEF Sensors, Endpoint
  <2>3. phys[Endpoint(t)]["power"] \in Values
    BY <1>2, <1>3, <2>2
  <2> QED BY <1>3, <2>3 DEF At
<1>4. CASE ~(f = "power" /\ Endpoint(t) \in site)
  BY <1>2, <1>4 DEF At
<1> QED BY <1>3, <1>4

\* Those that share a field have the same.
LEMMA AtShared ==
    ASSUME DevicesOK, NEW t \in site, NEW f, NEW u \in Sharing(t, f)
    PROVE  At(u, f) = At(t, f)
<1>1. CASE u = t
  BY <1>1
<1>2. CASE u # t
  <2>1. f = "power" /\ Endpoint(u) = Endpoint(t) /\ u \in site
    BY <1>2 DEF Sharing
  <2>2. CASE Endpoint(t) \in site
    BY <2>1, <2>2 DEF At
  <2>3. CASE Endpoint(t) \notin site
    <3>1. site \subseteq DevTypes
      BY SiteTypes
    <3>2. t = "temp_sensor" \/ u = "temp_sensor"
      BY <1>2, <2>1, <3>1, Endpoints
    <3>3. Endpoint("temp_sensor") = "temp_sensor"
      BY DEF Endpoint
    <3> QED BY <2>1, <2>3, <3>2, <3>3
  <2> QED BY <2>2, <2>3
<1> QED BY <1>1, <1>2

\* The events of a device that becomes vals.
Said(t, vals) ==
    {[cluster |-> Cluster(t, f), ep |-> Endpoint(t), field |-> f, val |-> vals[f]] :
        f \in {g \in DOMAIN vals \cap Fields(t) : vals[g] # At(t, g) /\ Tells(t, g)}}

\* Device t has become vals, and says so in any order.
Became(t, vals) ==
    /\ StatesOf(site, phys')
    /\ \A u \in site : \A f \in Fields(u) :
        At(u, f)' = IF f \in DOMAIN vals \cap Fields(t) /\ u \in Sharing(t, f)
                    THEN vals[f] ELSE At(u, f)
    /\ \E n \in Nat : \E q \in [1..n -> Said(t, vals)] :
        /\ events' = events \o q
        /\ \A e \in Said(t, vals) : \E k \in 1..n : q[k] = e
        /\ \A k, l \in 1..n : q[k] = q[l] => k = l

LEMMA Becomes ==
    ASSUME DevicesOK, site' = site, NEW t \in site, NEW vals,
           \A f \in DOMAIN vals \cap Fields(t) : vals[f] \in Values,
           Become(t, vals)
    PROVE  Became(t, vals)
<1> DEFINE new == {f \in DOMAIN vals \cap Fields(t) : vals[f] # At(t, f)}
           P(u) == [f \in Fields(u) |->
                        IF f \in new /\ u \in Sharing(t, f) THEN vals[f] ELSE phys[u][f]]
<1>1. site \subseteq DevTypes
  BY SiteTypes
<1>2. \A u \in site : phys[u] \in [Fields(u) -> Values]
  BY DEF DevicesOK, StatesOf
<1>3. phys' = [u \in site |-> P(u)]
  BY DEF Become
<1>4. \A u \in site : P(u) \in [Fields(u) -> Values]
  BY <1>2
<1>5. StatesOf(site, phys')
  <2>1. /\ phys' \in [site -> UNION {[Fields(u) -> Values] : u \in site}]
        /\ \A u \in site : phys'[u] \in [Fields(u) -> Values]
    <3> HIDE DEF P
    <3> QED BY <1>3, <1>4
  <2> QED BY <2>1 DEF StatesOf
<1>6. ASSUME NEW u \in site, NEW f \in Fields(u)
      PROVE  At(u, f)' = IF f \in DOMAIN vals \cap Fields(t) /\ u \in Sharing(t, f)
                         THEN vals[f] ELSE At(u, f)
  <2>1. \A w \in site : f \in Fields(w) =>
            phys'[w][f] = IF f \in new /\ w \in Sharing(t, f) THEN vals[f] ELSE phys[w][f]
    <3> HIDE DEF new
    <3> QED BY <1>3
  <2>2. u \in Sharing(t, f) => At(u, f) = At(t, f)
    BY AtShared
  <2>3. CASE f = "power" /\ Endpoint(u) \in site
    <3> DEFINE w == Endpoint(u)
    <3>1. u \in Sensors
      BY <1>1, <2>3, FieldsAre DEF DevTypes, Sensors
    <3>2. "power" \in Fields(w) /\ Endpoint(w) = w
      BY <3>1, FieldsAre DEF Sensors, Endpoint
    <3>3. w \in Sharing(t, f) <=> u \in Sharing(t, f)
      BY <2>3, <3>2 DEF Sharing
    <3>4. At(u, f)' = phys'[w]["power"]
      BY <2>3 DEF At
    <3>5. At(u, f) = phys[w]["power"]
      BY <2>3 DEF At
    <3>6. phys'[w][f] = IF f \in new /\ w \in Sharing(t, f) THEN vals[f] ELSE phys[w][f]
      BY <2>1, <2>3, <3>2
    <3> HIDE DEF w
    <3> QED BY <2>2, <2>3, <3>3, <3>4, <3>5, <3>6
  <2>4. CASE ~(f = "power" /\ Endpoint(u) \in site)
    <3>1. At(u, f)' = phys'[u][f]
      BY <2>4 DEF At
    <3>2. At(u, f) = phys[u][f]
      BY <2>4 DEF At
    <3>3. phys'[u][f] = IF f \in new /\ u \in Sharing(t, f) THEN vals[f] ELSE phys[u][f]
      BY <2>1
    <3> QED BY <2>2, <3>1, <3>2, <3>3
  <2> QED BY <2>3, <2>4
<1>7. \E n \in Nat : \E q \in [1..n -> Said(t, vals)] :
        /\ events' = events \o q
        /\ \A e \in Said(t, vals) : \E k \in 1..n : q[k] = e
        /\ \A k, l \in 1..n : q[k] = q[l] => k = l
  <2> DEFINE told == {g \in DOMAIN vals \cap Fields(t) : vals[g] # At(t, g) /\ Tells(t, g)}
             E == [f \in told |-> [cluster |-> Cluster(t, f), ep |-> Endpoint(t), field |-> f,
                                   val |-> vals[f]]]
  <2>1. Said(t, vals) = {E[f] : f \in told}
    BY DEF Said
  <2>2. IsFiniteSet(told)
    <3>1. IsFiniteSet(Fields(t)) /\ told \in SUBSET Fields(t)
      BY <1>1, FewFields
    <3> HIDE DEF told
    <3> QED BY <3>1, FS_Subset
  <2>3. E \in Surjection(told, Said(t, vals))
    BY <2>1 DEF Surjection
  <2>4. IsFiniteSet(Said(t, vals))
    <3> DEFINE S == Said(t, vals)
    <3>1. E \in Surjection(told, S)
      BY <2>3
    <3> HIDE DEF E, told, S
    <3>2. IsFiniteSet(S)
      BY <2>2, <3>1, FS_Surjection
    <3> QED BY <3>2 DEF S
  <2>5. events' = events \o SetToSeq(Said(t, vals))
    <3>1. {g \in new : Tells(t, g)} = told
      OBVIOUS
    <3>2. events' = events \o SetToSeq({[cluster |-> Cluster(t, f), ep |-> Endpoint(t),
                        field |-> f, val |-> vals[f]] : f \in {g \in new : Tells(t, g)}})
      BY DEF Become
    <3>3. {[cluster |-> Cluster(t, f), ep |-> Endpoint(t), field |-> f, val |-> vals[f]] :
                f \in {g \in new : Tells(t, g)}} = Said(t, vals)
      BY <3>1 DEF Said
    <3> QED BY <3>2, <3>3
  <2> DEFINE S == Said(t, vals)
             q == SetToSeq(S)
             n == Cardinality(S)
  <2>6. IsFiniteSet(S) /\ events' = events \o q
    BY <2>4, <2>5
  <2> HIDE DEF E, told, S
  <2>7. /\ n \in Nat /\ q \in [1..n -> S] /\ \A x \in S : \E k \in 1..n : q[k] = x
        /\ \A k, l \in 1..n : q[k] = q[l] => k = l
    BY <2>6, ListOf
  <2> HIDE DEF q, n
  <2>8. \E m \in Nat : \E p \in [1..m -> S] :
            /\ events' = events \o p /\ \A x \in S : \E k \in 1..m : p[k] = x
            /\ \A k, l \in 1..m : p[k] = p[l] => k = l
    BY <2>6, <2>7
  <2> QED BY <2>8 DEF S
<1> HIDE DEF new, P
<1> QED BY <1>5, <1>6, <1>7 DEF Became

-----------------------------------------------------------------------------
(* Queues. *)

IsSeq(s) == \E S : s \in Seq(S)

LEMMA SeqIndex ==
    ASSUME NEW s, IsSeq(s)
    PROVE  Len(s) \in Nat /\ DOMAIN s = 1..Len(s) /\ (s = <<>> <=> Len(s) = 0)
BY DEF IsSeq

LEMMA TailIs ==
    ASSUME NEW s, IsSeq(s), s # <<>>
    PROVE  /\ IsSeq(Tail(s)) /\ Len(s) \in Nat \ {0} /\ Len(Tail(s)) = Len(s) - 1
           /\ Head(s) = s[1] /\ \A k \in 1..(Len(s) - 1) : Tail(s)[k] = s[k + 1]
<1>1. PICK S : s \in Seq(S)
  BY DEF IsSeq
<1>2. Tail(s) \in Seq(S)
  BY <1>1
<1> QED BY <1>1, <1>2 DEF IsSeq

LEMMA AppendIs ==
    ASSUME NEW s, IsSeq(s), NEW x
    PROVE  /\ IsSeq(Append(s, x)) /\ Len(s) \in Nat /\ Len(Append(s, x)) = Len(s) + 1
           /\ \A k \in 1..Len(s) : Append(s, x)[k] = s[k]
           /\ Append(s, x)[Len(s) + 1] = x
<1>1. PICK S : s \in Seq(S)
  BY DEF IsSeq
<1>2. s \in Seq(S \cup {x})
  BY <1>1
<1>3. Append(s, x) \in Seq(S \cup {x})
  BY <1>2
<1> QED BY <1>2, <1>3 DEF IsSeq

LEMMA JoinIs ==
    ASSUME NEW s, IsSeq(s), NEW n \in Nat, NEW A, NEW q \in [1..n -> A]
    PROVE  /\ IsSeq(s \o q) /\ Len(s) \in Nat /\ Len(s \o q) = Len(s) + n
           /\ \A k \in 1..Len(s) : (s \o q)[k] = s[k]
           /\ \A k \in 1..n : (s \o q)[Len(s) + k] = q[k]
<1>1. PICK S : s \in Seq(S)
  BY DEF IsSeq
<1>2. s \in Seq(S \cup A)
  BY <1>1
<1>3. q \in Seq(S \cup A) /\ Len(q) = n
  OBVIOUS
<1>4. s \o q \in Seq(S \cup A)
  BY <1>2, <1>3
<1> QED BY <1>2, <1>3, <1>4 DEF IsSeq

-----------------------------------------------------------------------------
(* The shape of what is under way. *)

ModeOf == [t \in site |-> Mode(t)]

\* Receivers, and who is heard, among the devices S.
FirstOf(S, cluster, ep) ==
    LET order == SearchOrder[cluster]
        fits == {i \in DOMAIN order : order[i] \in S /\ Endpoint(order[i]) = ep}
    IN IF cluster \in DOMAIN SearchOrder
       THEN {order[i] : i \in {k \in fits : \A l \in fits : k <= l}} ELSE {}
Hears(S, t, f) ==
    Cluster(t, f) = "sonos" \/ t \in FirstOf(S, Cluster(t, f), Endpoint(t))

LEMMA FirstIs == ASSUME NEW cluster, NEW ep PROVE Receivers(cluster, ep) = FirstOf(site, cluster, ep)
BY DEF Receivers, FirstOf

LEMMA HearsIs == ASSUME NEW t, NEW f PROVE Heard(t, f) <=> Hears(site, t, f)
BY FirstIs DEF Heard, Hears

Places == {"queue", "write", "drive", "report"}

\* S are the devices, m their modes.
IsJob(S, m, c, j) ==
    LET s == SetState[j.type][j.field]
    IN /\ DOMAIN j = {"pc", "type", "field", "vals", "carried", "cmd", "report", "late"}
       /\ j.type \in S /\ <<j.type, j.field>> \in Requests
       /\ j.vals \in [s.fields -> Values]
       /\ j.carried = s.carries /\ j.cmd \in [s.carries -> Values]
       /\ j.report \in BOOLEAN /\ j.late \in BOOLEAN
       /\ j.report => c \in Api
       /\ s.fields \cup s.carries \subseteq WorkingIn(j.type, m[j.type])
       /\ j.pc \in Places
       /\ j.pc = "queue" => j.type # "sonos"
       /\ j.pc = "drive" => j.type = "sonos"
       /\ j.pc = "report" => j.report

JobsOK ==
    /\ DOMAIN job = Callers
    /\ \A c \in Callers :
        /\ "pc" \in DOMAIN job[c]
        /\ job[c].pc # "idle" => IsJob(site, ModeOf, c, job[c])

IsCmd(S, m, q) ==
    /\ q.to \in S \cup {"all"}
    /\ q.to \in S =>
        /\ q.to # "sonos" /\ q.to \notin Sensors
        /\ DOMAIN q.vals \subseteq WorkingIn(q.to, m[q.to])
        /\ \A f \in DOMAIN q.vals : q.vals[f] \in Values
        /\ q.charge = q.to \/ (q.to = "panel" /\ q.charge = "switch")

CmdsOK ==
    /\ IsSeq(cmds)
    /\ \A k \in 1..Len(cmds) : IsCmd(site, ModeOf, cmds[k])

IsEvent(S, e) ==
    \E t \in S, v \in Values : \E f \in Fields(t) :
        e = [cluster |-> Cluster(t, f), ep |-> Endpoint(t), field |-> f, val |-> v]

EventsOK ==
    /\ IsSeq(events)
    /\ \A k \in 1..Len(events) : IsEvent(site, events[k])

UpdOK ==
    /\ "pc" \in DOMAIN upd
    /\ upd.pc \in {"idle", "compare", "put", "tell"}
    /\ upd.pc # "idle" =>
        /\ DOMAIN upd = {"pc", "type", "field", "val", "changed"}
        /\ upd.type \in site /\ upd.type # "sonos"
        /\ upd.field \in Fields(upd.type) /\ upd.val \in Values
        /\ upd.type \in FirstOf(site, Cluster(upd.type, upd.field), Endpoint(upd.type))

Shape ==
    /\ DevicesOK /\ JobsOK /\ CmdsOK /\ EventsOK /\ UpdOK
    /\ scan \in site \cup {"none"}

-----------------------------------------------------------------------------
(* What stays as it is. *)

Steady == site' = site /\ ModeOf' = ModeOf

LEMMA KeptMode ==
    ASSUME DevicesOK, site' = site, NEW t \in site, NEW vals, DOMAIN vals \subseteq StateKept(t),
           Written(t, vals)
    PROVE  Steady /\ DOMAIN ram'[t] = DOMAIN ram[t]
<1>1. /\ t \in DevTypes
      /\ DOMAIN ram = site
      /\ DOMAIN ram[t] = OnRecord(t) \cup {"at_err_tick"}
  BY SiteTypes DEF DevicesOK, RecordsOK, RecordOK
<1>2. DOMAIN vals \subseteq DOMAIN ram[t] /\ "colormode" \notin DOMAIN vals
  BY <1>1, KeptFields
<1>3. DOMAIN ram'[t] = DOMAIN ram[t]
  BY <1>2 DEF Written
<1>4. ASSUME NEW u \in site PROVE Mode(u)' = Mode(u)
  <2>1. CASE u = t
    BY <1>2, <1>3, <2>1 DEF Mode, Written
  <2>2. CASE u # t
    BY <1>1, <2>2 DEF Mode, Written
  <2> QED BY <2>1, <2>2
<1> QED BY <1>3, <1>4 DEF Steady, ModeOf

LEMMA SameMode == ASSUME DevicesOK, UNCHANGED <<site, ram>> PROVE Steady
BY DEF Steady, ModeOf, Mode

LEMMA Modal ==
    ASSUME DevicesOK, NEW t \in site
    PROVE  Mode(t) \in Modes(t)
<1>1. t \in DevTypes
  BY SiteTypes
<1>2. DOMAIN ram[t] = OnRecord(t) \cup {"at_err_tick"}
  BY DEF DevicesOK, RecordsOK, RecordOK
<1>3. CASE "colormode" \in OnRecord(t)
  BY <1>2, <1>3 DEF DevicesOK, RecordsOK, RecordOK, Mode
<1>4. CASE "colormode" \notin OnRecord(t)
  <2>1. Mode(t) = "none"
    BY <1>2, <1>4 DEF Mode
  <2>2. t \notin {"light", "switch"}
    BY <1>4, LampRecords DEF OnRecord, LightFields, SwitchFields
  <2> QED BY <2>1, <2>2 DEF Modes
<1> QED BY <1>3, <1>4

LEMMA WorkingIs == ASSUME NEW t PROVE Working(t) = WorkingIn(t, Mode(t))
BY DEF Working, WorkingIn

-----------------------------------------------------------------------------
(* Steps of its parts. *)

LEMMA FieldsPut ==
    ASSUME NEW S, NEW x, FieldsOf(S, x), NEW t \in S, NEW A, A \subseteq Fields(t)
    PROVE  FieldsOf(S, [x EXCEPT ![t] = A])
BY DEF FieldsOf

LEMMA StatesPut ==
    ASSUME NEW S, NEW x, StatesOf(S, x), NEW t \in S, NEW v,
           DOMAIN v \subseteq Fields(t), \A f \in DOMAIN v : v[f] \in Values
    PROVE  StatesOf(S, [x EXCEPT ![t] = Over(v, x[t])])
<1>1. Over(v, x[t]) \in [Fields(t) -> Values]
  <2>1. x[t] \in [Fields(t) -> Values]
    BY DEF StatesOf
  <2> QED BY <2>1 DEF Over
<1> QED BY <1>1 DEF StatesOf

\* A record is written with what its fields may be.
LEMMA RecordStep ==
    ASSUME DevicesOK, site' = site, NEW t \in site, NEW vals, DOMAIN vals \subseteq StateKept(t),
           Written(t, vals),
           UsedOK', used'["tick"] = used["tick"], used'["fails"] >= used["fails"],
           \A f \in DOMAIN vals :
              /\ f = "reachable" => vals[f] \in {0, 1}
              /\ f = "at_err_tick" => vals[f] \in Nat /\ vals[f] <= used'["tick"] + used'["fails"]
              /\ f = "count" => vals[f] \in Nat
              /\ f \in Fields(t) => vals[f] \in Values
    PROVE  RecordsOK' /\ Steady
<1>1. /\ RecordsOK /\ site \subseteq DevTypes /\ t \in DevTypes /\ DOMAIN ram = site
  BY SiteTypes DEF DevicesOK, RecordsOK
<1>2. Steady /\ DOMAIN ram'[t] = DOMAIN ram[t]
  BY KeptMode
<1>3. /\ \A u \in site \ {t} : ram'[u] = ram[u]
      /\ DOMAIN ram' = site /\ file' = file
      /\ \A f \in DOMAIN vals : ram'[t][f] = vals[f]
      /\ \A f \in DOMAIN ram[t] \ DOMAIN vals : ram'[t][f] = ram[t][f]
  BY <1>1 DEF Written
<1>4. used["tick"] \in Int /\ used["fails"] \in Int /\ used'["fails"] \in Int
  BY <1>1, LimitAssumption DEF RecordsOK, UsedOK
<1>5. \A u \in site : RecordOK(u)
  BY <1>1 DEF RecordsOK
<1>6. ASSUME NEW u \in site PROVE RecordOK(u)'
  <2>1. CASE u # t
    <3>1. ram'[u] = ram[u] /\ file'[u] = file[u]
      BY <1>3, <2>1
    <3> QED BY <1>4, <1>5, <3>1 DEF RecordOK
  <2>2. CASE u = t
    <3>1. RecordOK(t)
      BY <1>5
    <3>2. DOMAIN ram[t] = OnRecord(t) \cup {"at_err_tick"}
      BY <3>1 DEF RecordOK
    <3>3. Fields(t) \subseteq DOMAIN ram[t] /\ "reachable" \in DOMAIN ram[t]
          /\ "colormode" \notin DOMAIN vals
      BY <1>1, <3>2, KeptFields
    <3>4. ram'[t]["reachable"] \in {0, 1}
      BY <1>3, <3>1, <3>3 DEF RecordOK
    <3>5. ram'[t]["at_err_tick"] \in Nat /\ ram'[t]["at_err_tick"] <= used'["tick"] + used'["fails"]
      BY <1>3, <1>4, <3>1, <3>2 DEF RecordOK
    <3>6. "colormode" \in OnRecord(t) => ram'[t]["colormode"] \in Modes(t)
      BY <1>3, <3>1, <3>2, <3>3 DEF RecordOK
    <3>7. "count" \in OnRecord(t) => ram'[t]["count"] \in Nat
      BY <1>3, <3>1, <3>2 DEF RecordOK
    <3>8. \A f \in Fields(t) : ram'[t][f] \in Values
      BY <1>3, <3>1, <3>3 DEF RecordOK
    <3>9. file'[t] \in [{"changerpt"} -> {0, 1}]
      BY <1>3, <3>1 DEF RecordOK
    <3> QED BY <1>2, <2>2, <3>2, <3>4, <3>5, <3>6, <3>7, <3>8, <3>9 DEF RecordOK
  <2> QED BY <2>1, <2>2
<1> QED BY <1>1, <1>2, <1>3, <1>6 DEF RecordsOK

LEMMA RecordSame ==
    ASSUME DevicesOK, UNCHANGED <<site, ram, file>>,
           UsedOK', used'["tick"] = used["tick"], used'["fails"] >= used["fails"]
    PROVE  RecordsOK' /\ Steady
<1>1. RecordsOK
  BY DEF DevicesOK
<1>4. used["tick"] \in Int /\ used["fails"] \in Int /\ used'["fails"] \in Int
  BY <1>1, LimitAssumption DEF RecordsOK, UsedOK
<1>6. ASSUME NEW u \in site PROVE RecordOK(u)'
  <2>1. RecordOK(u)
    BY <1>1 DEF RecordsOK
  <2> QED BY <1>4, <2>1 DEF RecordOK
<1> QED BY <1>1, <1>6, SameMode DEF RecordsOK

LEMMA UseSame ==
    ASSUME UsedOK, used' = used
    PROVE  UsedOK' /\ used'["tick"] = used["tick"] /\ used'["fails"] >= used["fails"]
BY LimitAssumption DEF UsedOK

LEMMA UseStep ==
    ASSUME UsedOK, NEW what, "tick" \notin what, Use(what), "fails" \in what => used.fails < MaxFails
    PROVE  /\ UsedOK' /\ used'["tick"] = used["tick"]
           /\ used'["fails"] = IF "fails" \in what THEN used["fails"] + 1 ELSE used["fails"]
           /\ used'["fails"] >= used["fails"]
<1>1. used \in [{"sets", "fails", "inputs", "tick"} -> Nat]
  BY DEF UsedOK
<1>2. used' = [f \in {"sets", "fails", "inputs", "tick"} |->
                    IF f \in what \cup {"inputs"} THEN used[f] + 1 ELSE used[f]]
  BY <1>1 DEF Use
<1>3. used' \in [{"sets", "fails", "inputs", "tick"} -> Nat]
  BY <1>1, <1>2
<1>4. /\ used'["tick"] = used["tick"]
      /\ used'["fails"] = IF "fails" \in what THEN used["fails"] + 1 ELSE used["fails"]
  BY <1>2
<1> QED BY <1>1, <1>3, <1>4, LimitAssumption DEF UsedOK

LEMMA CmdsSame ==
    ASSUME Steady, CmdsOK, cmds' = cmds
    PROVE  CmdsOK'
BY DEF Steady, CmdsOK

LEMMA JobsSame ==
    ASSUME Steady, JobsOK, job' = job
    PROVE  JobsOK'
BY DEF Steady, JobsOK

LEMMA EventsSame ==
    ASSUME site' = site, EventsOK, events' = events
    PROVE  EventsOK'
BY DEF EventsOK

LEMMA UpdSame ==
    ASSUME site' = site, UpdOK, upd' = upd
    PROVE  UpdOK'
BY DEF UpdOK

-----------------------------------------------------------------------------
(* Jobs. *)

\* What c is about to write, and what its command has besides.
Touched(c) == DOMAIN job[c].vals \cup job[c].carried

LEMMA JobIs ==
    ASSUME Shape, NEW c \in Callers, job[c].pc # "idle"
    PROVE  IsJob(site, ModeOf, c, job[c])
BY DEF Shape, JobsOK

LEMMA JobSetter ==
    ASSUME Shape, NEW c \in Callers, job[c].pc # "idle"
    PROVE  /\ SetterOK(job[c].type, job[c].field)
           /\ Setting(c) = SetState[job[c].type][job[c].field]
           /\ job[c].type \in site /\ job[c].type \in DevTypes
           /\ DOMAIN job[c].vals = Setting(c).fields
           /\ job[c].carried = Setting(c).carries
           /\ DOMAIN job[c].cmd = Setting(c).carries
           /\ \A f \in DOMAIN job[c].vals : job[c].vals[f] \in Values
           /\ \A f \in job[c].carried : job[c].cmd[f] \in Values
           /\ Touched(c) \subseteq WorkingIn(job[c].type, ModeOf[job[c].type])
           /\ Touched(c) \subseteq Fields(job[c].type)
           /\ DOMAIN job[c].vals \cap job[c].carried = {}
<1> DEFINE t == job[c].type
           f == job[c].field
           s == SetState[t][f]
<1>1. IsJob(site, ModeOf, c, job[c])
  BY JobIs
<1>2. /\ t \in site /\ <<t, f>> \in Requests
      /\ job[c].vals \in [s.fields -> Values]
      /\ job[c].carried = s.carries /\ job[c].cmd \in [s.carries -> Values]
      /\ s.fields \cup s.carries \subseteq WorkingIn(t, ModeOf[t])
  BY <1>1, Zenon DEF IsJob
<1>3. SetterOK(t, f)
  <2>1. <<t, f>>[1] = t /\ <<t, f>>[2] = f
    OBVIOUS
  <2> HIDE DEF t, f
  <2> QED BY <1>2, <2>1, SetterFacts
<1>4. Setting(c) = s
  BY DEF Setting
<1>5. t \in DevTypes
  BY <1>2, SiteTypes DEF Shape
<1>6. s.fields \cap s.carries = {} /\ s.fields \cup s.carries \subseteq Fields(t)
  BY <1>3, Zenon DEF SetterOK
<1> HIDE DEF t, f, s
<1>7. /\ DOMAIN job[c].vals = s.fields /\ DOMAIN job[c].cmd = s.carries
      /\ \A g \in DOMAIN job[c].vals : job[c].vals[g] \in Values
      /\ \A g \in job[c].carried : job[c].cmd[g] \in Values
  BY <1>2
<1>8. Touched(c) = s.fields \cup s.carries
  BY <1>2, <1>7 DEF Touched
<1> QED BY <1>2, <1>3, <1>4, <1>5, <1>6, <1>7, <1>8, Zenon DEF t, f, s

LEMMA LimitedType == \A v \in Values : Limited(v) \in Values
BY DEF Limited, Values

LEMMA CommandIs ==
    ASSUME Shape, NEW c \in Callers, job[c].pc # "idle"
    PROVE  /\ DOMAIN Command(c) = Touched(c)
           /\ \A f \in Touched(c) : Command(c)[f] \in Values
           /\ \A f \in DOMAIN job[c].vals :
                Command(c)[f] = IF "command" \in Setting(c).limits
                                THEN Limited(job[c].vals[f]) ELSE job[c].vals[f]
           /\ \A f \in job[c].carried : Command(c)[f] = job[c].cmd[f]
<1> DEFINE v == job[c].vals
           V == [g \in DOMAIN v |->
                    IF "command" \in Setting(c).limits THEN Limited(v[g]) ELSE v[g]]
<1>1. Command(c) = Over(V, job[c].cmd)
  BY DEF Command
<1>2. /\ DOMAIN job[c].cmd = job[c].carried /\ DOMAIN v \cap job[c].carried = {}
      /\ \A f \in DOMAIN v : v[f] \in Values
      /\ \A f \in job[c].carried : job[c].cmd[f] \in Values
  BY JobSetter, Zenon
<1>3. /\ DOMAIN V = DOMAIN v
      /\ \A f \in DOMAIN v :
            V[f] = (IF "command" \in Setting(c).limits THEN Limited(v[f]) ELSE v[f])
      /\ \A f \in DOMAIN v : V[f] \in Values
  BY <1>2, LimitedType
<1> HIDE DEF V
<1> QED BY <1>1, <1>2, <1>3 DEF Over, Touched

LEMMA RecordedIs ==
    ASSUME Shape, NEW c \in Callers, job[c].pc # "idle"
    PROVE  /\ DOMAIN Recorded(c) = DOMAIN job[c].vals
           /\ \A f \in DOMAIN job[c].vals : Recorded(c)[f] \in Values
           /\ \A f \in DOMAIN job[c].vals :
                Recorded(c)[f] = IF "record" \in Setting(c).limits
                                 THEN Limited(job[c].vals[f]) ELSE job[c].vals[f]
BY JobSetter, LimitedType DEF Recorded

LEMMA AskedIs ==
    ASSUME Shape, NEW c \in Callers, job[c].pc # "idle"
    PROVE  Asked(c) \subseteq DOMAIN job[c].vals
<1>1. /\ SetterOK(job[c].type, job[c].field)
      /\ Setting(c) = SetState[job[c].type][job[c].field]
      /\ DOMAIN job[c].vals = Setting(c).fields
  BY JobSetter
<1>2. job[c].field \in Setting(c).fields \/ job[c].field = "warn_cfg"
  BY <1>1, Zenon DEF SetterOK
<1> QED BY <1>1, <1>2 DEF Asked

LEMMA JobLate ==
    ASSUME NEW S, NEW m, NEW c, NEW j, IsJob(S, m, c, j)
    PROVE  IsJob(S, m, c, [j EXCEPT !.late = TRUE])
BY DEF IsJob

LEMMA JobMoves ==
    ASSUME NEW S, NEW m, NEW c, NEW j, IsJob(S, m, c, j), NEW p \in Places,
           p = "queue" => j.type # "sonos", p = "drive" => j.type = "sonos",
           p = "report" => j.report
    PROVE  IsJob(S, m, c, [j EXCEPT !.pc = p])
BY DEF IsJob

\* Those who are at one of the fields have been marked late.
Marks(t, fields) ==
    /\ DOMAIN job' = Callers
    /\ \A c \in Callers :
        IF job[c].pc # "idle" /\ job[c].type = t /\ fields \cap Touched(c) # {}
        THEN job'[c] = [job[c] EXCEPT !.late = TRUE]
        ELSE job'[c] = job[c]

LEMMA OvertakenIs ==
    ASSUME NEW t, NEW fields, job' = Overtaken(t, fields)
    PROVE  Marks(t, fields)
BY DEF Overtaken, Marks, Touched

LEMMA MarksOK ==
    ASSUME Steady, JobsOK, NEW t, NEW fields, Marks(t, fields)
    PROVE  JobsOK'
<1>1. ASSUME NEW c \in Callers
      PROVE  "pc" \in DOMAIN job'[c] /\ (job'[c].pc # "idle" => IsJob(site, ModeOf, c, job'[c]))
  <2>1. "pc" \in DOMAIN job[c] /\ (job[c].pc # "idle" => IsJob(site, ModeOf, c, job[c]))
    BY DEF JobsOK
  <2>2. CASE job'[c] = job[c]
    BY <2>1, <2>2
  <2>3. CASE job[c].pc # "idle" /\ job'[c] = [job[c] EXCEPT !.late = TRUE]
    BY <2>1, <2>3, JobLate
  <2> QED BY <2>2, <2>3 DEF Marks
<1>2. DOMAIN job' = Callers
  BY DEF Marks
<1> QED BY <1>1, <1>2 DEF Steady, JobsOK

LEMMA OneJob ==
    ASSUME Steady, JobsOK, NEW c \in Callers, NEW j, job' = [job EXCEPT ![c] = j],
           "pc" \in DOMAIN j, j.pc # "idle" => IsJob(site, ModeOf, c, j)
    PROVE  JobsOK'
<1>1. DOMAIN job' = Callers /\ \A d \in Callers : job'[d] = IF d = c THEN j ELSE job[d]
  BY DEF JobsOK
<1> QED BY <1>1 DEF Steady, JobsOK

-----------------------------------------------------------------------------
(* At first. *)

\* What a device of type t starts with, in mode m.
StartOK(t, m) ==
    LET d == Default(t, m)
        a == Add(t, m)
    IN /\ d["reachable"] \in {0, 1} /\ a.reachable \in {0, 1} /\ a.changerpt \in {0, 1}
       /\ \A f \in Fields(t) : d[f] \in Values
       /\ "colormode" \in OnRecord(t) => d["colormode"] = m
       /\ "count" \in OnRecord(t) => d["count"] = 0 /\ d["on"] = 0

LEMMA Starts ==
    ASSUME NEW t \in DevTypes, NEW m
    PROVE  StartOK(t, m)
<1>1. StartOK("light", m)
  <2>1. Default("light", m) = LightDefault(m)
    BY DEF Default
  <2>2. Add("light", m) = LightAdd(m)
    BY DEF Add
  <2>3. Default("light", "none") = LightDefault("none")
    BY DEF Default
  <2> QED BY <2>1, <2>2, <2>3, FieldsAre DEF StartOK, OnRecord, LightDefault, LightAdd, Adding, Values, LightFields
<1>2. StartOK("switch", m)
  <2>1. Default("switch", m) = SwitchDefault(m)
    BY DEF Default
  <2>2. Add("switch", m) = SwitchAdd(m)
    BY DEF Add
  <2>3. Default("switch", "none") = SwitchDefault("none")
    BY DEF Default
  <2> QED BY <2>1, <2>2, <2>3, FieldsAre DEF StartOK, OnRecord, SwitchDefault, SwitchAdd, Adding, Values, SwitchBound
<1>3. StartOK("plug", m)
  <2>1. Default("plug", m) = PlugDefault(m)
    BY DEF Default
  <2>2. Add("plug", m) = PlugAdd(m)
    BY DEF Add
  <2>3. Default("plug", "none") = PlugDefault("none")
    BY DEF Default
  <2> QED BY <2>1, <2>2, <2>3, FieldsAre DEF StartOK, OnRecord, PlugDefault, PlugAdd, Adding, Values
<1>4. StartOK("panel", m)
  <2>1. Default("panel", m) = PanelDefault(m)
    BY DEF Default
  <2>2. Add("panel", m) = PanelAdd(m)
    BY DEF Add
  <2>3. Default("panel", "none") = PanelDefault("none")
    BY DEF Default
  <2> QED BY <2>1, <2>2, <2>3, FieldsAre DEF StartOK, OnRecord, PanelDefault, PanelAdd, Adding, Values
<1>5. StartOK("shade", m)
  <2>1. Default("shade", m) = ShadeDefault(m)
    BY DEF Default
  <2>2. Add("shade", m) = ShadeAdd(m)
    BY DEF Add
  <2>3. Default("shade", "none") = ShadeDefault("none")
    BY DEF Default
  <2> QED BY <2>1, <2>2, <2>3, FieldsAre DEF StartOK, OnRecord, ShadeDefault, ShadeAdd, Adding, Values
<1>6. StartOK("bin_ctrl", m)
  <2>1. Default("bin_ctrl", m) = BinCtrlDefault(m)
    BY DEF Default
  <2>2. Add("bin_ctrl", m) = BinCtrlAdd(m)
    BY DEF Add
  <2>3. Default("bin_ctrl", "none") = BinCtrlDefault("none")
    BY DEF Default
  <2> QED BY <2>1, <2>2, <2>3, FieldsAre DEF StartOK, OnRecord, BinCtrlDefault, BinCtrlAdd, Adding, Values
<1>7. StartOK("level_ctrl", m)
  <2>1. Default("level_ctrl", m) = LevelCtrlDefault(m)
    BY DEF Default
  <2>2. Add("level_ctrl", m) = LevelCtrlAdd(m)
    BY DEF Add
  <2>3. Default("level_ctrl", "none") = LevelCtrlDefault("none")
    BY DEF Default
  <2> QED BY <2>1, <2>2, <2>3, FieldsAre DEF StartOK, OnRecord, LevelCtrlDefault, LevelCtrlAdd, Adding, Values
<1>8. StartOK("warn_dev", m)
  <2>1. Default("warn_dev", m) = WarnDefault(m)
    BY DEF Default
  <2>2. Add("warn_dev", m) = WarnAdd(m)
    BY DEF Add
  <2>3. Default("warn_dev", "none") = WarnDefault("none")
    BY DEF Default
  <2> QED BY <2>1, <2>2, <2>3, FieldsAre DEF StartOK, OnRecord, WarnDefault, WarnAdd, Adding, Values
<1>9. StartOK("sonos", m)
  <2>1. Default("sonos", m) = SonosDefault(m)
    BY DEF Default
  <2>2. Add("sonos", m) = SonosAdd(m)
    BY DEF Add
  <2>4. SonosAdd(m).reachable = 1 /\ SonosAdd(m).changerpt = 1
    BY DEF SonosAdd, Adding
  <2>3. Default("sonos", "none") = SonosDefault("none")
    BY DEF Default
  <2> QED BY <2>1, <2>2, <2>3, <2>4, FieldsAre DEF StartOK, OnRecord, SonosDefault, Values
<1>10. StartOK("bin_sensor", m)
  <2>1. Default("bin_sensor", m) = BinSensorDefault(m)
    BY DEF Default
  <2>2. Add("bin_sensor", m) = BinSensorAdd(m)
    BY DEF Add
  <2>3. Default("bin_sensor", "none") = BinSensorDefault("none")
    BY DEF Default
  <2> QED BY <2>1, <2>2, <2>3, FieldsAre DEF StartOK, OnRecord, BinSensorDefault, BinSensorAdd, Adding, Values
<1>11. StartOK("occ_sensor", m)
  <2>1. Default("occ_sensor", m) = OccSensorDefault(m)
    BY DEF Default
  <2>2. Add("occ_sensor", m) = OccSensorAdd(m)
    BY DEF Add
  <2>3. Default("occ_sensor", "none") = OccSensorDefault("none")
    BY DEF Default
  <2> QED BY <2>1, <2>2, <2>3, FieldsAre DEF StartOK, OnRecord, OccSensorDefault, OccSensorAdd, Adding, Values
<1>12. StartOK("temp_sensor", m)
  <2>1. Default("temp_sensor", m) = TempSensorDefault(m)
    BY DEF Default
  <2>2. Add("temp_sensor", m) = TempSensorAdd(m)
    BY DEF Add
  <2>3. Default("temp_sensor", "none") = TempSensorDefault("none")
    BY DEF Default
  <2> QED BY <2>1, <2>2, <2>3, FieldsAre DEF StartOK, OnRecord, TempSensorDefault, TempSensorAdd, Adding, Values
<1>13. StartOK("hum_sensor", m)
  <2>1. Default("hum_sensor", m) = HumSensorDefault(m)
    BY DEF Default
  <2>2. Add("hum_sensor", m) = HumSensorAdd(m)
    BY DEF Add
  <2>3. Default("hum_sensor", "none") = HumSensorDefault("none")
    BY DEF Default
  <2> QED BY <2>1, <2>2, <2>3, FieldsAre DEF StartOK, OnRecord, HumSensorDefault, HumSensorAdd, Adding, Values
<1> QED BY <1>1, <1>2, <1>3, <1>4, <1>5, <1>6, <1>7, <1>8, <1>9, <1>10, <1>11, <1>12, <1>13 DEF DevTypes

LEMMA InitShape == Init => Shape
<1> SUFFICES ASSUME Init PROVE Shape
  OBVIOUS
<1>1. PICK m \in Sites, rubbish \in {ScanLimit - 2, ScanLimit - 1} :
        /\ site = DOMAIN m
        /\ ram = [t \in site |->
                    Over([at_err_tick |-> rubbish, reachable |-> Add(t, m[t]).reachable],
                         Default(t, m[t]))]
        /\ file = [t \in site |-> [changerpt |-> Add(t, m[t]).changerpt]]
        /\ used = [sets |-> 0, fails |-> 0, inputs |-> 0, tick |-> rubbish]
  BY DEF Init
<1>2. PICK other \in BOOLEAN :
        phys = [t \in site |-> [f \in Fields(t) |->
                    IF other THEN 1 - Limited(ram[t][f]) ELSE ram[t][f]]]
  BY DEF Init
<1>3. site \subseteq DevTypes /\ \A t \in site : m[t] \in Modes(t)
  BY <1>1, SiteAssumption
<1>4. UsedOK
  BY <1>1, LimitAssumption DEF UsedOK
<1>5. ASSUME NEW t \in site PROVE RecordOK(t)
  <2> DEFINE A == [at_err_tick |-> rubbish, reachable |-> Add(t, m[t]).reachable]
             D == Default(t, m[t])
  <2>1. t \in DevTypes /\ StartOK(t, m[t]) /\ DOMAIN D = OnRecord(t)
    BY <1>3, Starts, RecordFields
  <2>2. ram[t] = Over(A, D)
    BY <1>1
  <2>3. DOMAIN A = {"at_err_tick", "reachable"} /\ A["at_err_tick"] = rubbish
        /\ A["reachable"] = Add(t, m[t]).reachable
    OBVIOUS
  <2>4. /\ "reachable" \in OnRecord(t) /\ Fields(t) \subseteq OnRecord(t)
        /\ "reachable" \notin Fields(t) /\ "at_err_tick" \notin Fields(t)
    BY <2>1, KeptFields
  <2>5. Add(t, m[t]).reachable \in {0, 1} /\ \A f \in Fields(t) : D[f] \in Values
    BY <2>1 DEF StartOK
  <2>6. "colormode" \in OnRecord(t) => D["colormode"] = m[t]
    BY <2>1 DEF StartOK
  <2>7. "count" \in OnRecord(t) => D["count"] = 0
    BY <2>1 DEF StartOK
  <2>8. file[t] \in [{"changerpt"} -> {0, 1}]
    <3>1. Add(t, m[t]).changerpt \in {0, 1}
      BY <2>1 DEF StartOK
    <3> QED BY <1>1, <3>1
  <2>9. used["tick"] = rubbish /\ used["fails"] = 0 /\ rubbish \in Nat
    BY <1>1, LimitAssumption
  <2> HIDE DEF A, D
  <2>10. /\ DOMAIN ram[t] = OnRecord(t) \cup {"at_err_tick"}
         /\ ram[t]["at_err_tick"] = rubbish
         /\ ram[t]["reachable"] = Add(t, m[t]).reachable
         /\ \A f \in OnRecord(t) \ {"at_err_tick", "reachable"} : ram[t][f] = D[f]
    BY <2>1, <2>2, <2>3, <2>4 DEF Over
  <2>11. ram[t]["at_err_tick"] <= used["tick"] + used["fails"]
    BY <2>9, <2>10, LimitAssumption
  <2>12. "colormode" \in OnRecord(t) => ram[t]["colormode"] \in Modes(t)
    BY <1>3, <2>6, <2>10
  <2>13. "count" \in OnRecord(t) => ram[t]["count"] \in Nat
    BY <2>7, <2>10
  <2>14. \A f \in Fields(t) : ram[t][f] \in Values
    BY <2>4, <2>5, <2>10
  <2> QED BY <2>5, <2>8, <2>9, <2>10, <2>11, <2>12, <2>13, <2>14 DEF RecordOK
<1>6. file \in [site -> [{"changerpt"} -> {0, 1}]]
  <2>1. \A t \in site : Add(t, m[t]).changerpt \in {0, 1}
    BY <1>3, Starts DEF StartOK
  <2> QED BY <1>1, <2>1
<1>7. RecordsOK
  BY <1>1, <1>4, <1>5, <1>6 DEF RecordsOK
<1>8. StatesOf(site, phys) /\ StatesOf(site, seen)
  <2>1. \A t \in site : \A f \in Fields(t) : ram[t][f] \in Values
    BY <1>5 DEF RecordOK
  <2>2. \A v \in Values : 1 - Limited(v) \in Values
    BY DEF Values, Limited
  <2> DEFINE P(t) == [f \in Fields(t) |-> IF other THEN 1 - Limited(ram[t][f]) ELSE ram[t][f]]
             Q(t) == [f \in Fields(t) |-> ram[t][f]]
  <2>3. \A t \in site : P(t) \in [Fields(t) -> Values] /\ Q(t) \in [Fields(t) -> Values]
    BY <2>1, <2>2
  <2>4. phys = [t \in site |-> P(t)] /\ seen = [t \in site |-> Q(t)]
    BY <1>2 DEF Init
  <2> HIDE DEF P, Q
  <2> QED BY <2>3, <2>4 DEF StatesOf
<1>9. FieldsOf(site, stray) /\ FieldsOf(site, unseen) /\ FieldsOf(site, hushed)
  <2> DEFINE S(t) == {f \in Fields(t) : phys[t][f] # ram[t][f]}
  <2>1. stray = [t \in site |-> S(t)] /\ \A t \in site : S(t) \in SUBSET Fields(t)
    BY DEF Init
  <2>2. FieldsOf(site, stray)
    <3> HIDE DEF S
    <3> QED BY <2>1 DEF FieldsOf
  <2>3. FieldsOf(site, unseen) /\ FieldsOf(site, hushed)
    <3> DEFINE N(t) == {}
    <3>1. /\ unseen = [t \in site |-> N(t)] /\ hushed = [t \in site |-> N(t)]
          /\ \A t \in site : N(t) \in SUBSET Fields(t)
      BY DEF Init
    <3> HIDE DEF N
    <3> QED BY <3>1 DEF FieldsOf
  <2> QED BY <2>2, <2>3
<1>10. DevicesOK
  <2>1. failed \in [site -> Nat] /\ rises \in [site -> Nat]
    BY DEF Init
  <2> QED BY <1>7, <1>8, <1>9, <2>1 DEF DevicesOK
<1>11. JobsOK
  <2>1. job = [c \in Callers |-> [pc |-> "idle"]]
    BY DEF Init
  <2> QED BY <2>1 DEF JobsOK
<1>12. CmdsOK /\ EventsOK
  <2>1. cmds = <<>> /\ events = <<>>
    BY DEF Init
  <2>4. <<>> \in Seq({})
    OBVIOUS
  <2>2. IsSeq(cmds) /\ IsSeq(events)
    BY <2>1, <2>4 DEF IsSeq
  <2>3. Len(cmds) = 0 /\ Len(events) = 0
    BY <2>1
  <2> QED BY <2>2, <2>3 DEF CmdsOK, EventsOK
<1>13. UpdOK /\ scan = "none"
  BY DEF Init, UpdOK
<1> QED BY <1>10, <1>11, <1>12, <1>13 DEF Shape

-----------------------------------------------------------------------------
(* Steps of callers. *)

\* At the same fields of the same device.
Meets(d, t, fields) == job[d].pc # "idle" /\ job[d].type = t /\ Touched(d) \cap fields # {}

\* c has begun with job j.
Begun(c, j) ==
    /\ DOMAIN job' = Callers /\ job'[c] = j
    /\ \A d \in Callers \ {c} :
        IF Meets(d, j.type, DOMAIN j.vals \cup j.carried)
        THEN job'[d] = [job[d] EXCEPT !.late = TRUE] ELSE job'[d] = job[d]

BeginSays(c, j) ==
    /\ IsJob(site, ModeOf, c, j)
    /\ j.pc = IF j.type = "sonos" THEN "write" ELSE "queue"
    /\ ~j.late => \A d \in Callers \ {c} : ~Meets(d, j.type, DOMAIN j.vals \cup j.carried)
    /\ \A g \in j.carried : j.cmd[g] = ram[j.type][g]

LEMMA BeginJob ==
    ASSUME Shape, NEW c \in Callers, Begin(c)
    PROVE  \E j : BeginSays(c, j) /\ Begun(c, j)
<1>1. PICK r \in {q \in Requests : q[1] \in site} :
        LET t == r[1]
            f == r[2]
            s == SetState[t][f]
            touched == s.fields \cup s.carries
        IN /\ Read(t, "reachable") = 1 /\ (Mode(t) = "none" \/ Mode(t) \in s.modes)
           /\ \E v \in Vals(f), w \in {0, 1} :
                /\ w # 0 => f = "warn_cfg" /\ c \notin Api
                /\ LET met == Meeting(c, t, touched)
                   IN job' = [d \in Callers |->
                        IF d = c
                        THEN [pc |-> IF s.queued THEN "queue" ELSE "write",
                              type |-> t, field |-> f, vals |-> Wanted(c, t, f, v, w),
                              carried |-> s.carries,
                              cmd |-> [g \in s.carries |-> Read(t, g)],
                              report |-> c \in Api /\ Read(t, "changerpt") # 0,
                              late |-> met # {}]
                        ELSE IF d \in met THEN [job[d] EXCEPT !.late = TRUE] ELSE job[d]]
  BY Zenon DEF Begin
<1> DEFINE t == r[1]
           f == r[2]
           s == SetState[t][f]
<1>7. Mode(t) = "none" \/ Mode(t) \in s.modes
  BY <1>1
<1>9. PICK v \in Vals(f), w \in {0, 1} :
        LET met == Meeting(c, t, s.fields \cup s.carries)
        IN job' = [d \in Callers |->
                        IF d = c
                        THEN [pc |-> IF s.queued THEN "queue" ELSE "write",
                              type |-> t, field |-> f, vals |-> Wanted(c, t, f, v, w),
                              carried |-> s.carries,
                              cmd |-> [g \in s.carries |-> Read(t, g)],
                              report |-> c \in Api /\ Read(t, "changerpt") # 0,
                              late |-> met # {}]
                        ELSE IF d \in met THEN [job[d] EXCEPT !.late = TRUE] ELSE job[d]]
  BY <1>1, Zenon
<1>2. t = r[1] /\ f = r[2] /\ s = SetState[t][f]
  OBVIOUS
<1> HIDE DEF t, f, s
<1>4. t \in site /\ r \in Requests /\ r = <<t, f>> /\ t \in DevTypes
  <2>1. r = <<r[1], r[2]>>
    BY DEF Requests
  <2> QED BY <1>2, <2>1, SiteTypes DEF Shape
<1>5. SetterOK(t, f)
  BY <1>2, <1>4, SetterFacts
<1>6. /\ s.fields \subseteq Fields(t) /\ s.carries \subseteq Fields(t)
      /\ s.fields \cap s.carries = {}
      /\ s.queued <=> t # "sonos"
      /\ \A m \in Modes(t) : m = "none" \/ m \in s.modes =>
            s.fields \cup s.carries \subseteq WorkingIn(t, m)
  BY <1>2, <1>5, Zenon DEF SetterOK
<1>8. s.fields \cup s.carries \subseteq WorkingIn(t, ModeOf[t])
  <2>1. Mode(t) \in Modes(t) /\ ModeOf[t] = Mode(t)
    BY <1>4, Modal DEF Shape, ModeOf
  <2> QED BY <1>6, <1>7, <2>1
<1>10. PICK vals : vals = Wanted(c, t, f, v, w)
  OBVIOUS
<1>11. vals \in [s.fields -> Values]
  <2>1. v \in Values
    BY DEF Vals, Values
  <2> QED BY <1>2, <1>10, <2>1 DEF Wanted, Values
<1>12. PICK cmd : cmd = [g \in s.carries |-> ram[t][g]]
  OBVIOUS
<1>13. /\ [g \in s.carries |-> Read(t, g)] = cmd
       /\ cmd \in [s.carries -> Values]
  <2>1. \A g \in s.carries : Read(t, g) = ram[t][g] /\ ram[t][g] \in Values
    <3>1. \A g \in Fields(t) : ram[t][g] \in Values
      BY <1>4 DEF Shape, DevicesOK, RecordsOK, RecordOK
    <3>2. \A g \in Fields(t) : Read(t, g) = ram[t][g]
      BY <1>4, Reads, KeptFields DEF Shape
    <3> QED BY <1>6, <3>1, <3>2
  <2> QED BY <1>12, <2>1
<1>14. PICK met : met = Meeting(c, t, s.fields \cup s.carries)
  OBVIOUS
<1>15. PICK rep \in BOOLEAN : rep = (c \in Api /\ Read(t, "changerpt") # 0)
  OBVIOUS
<1> DEFINE p == IF s.queued THEN "queue" ELSE "write"
           l == met # {}
           j == [pc |-> p, type |-> t, field |-> f, vals |-> vals, carried |-> s.carries,
                 cmd |-> cmd, report |-> rep, late |-> l]
<1>16. job' = [d \in Callers |->
                    IF d = c THEN j
                    ELSE IF d \in met THEN [job[d] EXCEPT !.late = TRUE] ELSE job[d]]
  BY <1>9, <1>10, <1>13, <1>14, <1>15
<1>17. /\ DOMAIN j = {"pc", "type", "field", "vals", "carried", "cmd", "report", "late"}
       /\ j.pc = p /\ j.type = t /\ j.field = f /\ j.vals = vals /\ j.carried = s.carries
       /\ j.cmd = cmd /\ j.report = rep /\ j.late = l /\ l \in BOOLEAN
  OBVIOUS
<1>18. p = IF t = "sonos" THEN "write" ELSE "queue"
  BY <1>6
<1> HIDE DEF j, p, l
<1>19. IsJob(site, ModeOf, c, j)
  BY <1>2, <1>4, <1>8, <1>11, <1>13, <1>15, <1>17, <1>18, Zenon DEF IsJob, Places
<1>20. \A d \in Callers \ {c} : d \in met <=> Meets(d, t, s.fields \cup s.carries)
  BY <1>14 DEF Meeting, Meets, Touched
<1>21. DOMAIN vals = s.fields
  BY <1>11
<1>22. Begun(c, j)
  <2>1. DOMAIN job' = Callers /\ job'[c] = j
    BY <1>16
  <2>2. ASSUME NEW d \in Callers \ {c}
        PROVE  IF Meets(d, j.type, DOMAIN j.vals \cup j.carried)
               THEN job'[d] = [job[d] EXCEPT !.late = TRUE] ELSE job'[d] = job[d]
    <3>1. Meets(d, j.type, DOMAIN j.vals \cup j.carried) <=> d \in met
      BY <1>17, <1>20, <1>21
    <3> QED BY <1>16, <3>1
  <2> QED BY <2>1, <2>2 DEF Begun
<1>23. ~j.late => \A d \in Callers \ {c} : ~Meets(d, j.type, DOMAIN j.vals \cup j.carried)
  BY <1>17, <1>20, <1>21 DEF l
<1>24. \A g \in j.carried : j.cmd[g] = ram[j.type][g]
  BY <1>12, <1>17
<1>25. BeginSays(c, j)
  BY <1>17, <1>18, <1>19, <1>23, <1>24 DEF BeginSays
<1> QED BY <1>22, <1>25

LEMMA BegunOK ==
    ASSUME Steady, JobsOK, NEW c \in Callers, NEW j, IsJob(site, ModeOf, c, j), Begun(c, j)
    PROVE  JobsOK'
<1>1. ASSUME NEW d \in Callers
      PROVE  "pc" \in DOMAIN job'[d] /\ (job'[d].pc # "idle" => IsJob(site, ModeOf, d, job'[d]))
  <2>1. "pc" \in DOMAIN job[d] /\ (job[d].pc # "idle" => IsJob(site, ModeOf, d, job[d]))
    BY DEF JobsOK
  <2>2. CASE d = c
    BY <2>2 DEF Begun, IsJob
  <2>3. CASE d # c /\ job'[d] = job[d]
    BY <2>1, <2>3
  <2>4. CASE d # c /\ Meets(d, j.type, DOMAIN j.vals \cup j.carried)
             /\ job'[d] = [job[d] EXCEPT !.late = TRUE]
    <3>1. IsJob(site, ModeOf, d, job[d])
      BY <2>1, <2>4 DEF Meets
    <3>2. IsJob(site, ModeOf, d, job'[d])
      BY <2>4, <3>1, JobLate
    <3> QED BY <3>2, Zenon DEF IsJob
  <2> QED BY <2>2, <2>3, <2>4 DEF Begun
<1>2. DOMAIN job' = Callers
  BY DEF Begun
<1> QED BY <1>1, <1>2 DEF Steady, JobsOK

LEMMA BeginShape ==
    ASSUME Shape, NEW c \in Callers, Begin(c)
    PROVE  Shape' /\ Steady
<1>1. PICK j : BeginSays(c, j) /\ Begun(c, j)
  BY BeginJob
<1>2. UNCHANGED <<site, ram, file, phys, cmds, scan, events, upd, seen, failed,
                   stray, unseen, hushed, rises>> /\ Use({"sets"})
  BY DEF Begin
<1>3. UsedOK' /\ used'["tick"] = used["tick"] /\ used'["fails"] >= used["fails"]
  <2>1. UsedOK
    BY DEF Shape, DevicesOK, RecordsOK
  <2>2. "tick" \notin {"sets"} /\ "fails" \notin {"sets"}
    OBVIOUS
  <2> QED BY <1>2, <2>1, <2>2, UseStep
<1>4. RecordsOK' /\ Steady
  BY <1>2, <1>3, RecordSame DEF Shape
<1>5. DevicesOK'
  BY <1>2, <1>4 DEF Shape, DevicesOK
<1>6. JobsOK'
  BY <1>1, <1>4, BegunOK DEF Shape, BeginSays
<1>7. CmdsOK' /\ EventsOK' /\ UpdOK'
  BY <1>2, <1>4, CmdsSame, EventsSame, UpdSame DEF Shape
<1> QED BY <1>2, <1>4, <1>5, <1>6, <1>7 DEF Shape

\* c goes on to p, or is done; l is whether it is late.
Continues(c, p, l) ==
    /\ DOMAIN job' = Callers
    /\ \A d \in Callers \ {c} : job'[d] = job[d]
    /\ DOMAIN job'[c] = DOMAIN job[c]
    /\ job'[c].pc = p /\ job'[c].late = l
    /\ job'[c].type = job[c].type /\ job'[c].field = job[c].field
    /\ job'[c].vals = job[c].vals /\ job'[c].carried = job[c].carried
    /\ job'[c].cmd = job[c].cmd /\ job'[c].report = job[c].report

LEMMA ContinuesOK ==
    ASSUME Steady, Shape, NEW c \in Callers, job[c].pc # "idle", NEW p, NEW l \in BOOLEAN,
           Continues(c, p, l), p \in Places \cup {"idle"},
           p = "queue" => job[c].type # "sonos", p = "drive" => job[c].type = "sonos",
           p = "report" => job[c].report
    PROVE  JobsOK'
<1>1. IsJob(site, ModeOf, c, job[c])
  BY JobIs
<1>2. p # "idle" => IsJob(site, ModeOf, c, job'[c])
  BY <1>1, Zenon DEF Continues, IsJob
<1>3. "pc" \in DOMAIN job'[c] /\ job'[c].pc = p
  BY <1>1, Zenon DEF Continues, IsJob
<1>4. ASSUME NEW d \in Callers
      PROVE  "pc" \in DOMAIN job'[d] /\ (job'[d].pc # "idle" => IsJob(site, ModeOf, d, job'[d]))
  <2>1. CASE d = c
    BY <1>2, <1>3, <2>1
  <2>2. CASE d # c
    BY <2>2 DEF Continues, Shape, JobsOK
  <2> QED BY <2>1, <2>2
<1>5. DOMAIN job' = Callers
  BY DEF Continues
<1> QED BY <1>4, <1>5 DEF Steady, JobsOK

\* The record is a job's.
LEMMA PcPut ==
    ASSUME Shape, NEW c \in Callers, job[c].pc # "idle", NEW p,
           job' = [job EXCEPT ![c].pc = p]
    PROVE  Continues(c, p, job[c].late)
<1>1. /\ DOMAIN job[c] = {"pc", "type", "field", "vals", "carried", "cmd", "report", "late"}
      /\ DOMAIN job = Callers
  BY JobIs, Zenon DEF IsJob, Shape, JobsOK
<1>2. job' = [job EXCEPT ![c] = [job[c] EXCEPT !.pc = p]]
  OBVIOUS
<1>3. /\ DOMAIN job' = Callers /\ \A d \in Callers \ {c} : job'[d] = job[d]
      /\ job'[c] = [job[c] EXCEPT !.pc = p]
  BY <1>1, <1>2
<1> QED BY <1>1, <1>3 DEF Continues

\* A command has been queued, or there is none for these values.
Queued(c, q) ==
    /\ q.to = job[c].type /\ q.vals = Command(c)
    /\ q.charge = q.to \/ (q.to = "panel" /\ q.charge = "switch")
    /\ cmds' = Append(cmds, q)

LEMMA QueueJob ==
    ASSUME Shape, NEW c \in Callers, Queue(c)
    PROVE  \/ Continues(c, "write", job[c].late) /\ \E q : Queued(c, q)
           \/ Continues(c, "write", TRUE) /\ cmds' = cmds
<1> DEFINE t == job[c].type
           sent == Range(job[c].vals) \subseteq Setting(c).sent
           q == [to |-> t, charge |-> Setting(c).charge, vals |-> Command(c)]
<1>1. job[c].pc # "idle" /\ IsJob(site, ModeOf, c, job[c])
  BY JobIs DEF Queue
<1>2. /\ DOMAIN job[c] = {"pc", "type", "field", "vals", "carried", "cmd", "report", "late"}
      /\ DOMAIN job = Callers /\ job[c].late \in BOOLEAN
  BY <1>1, Zenon DEF IsJob, Shape, JobsOK
<1>3. /\ cmds' = IF sent THEN Append(cmds, q) ELSE cmds
      /\ job' = [job EXCEPT ![c].pc = "write", ![c].late = @ \/ ~sent]
  BY DEF Queue
<1>4. PICK l \in BOOLEAN : l = (job[c].late \/ ~sent)
  OBVIOUS
<1> HIDE DEF sent
<1>5. job' = [job EXCEPT ![c] = [job[c] EXCEPT !.pc = "write", !.late = l]]
  BY <1>2, <1>3, <1>4
<1>6. /\ DOMAIN job' = Callers /\ \A d \in Callers \ {c} : job'[d] = job[d]
      /\ job'[c] = [job[c] EXCEPT !.pc = "write", !.late = l]
  BY <1>2, <1>5
<1>7. Continues(c, "write", l)
  BY <1>2, <1>6 DEF Continues
<1>8. CASE sent
  <2>1. l = job[c].late
    BY <1>2, <1>4, <1>8
  <2>2. SetterOK(job[c].type, job[c].field) /\ Setting(c) = SetState[t][job[c].field]
    BY <1>1, JobSetter
  <2>3. Setting(c).charge = t \/ (t = "panel" /\ Setting(c).charge = "switch")
    BY <2>2, Zenon DEF SetterOK
  <2>4. Queued(c, q)
    BY <1>3, <1>8, <2>3 DEF Queued
  <2> QED BY <1>7, <2>1, <2>4
<1>9. CASE ~sent
  <2>1. l = TRUE
    BY <1>4, <1>9
  <2>2. cmds' = cmds
    BY <1>3, <1>9
  <2> QED BY <1>7, <2>1, <2>2
<1> QED BY <1>8, <1>9

LEMMA QueuedOK ==
    ASSUME Shape, Steady, NEW c \in Callers, job[c].pc = "queue", NEW q, Queued(c, q)
    PROVE  CmdsOK'
<1>1. IsCmd(site, ModeOf, q)
  <2>1. /\ DOMAIN Command(c) = Touched(c) /\ \A f \in Touched(c) : Command(c)[f] \in Values
    BY CommandIs
  <2>2. /\ job[c].type \in site
        /\ Touched(c) \subseteq WorkingIn(job[c].type, ModeOf[job[c].type])
    BY JobSetter
  <2>3. job[c].type # "sonos" /\ job[c].type \notin Sensors
    BY JobIs, JobSetter, Zenon DEF IsJob, SetterOK
  <2> QED BY <2>1, <2>2, <2>3 DEF IsCmd, Queued
<1>2. IsSeq(cmds) /\ \A k \in 1..Len(cmds) : IsCmd(site, ModeOf, cmds[k])
  BY DEF Shape, CmdsOK
<1>3. PICK s : s = cmds'
  OBVIOUS
<1>4. /\ IsSeq(s) /\ Len(cmds) \in Nat /\ Len(s) = Len(cmds) + 1
      /\ \A k \in 1..Len(cmds) : s[k] = cmds[k]
      /\ s[Len(cmds) + 1] = q
  BY <1>2, <1>3, AppendIs DEF Queued
<1>5. \A k \in 1..Len(s) : IsCmd(site, ModeOf, s[k])
  <2> TAKE k \in 1..Len(s)
  <2>1. k \in 1..Len(cmds) \/ k = Len(cmds) + 1
    BY <1>4
  <2> QED BY <1>1, <1>2, <1>4, <2>1
<1> QED BY <1>3, <1>4, <1>5 DEF CmdsOK, Steady

LEMMA QueueShape ==
    ASSUME Shape, NEW c \in Callers, Queue(c)
    PROVE  Shape' /\ Steady
<1>1. UNCHANGED <<site, ram, file, phys, scan, events, upd, seen, used, failed,
                   stray, unseen, hushed, rises>> /\ job[c].pc = "queue"
  BY DEF Queue
<1>3. UsedOK' /\ used'["tick"] = used["tick"] /\ used'["fails"] >= used["fails"]
  <2>1. UsedOK
    BY DEF Shape, DevicesOK, RecordsOK
  <2> QED BY <1>1, <2>1, UseSame
<1>4. RecordsOK' /\ Steady
  BY <1>1, <1>3, RecordSame DEF Shape
<1>5. DevicesOK'
  BY <1>1, <1>4 DEF Shape, DevicesOK
<1>6. JobsOK' /\ CmdsOK'
  <2>1. CASE Continues(c, "write", job[c].late) /\ \E q : Queued(c, q)
    <3>1. job[c].late \in BOOLEAN
      BY <1>1, JobIs DEF IsJob
    <3> QED BY <1>1, <1>4, <2>1, <3>1, ContinuesOK, QueuedOK DEF Places
  <2>2. CASE Continues(c, "write", TRUE) /\ cmds' = cmds
    BY <1>1, <1>4, <2>2, ContinuesOK, CmdsSame DEF Places, Shape
  <2> QED BY <2>1, <2>2, QueueJob
<1>7. EventsOK' /\ UpdOK'
  BY <1>1, <1>4, EventsSame, UpdSame DEF Shape
<1> QED BY <1>1, <1>4, <1>5, <1>6, <1>7 DEF Shape

\* Some fields of a device's state are written.
LEMMA StateWritten ==
    ASSUME Shape, site' = site, UsedOK', used'["tick"] = used["tick"], used'["fails"] >= used["fails"],
           NEW t \in site, NEW vals, DOMAIN vals \subseteq Fields(t) \cup {"reachable"},
           Write(t, vals),
           \A f \in DOMAIN vals :
              /\ f = "reachable" => vals[f] \in {0, 1}
              /\ f \in Fields(t) => vals[f] \in Values
    PROVE  RecordsOK' /\ Steady /\ Written(t, vals)
<1>1. DevicesOK /\ t \in DevTypes
  BY SiteTypes DEF Shape
<1>2. /\ Fields(t) \subseteq StateKept(t) /\ "reachable" \in StateKept(t)
      /\ "at_err_tick" \notin Fields(t) /\ "count" \notin Fields(t)
  BY <1>1, KeptFields
<1>3. Written(t, vals)
  BY <1>1, <1>2, Writes
<1>5. \A f \in DOMAIN vals :
              /\ f = "reachable" => vals[f] \in {0, 1}
              /\ f = "at_err_tick" => vals[f] \in Nat /\ vals[f] <= used'["tick"] + used'["fails"]
              /\ f = "count" => vals[f] \in Nat
              /\ f \in Fields(t) => vals[f] \in Values
  BY <1>2
<1>6. DOMAIN vals \subseteq StateKept(t)
  BY <1>2
<1> QED BY <1>1, <1>3, <1>5, <1>6, RecordStep

LEMMA WriteRecordJob ==
    ASSUME Shape, NEW c \in Callers, WriteRecord(c)
    PROVE  /\ job[c].type \in site /\ Written(job[c].type, Recorded(c))
           /\ RecordsOK' /\ Steady
           /\ \E p \in {"idle", "drive", "report"} :
                /\ Continues(c, p, job[c].late)
                /\ p = "drive" <=> job[c].type = "sonos"
                /\ p = "idle" <=> job[c].type # "sonos" /\ ~job[c].report
<1> DEFINE t == job[c].type
<1>1. job[c].pc = "write"
  BY DEF WriteRecord
<1>2. /\ t \in site /\ SetterOK(t, job[c].field) /\ Setting(c) = SetState[t][job[c].field]
      /\ DOMAIN job[c].vals \subseteq Fields(t) /\ t \in DevTypes
  BY <1>1, JobSetter DEF Touched
<1>3. DOMAIN Recorded(c) = DOMAIN job[c].vals /\ \A f \in DOMAIN job[c].vals : Recorded(c)[f] \in Values
  BY <1>1, RecordedIs
<1>4. Write(t, Recorded(c)) /\ site' = site /\ used' = used
  BY DEF WriteRecord
<1>5. "reachable" \notin Fields(t)
  BY <1>2, KeptFields
<1>6. RecordsOK' /\ Steady /\ Written(t, Recorded(c))
  <2>1. PICK vals : vals = Recorded(c)
    OBVIOUS
  <2>2. /\ DOMAIN vals \subseteq Fields(t) \cup {"reachable"} /\ Write(t, vals)
        /\ \A f \in DOMAIN vals :
              /\ f = "reachable" => vals[f] \in {0, 1}
              /\ f \in Fields(t) => vals[f] \in Values
    BY <1>2, <1>3, <1>4, <1>5, <2>1
  <2>4. t \in site /\ site' = site /\ UsedOK' /\ used'["tick"] = used["tick"]
        /\ used'["fails"] >= used["fails"]
    <3>1. UsedOK
      BY DEF Shape, DevicesOK, RecordsOK
    <3> QED BY <1>2, <1>4, <3>1, UseSame
  <2> HIDE DEF t
  <2>3. RecordsOK' /\ Steady /\ Written(t, vals)
    BY <2>2, <2>4, StateWritten
  <2> QED BY <2>1, <2>3
<1>7. PICK p : p = IF ~Setting(c).queued THEN "drive" ELSE IF job[c].report THEN "report" ELSE "idle"
  OBVIOUS
<1>8. Setting(c).queued <=> t # "sonos"
  BY <1>2, Zenon DEF SetterOK
<1>9. job' = [job EXCEPT ![c].pc = p]
  BY <1>7 DEF WriteRecord
<1>10. Continues(c, p, job[c].late)
  BY <1>1, <1>9, PcPut
<1> QED BY <1>2, <1>6, <1>7, <1>8, <1>10

LEMMA WriteRecordShape ==
    ASSUME Shape, NEW c \in Callers, WriteRecord(c)
    PROVE  Shape' /\ Steady
<1>1. UNCHANGED <<site, phys, cmds, scan, events, upd, seen, used, failed, rises>>
      /\ job[c].pc = "write"
  BY DEF WriteRecord
<1>2. PICK p \in {"idle", "drive", "report"} :
        /\ Continues(c, p, job[c].late)
        /\ p = "drive" <=> job[c].type = "sonos"
        /\ p = "idle" <=> job[c].type # "sonos" /\ ~job[c].report
  BY WriteRecordJob
<1>3. RecordsOK' /\ Steady /\ job[c].type \in site
  BY WriteRecordJob
<1>4. IsJob(site, ModeOf, c, job[c])
  BY <1>1, JobIs
<1>5. JobsOK'
  <2>1. job[c].late \in BOOLEAN /\ job[c].report \in BOOLEAN
    BY <1>4 DEF IsJob
  <2>2. p = "report" => job[c].report
    BY <1>2, <2>1
  <2> QED BY <1>1, <1>2, <1>3, <2>1, <2>2, ContinuesOK DEF Places
<1>6. FieldsOf(site, stray)' /\ FieldsOf(site, unseen)' /\ FieldsOf(site, hushed)'
  <2> DEFINE t == job[c].type
             fields == DOMAIN job[c].vals
             told == {f \in fields \cap Asked(c) :
                        job[c].report /\ ~job[c].late /\ Recorded(c)[f] = job[c].vals[f]}
  <2>1. fields \subseteq Fields(t) /\ job[c].carried \subseteq Fields(t)
    BY <1>1, JobSetter DEF Touched
  <2>2. FieldsOf(site, stray) /\ FieldsOf(site, unseen) /\ FieldsOf(site, hushed) /\ t \in site
    BY <1>3 DEF Shape, DevicesOK
  <2>3. stray[t] \subseteq Fields(t) /\ unseen[t] \subseteq Fields(t) /\ hushed[t] \subseteq Fields(t)
    BY <2>2 DEF FieldsOf
  <2>4. \E A \in SUBSET Fields(t) : stray' = [stray EXCEPT ![t] = A]
    <3>1. PICK A : A = IF job[c].late THEN stray[t] \cup fields \cup job[c].carried ELSE stray[t] \ fields
      OBVIOUS
    <3>2. A \in SUBSET Fields(t)
      BY <2>1, <2>3, <3>1
    <3>3. stray' = [stray EXCEPT ![t] = A]
      BY <3>1 DEF WriteRecord
    <3> QED BY <3>2, <3>3
  <2>5. (\E A \in SUBSET Fields(t) : unseen' = [unseen EXCEPT ![t] = A])
        /\ (\E A \in SUBSET Fields(t) : hushed' = [hushed EXCEPT ![t] = A])
    <3>1. CASE c \in Api
      <4>1. /\ unseen' = [unseen EXCEPT ![t] = (@ \cup fields) \ told]
            /\ hushed' = [hushed EXCEPT ![t] = @ \ told]
        BY <3>1 DEF WriteRecord
      <4> HIDE DEF told, fields, t
      <4> QED BY <2>1, <2>3, <4>1
    <3>2. CASE c \notin Api
      <4>1. PICK A : A = IF job[c].late \/ Read(t, "changerpt") = 0 THEN unseen[t] \cup fields ELSE unseen[t]
        OBVIOUS
      <4>2. /\ unseen' = [unseen EXCEPT ![t] = A]
            /\ hushed' = [hushed EXCEPT ![t] = @ \cup fields]
        BY <3>2, <4>1 DEF WriteRecord
      <4> HIDE DEF told, fields, t
      <4> QED BY <2>1, <2>3, <4>1, <4>2
    <3> QED BY <3>1, <3>2
  <2>6. FieldsOf(site, stray') /\ FieldsOf(site, unseen') /\ FieldsOf(site, hushed')
    <3> HIDE DEF told, fields, t
    <3>1. FieldsOf(site, stray')
      <4>1. PICK A \in SUBSET Fields(t) : stray' = [stray EXCEPT ![t] = A]
        BY <2>4
      <4>2. FieldsOf(site, [stray EXCEPT ![t] = A])
        BY <2>2, FieldsPut
      <4> QED BY <4>1, <4>2
    <3>2. FieldsOf(site, unseen')
      <4>1. PICK A \in SUBSET Fields(t) : unseen' = [unseen EXCEPT ![t] = A]
        BY <2>5
      <4>2. FieldsOf(site, [unseen EXCEPT ![t] = A])
        BY <2>2, FieldsPut
      <4> QED BY <4>1, <4>2
    <3>3. FieldsOf(site, hushed')
      <4>1. PICK A \in SUBSET Fields(t) : hushed' = [hushed EXCEPT ![t] = A]
        BY <2>5
      <4>2. FieldsOf(site, [hushed EXCEPT ![t] = A])
        BY <2>2, FieldsPut
      <4> QED BY <4>1, <4>2
    <3> QED BY <3>1, <3>2, <3>3
  <2> QED BY <1>1, <2>6
<1>7. DevicesOK'
  BY <1>1, <1>3, <1>6 DEF Shape, DevicesOK
<1>8. CmdsOK' /\ EventsOK' /\ UpdOK'
  BY <1>1, <1>3, CmdsSame, EventsSame, UpdSame DEF Shape
<1> QED BY <1>1, <1>3, <1>5, <1>7, <1>8 DEF Shape

LEMMA DoneOK ==
    ASSUME Steady, JobsOK, NEW c \in Callers, job' = [job EXCEPT ![c] = [pc |-> "idle"]]
    PROVE  JobsOK'
<1>1. PICK j : j = [pc |-> "idle"]
  OBVIOUS
<1>2. "pc" \in DOMAIN j /\ j.pc = "idle"
  BY <1>1
<1>3. job' = [job EXCEPT ![c] = j]
  BY <1>1
<1> QED BY <1>2, <1>3, OneJob

LEMMA ReportShape ==
    ASSUME Shape, NEW c \in Callers, ReportSet(c)
    PROVE  Shape' /\ Steady
<1> DEFINE t == job[c].type
           v == [f \in Asked(c) |-> job[c].vals[f]]
<1>1. UNCHANGED <<site, ram, file, phys, cmds, scan, events, upd, used, failed,
                   stray, hushed, rises>> /\ job[c].pc = "report"
      /\ job' = [job EXCEPT ![c] = [pc |-> "idle"]]
  BY DEF ReportSet
<1>2. Steady /\ RecordsOK'
  <2>1. UsedOK
    BY DEF Shape, DevicesOK, RecordsOK
  <2> QED BY <1>1, <2>1, UseSame, RecordSame DEF Shape
<1>3. /\ Asked(c) \subseteq Fields(t) /\ t \in site
      /\ \A f \in Asked(c) : job[c].vals[f] \in Values
  BY <1>1, JobSetter, AskedIs DEF Touched
<1>4. StatesOf(site, seen')
  <2>1. seen' = [seen EXCEPT ![t] = Over(v, @)] /\ DOMAIN v \subseteq Fields(t)
        /\ \A f \in DOMAIN v : v[f] \in Values
    BY <1>3 DEF ReportSet, Told
  <2>2. StatesOf(site, seen)
    BY DEF Shape, DevicesOK
  <2> HIDE DEF t, v
  <2> QED BY <1>3, <2>1, <2>2, StatesPut
<1>5. FieldsOf(site, unseen')
  <2>1. PICK A : A = IF job[c].late THEN unseen[t] \cup Asked(c) ELSE unseen[t]
    OBVIOUS
  <2>2. unseen' = [unseen EXCEPT ![t] = A]
    BY <2>1 DEF ReportSet
  <2>3. FieldsOf(site, unseen) /\ A \subseteq Fields(t)
    BY <1>3, <2>1 DEF Shape, DevicesOK, FieldsOf
  <2> QED BY <1>3, <2>2, <2>3, FieldsPut
<1>6. DevicesOK'
  BY <1>1, <1>2, <1>4, <1>5 DEF Shape, DevicesOK
<1>7. JobsOK'
  BY <1>1, <1>2, DoneOK DEF Shape
<1>8. CmdsOK' /\ EventsOK' /\ UpdOK'
  BY <1>1, <1>2, CmdsSame, EventsSame, UpdSame DEF Shape
<1> QED BY <1>1, <1>2, <1>6, <1>7, <1>8 DEF Shape

\* Only a changerpt has changed.
Rewritten ==
    /\ DOMAIN ram' = DOMAIN ram
    /\ \A u \in site : DOMAIN ram'[u] = DOMAIN ram[u]
    /\ \A u \in site : \A f \in DOMAIN ram[u] : ram'[u][f] = ram[u][f]

LEMMA SetChangeRptShape ==
    ASSUME Shape, NEW c \in Callers, SetChangeRpt(c)
    PROVE  Shape' /\ Steady /\ Rewritten
<1>1. UNCHANGED <<site, phys, job, cmds, scan, events, upd, seen, failed, stray,
                   unseen, hushed, rises>> /\ Use({})
  BY DEF SetChangeRpt
<1>2. PICK t \in site : Write(t, [changerpt |-> 1 - Read(t, "changerpt")])
  BY DEF SetChangeRpt
<1>3. DevicesOK /\ UsedOK
  BY DEF Shape, DevicesOK, RecordsOK
<1>4. 1 - Read(t, "changerpt") \in {0, 1}
  <2>1. Read(t, "changerpt") = file[t]["changerpt"]
    BY <1>3, Reads
  <2>2. file[t]["changerpt"] \in {0, 1}
    BY <1>3 DEF DevicesOK, RecordsOK
  <2> QED BY <2>1, <2>2
<1>5. Rewritten /\ file' \in [site -> [{"changerpt"} -> {0, 1}]]
  <2>1. PICK v \in {0, 1} : v = 1 - Read(t, "changerpt")
    BY <1>4
  <2>2. Write(t, [changerpt |-> v])
    BY <1>2, <2>1
  <2> QED BY <1>3, <2>2, WritesRpt DEF Rewritten
<1>6. UsedOK' /\ used'["tick"] = used["tick"] /\ used'["fails"] = used["fails"]
  <2>1. "tick" \notin {} /\ "fails" \notin {}
    OBVIOUS
  <2> QED BY <1>1, <1>3, <2>1, UseStep
<1>7. \A u \in site : RecordOK(u)
  BY <1>3 DEF DevicesOK, RecordsOK
<1>8. ASSUME NEW u \in site PROVE RecordOK(u)' /\ Mode(u)' = Mode(u)
  <2>1. RecordOK(u) /\ u \in DevTypes
    BY <1>3, <1>7, SiteTypes
  <2>2. /\ DOMAIN ram[u] = OnRecord(u) \cup {"at_err_tick"}
        /\ Fields(u) \subseteq OnRecord(u) /\ "reachable" \in OnRecord(u)
    BY <2>1, KeptFields DEF RecordOK
  <2>3. DOMAIN ram'[u] = DOMAIN ram[u] /\ \A f \in DOMAIN ram[u] : ram'[u][f] = ram[u][f]
    BY <1>5 DEF Rewritten
  <2>4. file'[u] \in [{"changerpt"} -> {0, 1}]
    BY <1>5
  <2>5. Mode(u)' = Mode(u)
    BY <2>3 DEF Mode
  <2> QED BY <1>6, <2>1, <2>2, <2>3, <2>4, <2>5 DEF RecordOK
<1>9. Steady
  BY <1>1, <1>8 DEF Steady, ModeOf
<1>10. RecordsOK'
  BY <1>1, <1>3, <1>5, <1>6, <1>8 DEF RecordsOK, DevicesOK, Rewritten
<1>11. DevicesOK'
  BY <1>1, <1>3, <1>10 DEF DevicesOK
<1>12. JobsOK' /\ CmdsOK' /\ EventsOK' /\ UpdOK'
  BY <1>1, <1>9, JobsSame, CmdsSame, EventsSame, UpdSame DEF Shape
<1> QED BY <1>1, <1>5, <1>9, <1>11, <1>12 DEF Shape

LEMMA BecameOK ==
    ASSUME Shape, site' = site, NEW t \in site, NEW vals,
           \A f \in DOMAIN vals \cap Fields(t) : vals[f] \in Values,
           Became(t, vals)
    PROVE  EventsOK' /\ StatesOf(site, phys')
<1>0. PICK n \in Nat : \E q \in [1..n -> Said(t, vals)] : events' = events \o q
  BY DEF Became
<1>1. PICK q \in [1..n -> Said(t, vals)] : events' = events \o q
  BY <1>0
<1>2. IsSeq(events) /\ \A k \in 1..Len(events) : IsEvent(site, events[k])
  BY DEF Shape, EventsOK
<1>3. PICK s : s = events'
  OBVIOUS
<1>4. /\ IsSeq(s) /\ Len(events) \in Nat /\ Len(s) = Len(events) + n
      /\ \A k \in 1..Len(events) : s[k] = events[k]
      /\ \A k \in 1..n : s[Len(events) + k] = q[k]
  <2>1. PICK A : A = Said(t, vals)
    OBVIOUS
  <2>2. PICK x : x = events
    OBVIOUS
  <2>3. q \in [1..n -> A] /\ IsSeq(x)
    BY <1>1, <1>2, <2>1, <2>2
  <2>4. /\ IsSeq(x \o q) /\ Len(x) \in Nat /\ Len(x \o q) = Len(x) + n
        /\ \A k \in 1..Len(x) : (x \o q)[k] = x[k]
        /\ \A k \in 1..n : (x \o q)[Len(x) + k] = q[k]
    BY <2>3, JoinIs
  <2>5. s = x \o q
    BY <1>1, <1>3, <2>2
  <2> QED BY <2>2, <2>4, <2>5
<1>5. \A e \in Said(t, vals) : IsEvent(site, e)
  BY DEF Said, IsEvent
<1>6. \A k \in 1..Len(s) : IsEvent(site, s[k])
  <2> TAKE k \in 1..Len(s)
  <2>1. CASE k \in 1..Len(events)
    BY <1>2, <1>4, <2>1
  <2>2. CASE k \notin 1..Len(events)
    <3>1. k - Len(events) \in 1..n /\ k = Len(events) + (k - Len(events))
      BY <1>4, <2>2
    <3>2. s[k] = q[k - Len(events)]
      BY <1>4, <3>1
    <3>3. q[k - Len(events)] \in Said(t, vals)
      BY <1>1, <3>1
    <3> QED BY <1>5, <3>2, <3>3
  <2> QED BY <2>1, <2>2
<1> QED BY <1>3, <1>4, <1>6 DEF EventsOK, Became

\* Whether the player heard or not.
LEMMA DriveJob ==
    ASSUME Shape, NEW c \in Callers, Drive(c)
    PROVE  /\ job[c].type = "sonos" /\ "sonos" \in site /\ UNCHANGED <<site, ram, file>>
           /\ \/ /\ Became("sonos", Command(c)) /\ UNCHANGED <<used, stray>>
              \/ /\ UNCHANGED <<phys, events>> /\ used.fails < MaxFails /\ Use({"fails"})
                 /\ stray' = [stray EXCEPT !["sonos"] = @ \cup DOMAIN job[c].vals]
           /\ \E p \in {"idle", "report"} :
                Continues(c, p, job[c].late) /\ (p = "report" <=> job[c].report)
<1>1. job[c].pc = "drive" /\ site' = site /\ UNCHANGED <<ram, file>>
  BY DEF Drive
<1>2. IsJob(site, ModeOf, c, job[c])
  BY <1>1, JobIs
<1>3. job[c].type = "sonos" /\ job[c].type \in site /\ job[c].report \in BOOLEAN
  BY <1>1, <1>2 DEF IsJob
<1>4. PICK p : p = IF job[c].report THEN "report" ELSE "idle"
  OBVIOUS
<1>5. job' = [job EXCEPT ![c].pc = p]
  BY <1>4 DEF Drive
<1>6. Continues(c, p, job[c].late)
  BY <1>1, <1>5, PcPut
<1>7. \A f \in DOMAIN Command(c) \cap Fields("sonos") : Command(c)[f] \in Values
  BY <1>1, CommandIs
<1>8. CASE Become(job[c].type, Command(c)) /\ UNCHANGED <<used, stray>>
  <2>1. Become("sonos", Command(c)) /\ DevicesOK
    BY <1>3, <1>8 DEF Shape
  <2>2. Became("sonos", Command(c))
    <3>1. PICK vals : vals = Command(c)
      OBVIOUS
    <3>2. Become("sonos", vals) /\ \A f \in DOMAIN vals \cap Fields("sonos") : vals[f] \in Values
      BY <1>7, <2>1, <3>1
    <3>3. "sonos" \in site /\ site' = site
      BY <1>1, <1>3
    <3>4. Became("sonos", vals)
      BY <2>1, <3>2, <3>3, Becomes
    <3> QED BY <3>1, <3>4
  <2> QED BY <1>1, <1>3, <1>4, <1>6, <1>8, <2>2
<1>9. CASE /\ used.fails < MaxFails /\ Use({"fails"})
           /\ stray' = [stray EXCEPT ![job[c].type] = @ \cup DOMAIN job[c].vals]
           /\ UNCHANGED <<phys, events>>
  BY <1>1, <1>3, <1>4, <1>6, <1>9
<1> QED BY <1>8, <1>9 DEF Drive

LEMMA DriveShape ==
    ASSUME Shape, NEW c \in Callers, Drive(c)
    PROVE  Shape' /\ Steady
<1>1. UNCHANGED <<site, ram, file, cmds, scan, upd, seen, failed, unseen, hushed, rises>>
      /\ job[c].pc = "drive"
  BY DEF Drive
<1>2. job[c].type = "sonos" /\ "sonos" \in site
  BY DriveJob
<1>3. PICK p \in {"idle", "report"} : Continues(c, p, job[c].late) /\ (p = "report" <=> job[c].report)
  BY DriveJob
<1>4. Steady
  BY <1>1, SameMode DEF Shape
<1>5. JobsOK'
  <2>1. job[c].late \in BOOLEAN
    BY <1>1, JobIs DEF IsJob
  <2> QED BY <1>1, <1>3, <1>4, <2>1, ContinuesOK DEF Places
<1>6. UsedOK /\ StatesOf(site, phys) /\ FieldsOf(site, stray)
  BY DEF Shape, DevicesOK, RecordsOK
<1>7. /\ UsedOK' /\ used'["tick"] = used["tick"] /\ used'["fails"] >= used["fails"]
      /\ StatesOf(site, phys') /\ FieldsOf(site, stray') /\ EventsOK'
  <2>1. CASE /\ Became("sonos", Command(c)) /\ UNCHANGED <<used, stray>>
    <3>1. PICK vals : vals = Command(c)
      OBVIOUS
    <3>2. \A f \in DOMAIN vals \cap Fields("sonos") : vals[f] \in Values
      BY <1>1, <3>1, CommandIs
    <3>3. EventsOK' /\ StatesOf(site, phys')
      BY <1>1, <1>2, <2>1, <3>1, <3>2, BecameOK
    <3> QED BY <1>6, <2>1, <3>3, UseSame
  <2>2. CASE /\ UNCHANGED <<phys, events>> /\ used.fails < MaxFails /\ Use({"fails"})
             /\ stray' = [stray EXCEPT !["sonos"] = @ \cup DOMAIN job[c].vals]
    <3>1. "tick" \notin {"fails"} /\ "fails" \in {"fails"}
      OBVIOUS
    <3>2. UsedOK' /\ used'["tick"] = used["tick"] /\ used'["fails"] >= used["fails"]
      BY <1>6, <2>2, <3>1, UseStep
    <3>3. EventsOK'
      BY <1>1, <2>2, EventsSame DEF Shape
    <3>4. PICK A : A = stray["sonos"] \cup DOMAIN job[c].vals
      OBVIOUS
    <3>5. A \subseteq Fields("sonos")
      BY <1>1, <1>2, <1>6, <3>4, JobSetter DEF Touched, FieldsOf
    <3>6. FieldsOf(site, [stray EXCEPT !["sonos"] = A])
      BY <1>2, <1>6, <3>5, FieldsPut
    <3> QED BY <1>6, <2>2, <3>2, <3>3, <3>4, <3>6
  <2> QED BY <2>1, <2>2, DriveJob
<1>8. RecordsOK'
  BY <1>1, <1>7, RecordSame DEF Shape
<1>9. DevicesOK'
  BY <1>1, <1>7, <1>8 DEF Shape, DevicesOK
<1>10. CmdsOK' /\ UpdOK'
  BY <1>1, <1>4, CmdsSame, UpdSame DEF Shape
<1> QED BY <1>1, <1>4, <1>5, <1>7, <1>9, <1>10 DEF Shape

-----------------------------------------------------------------------------
(* Steps of the command task. *)

LEMMA HeadCmd ==
    ASSUME Shape, cmds # <<>>
    PROVE  /\ Len(cmds) \in Nat \ {0} /\ Head(cmds) = cmds[1] /\ IsCmd(site, ModeOf, cmds[1])
           /\ "all" \notin site /\ site \subseteq DevTypes
<1>1. IsSeq(cmds) /\ \A k \in 1..Len(cmds) : IsCmd(site, ModeOf, cmds[k])
  BY DEF Shape, CmdsOK
<1>2. Len(cmds) \in Nat \ {0} /\ Head(cmds) = cmds[1]
  BY <1>1, TailIs
<1>3. 1 \in 1..Len(cmds)
  BY <1>2
<1>4. site \subseteq DevTypes
  BY SiteTypes DEF Shape
<1>5. "all" \notin DevTypes
  BY DEF DevTypes
<1> QED BY <1>1, <1>2, <1>3, <1>4, <1>5

LEMMA CmdsTail ==
    ASSUME Shape, Steady, cmds # <<>>, cmds' = Tail(cmds)
    PROVE  CmdsOK'
<1>1. IsSeq(cmds) /\ \A k \in 1..Len(cmds) : IsCmd(site, ModeOf, cmds[k])
  BY DEF Shape, CmdsOK
<1>2. PICK s : s = cmds'
  OBVIOUS
<1>3. /\ IsSeq(s) /\ Len(cmds) \in Nat \ {0} /\ Len(s) = Len(cmds) - 1
      /\ \A k \in 1..(Len(cmds) - 1) : s[k] = cmds[k + 1]
  BY <1>1, <1>2, TailIs
<1>4. \A k \in 1..Len(s) : IsCmd(site, ModeOf, s[k])
  <2> TAKE k \in 1..Len(s)
  <2>1. k + 1 \in 1..Len(cmds) /\ s[k] = cmds[k + 1]
    BY <1>3
  <2> QED BY <1>1, <2>1
<1> QED BY <1>2, <1>3, <1>4 DEF CmdsOK, Steady

LEMMA EventsTail ==
    ASSUME Shape, site' = site, events # <<>>, events' = Tail(events)
    PROVE  EventsOK'
<1>1. IsSeq(events) /\ \A k \in 1..Len(events) : IsEvent(site, events[k])
  BY DEF Shape, EventsOK
<1>2. PICK s : s = events'
  OBVIOUS
<1>3. /\ IsSeq(s) /\ Len(events) \in Nat \ {0} /\ Len(s) = Len(events) - 1
      /\ \A k \in 1..(Len(events) - 1) : s[k] = events[k + 1]
  BY <1>1, <1>2, TailIs
<1>4. \A k \in 1..Len(s) : IsEvent(site, s[k])
  <2> TAKE k \in 1..Len(s)
  <2>1. k + 1 \in 1..Len(events) /\ s[k] = events[k + 1]
    BY <1>3
  <2> QED BY <1>1, <2>1
<1> QED BY <1>2, <1>3, <1>4 DEF EventsOK

\* What a device does when a command is carried out.
LEMMA Obeys ==
    ASSUME Shape, site' = site, cmds # <<>>, NEW q, q = cmds[1], q.to \in site,
           Become(q.to, q.vals)
    PROVE  Became(q.to, q.vals) /\ EventsOK' /\ StatesOf(site, phys')
<1>1. PICK t, vals : t = q.to /\ vals = q.vals
  OBVIOUS
<1>2. t \in site /\ Become(t, vals) /\ \A f \in DOMAIN vals \cap Fields(t) : vals[f] \in Values
  BY <1>1, HeadCmd DEF IsCmd
<1>3. Became(t, vals)
  BY <1>2, Becomes DEF Shape
<1>4. EventsOK' /\ StatesOf(site, phys')
  BY <1>2, <1>3, BecameOK
<1> QED BY <1>1, <1>3, <1>4

LEMMA AnsweredIs ==
    ASSUME Shape, Answered
    PROVE  LET q == cmds[1]
           IN /\ cmds # <<>> /\ cmds' = Tail(cmds)
              /\ \/ q.to \in site /\ Became(q.to, q.vals)
                 \/ q.to \notin site /\ UNCHANGED <<phys, events>>
<1>1. cmds # <<>> /\ cmds' = Tail(cmds) /\ site' = site
      /\ IF Head(cmds).to \in site
         THEN Become(Head(cmds).to, Head(cmds).vals) ELSE UNCHANGED <<phys, events>>
  BY DEF Answered
<1>2. Head(cmds) = cmds[1]
  BY <1>1, HeadCmd
<1>3. PICK q : q = cmds[1]
  OBVIOUS
<1>4. CASE q.to \in site
  <2>1. Become(q.to, q.vals)
    BY <1>1, <1>2, <1>3, <1>4
  <2>2. Became(q.to, q.vals)
    BY <1>1, <1>3, <1>4, <2>1, Obeys
  <2> QED BY <1>1, <1>3, <1>4, <2>2
<1>5. CASE q.to \notin site
  BY <1>1, <1>2, <1>3, <1>5
<1> QED BY <1>4, <1>5

LEMMA AnsweredShape ==
    ASSUME Shape, Answered
    PROVE  Shape' /\ Steady
<1>1. UNCHANGED <<site, ram, file, job, scan, upd, seen, used, failed, stray,
                   unseen, hushed, rises>> /\ cmds # <<>> /\ cmds' = Tail(cmds)
  BY DEF Answered
<1>2. Steady
  BY <1>1, SameMode DEF Shape
<1>3. EventsOK' /\ StatesOf(site, phys')
  <2>1. PICK q : q = cmds[1]
    OBVIOUS
  <2>2. Head(cmds) = q
    BY <1>1, <2>1, HeadCmd
  <2>3. CASE q.to \in site
    <3>1. Become(q.to, q.vals)
      BY <2>2, <2>3 DEF Answered
    <3> QED BY <1>1, <2>1, <2>3, <3>1, Obeys
  <2>4. CASE q.to \notin site
    <3>1. UNCHANGED <<phys, events>>
      BY <2>2, <2>4 DEF Answered
    <3> QED BY <1>1, <3>1, EventsSame DEF Shape, DevicesOK
  <2> QED BY <2>3, <2>4
<1>4. RecordsOK'
  <2>1. UsedOK
    BY DEF Shape, DevicesOK, RecordsOK
  <2> QED BY <1>1, <2>1, UseSame, RecordSame DEF Shape
<1>5. DevicesOK'
  BY <1>1, <1>3, <1>4 DEF Shape, DevicesOK
<1>6. JobsOK' /\ CmdsOK' /\ UpdOK'
  BY <1>1, <1>2, JobsSame, CmdsTail, UpdSame DEF Shape
<1> QED BY <1>1, <1>2, <1>3, <1>5, <1>6 DEF Shape

LEMMA GiveUpShape ==
    ASSUME Shape, GiveUp
    PROVE  /\ Shape' /\ Steady /\ Written(scan, [reachable |-> 0]) /\ scan \in site
           /\ \E q : q.to = "all" /\ cmds' = Append(cmds, q)
<1>1. UNCHANGED <<site, phys, job, events, upd, seen, used, failed, stray, unseen,
                   hushed, rises>> /\ scan \in site /\ scan' = "none"
  BY DEF GiveUp, Shape
<1>2. PICK q : q = [to |-> "all", charge |-> "none", vals |-> <<>>]
  OBVIOUS
<1>3. cmds' = Append(cmds, q) /\ q.to = "all"
  BY <1>2 DEF GiveUp
<1>4. UsedOK' /\ used'["tick"] = used["tick"] /\ used'["fails"] >= used["fails"]
  <2>1. UsedOK
    BY DEF Shape, DevicesOK, RecordsOK
  <2> QED BY <1>1, <2>1, UseSame
<1>5. scan \in DevTypes /\ "reachable" \notin Fields(scan)
  BY <1>1, SiteTypes, KeptFields DEF Shape
<1>6. RecordsOK' /\ Steady /\ Written(scan, [reachable |-> 0])
  <2>1. PICK vals : vals = [reachable |-> 0]
    OBVIOUS
  <2>2. /\ DOMAIN vals = {"reachable"} /\ vals["reachable"] = 0 /\ Write(scan, vals)
    BY <2>1 DEF GiveUp
  <2>3. /\ DOMAIN vals \subseteq Fields(scan) \cup {"reachable"}
        /\ \A f \in DOMAIN vals :
              /\ f = "reachable" => vals[f] \in {0, 1}
              /\ f \in Fields(scan) => vals[f] \in Values
    BY <1>5, <2>2
  <2>4. RecordsOK' /\ Steady /\ Written(scan, vals)
    BY <1>1, <1>4, <2>2, <2>3, StateWritten
  <2> QED BY <2>1, <2>4
<1>7. DevicesOK'
  BY <1>1, <1>6 DEF Shape, DevicesOK
<1>8. CmdsOK'
  <2>1. IsSeq(cmds) /\ \A k \in 1..Len(cmds) : IsCmd(site, ModeOf, cmds[k])
    BY DEF Shape, CmdsOK
  <2>2. PICK s : s = cmds'
    OBVIOUS
  <2>3. /\ IsSeq(s) /\ Len(cmds) \in Nat /\ Len(s) = Len(cmds) + 1
        /\ \A k \in 1..Len(cmds) : s[k] = cmds[k]
        /\ s[Len(cmds) + 1] = q
    BY <1>3, <2>1, <2>2, AppendIs
  <2>4. IsCmd(site, ModeOf, q)
    <3>1. "all" \notin site
      BY SiteTypes DEF Shape, DevTypes
    <3> QED BY <1>3, <3>1 DEF IsCmd
  <2>5. \A k \in 1..Len(s) : IsCmd(site, ModeOf, s[k])
    <3> TAKE k \in 1..Len(s)
    <3>1. k \in 1..Len(cmds) \/ k = Len(cmds) + 1
      BY <2>3
    <3> QED BY <2>1, <2>3, <2>4, <3>1
  <2> QED BY <1>6, <2>2, <2>3, <2>5 DEF CmdsOK, Steady
<1>9. JobsOK' /\ EventsOK' /\ UpdOK'
  BY <1>1, <1>6, JobsSame, EventsSame, UpdSame DEF Shape
<1> QED BY <1>1, <1>3, <1>6, <1>7, <1>8, <1>9 DEF Shape

\* Command q was not answered: whether carried out or not.
Unheeded(q) ==
    \/ Became(q.to, q.vals) /\ UNCHANGED <<stray, job>>
    \/ /\ stray' = [stray EXCEPT ![q.to] = @ \cup DOMAIN q.vals]
       /\ Marks(q.to, DOMAIN q.vals)
       /\ UNCHANGED <<phys, events>>

\* It is charged to t.
Charged(t) ==
    IF t \in site
    THEN LET tick == ram[t]["at_err_tick"] + 1
         IN /\ Written(t, [at_err_tick |-> tick])
            /\ scan' = IF tick >= ScanLimit THEN t ELSE "none"
    ELSE UNCHANGED <<ram, file, scan>>

LEMMA UnansweredIs ==
    ASSUME Shape, Unanswered
    PROVE  /\ cmds # <<>> /\ cmds' = Tail(cmds) /\ cmds[1].to \in site
           /\ UNCHANGED <<site, upd, seen, unseen, hushed, rises>>
           /\ used.fails < MaxFails /\ Use({"fails"}) /\ scan = "none"
           /\ failed' = [failed EXCEPT ![cmds[1].to] = @ + 1]
           /\ Unheeded(cmds[1]) /\ Charged(cmds[1].charge)
<1>1. PICK q : q = cmds[1]
  OBVIOUS
<1>2. cmds # <<>>
  BY DEF Unanswered
<1>3. Head(cmds) = q
  BY <1>1, <1>2, HeadCmd
<1>4. /\ cmds' = Tail(cmds) /\ q.to \in site
      /\ UNCHANGED <<site, upd, seen, unseen, hushed, rises>>
      /\ used.fails < MaxFails /\ Use({"fails"}) /\ scan = "none"
      /\ failed' = [failed EXCEPT ![q.to] = @ + 1]
  BY <1>3 DEF Unanswered
<1>5. Unheeded(q)
  <2>1. CASE Become(q.to, q.vals) /\ UNCHANGED <<stray, job>>
    <3>1. Became(q.to, q.vals)
      BY <1>1, <1>2, <1>4, <2>1, Obeys
    <3> QED BY <2>1, <3>1 DEF Unheeded
  <2>2. CASE /\ stray' = [stray EXCEPT ![q.to] = @ \cup DOMAIN q.vals]
             /\ job' = Overtaken(q.to, DOMAIN q.vals)
             /\ UNCHANGED <<phys, events>>
    BY <2>2, OvertakenIs DEF Unheeded
  <2>3. \/ Become(q.to, q.vals) /\ UNCHANGED <<stray, job>>
        \/ /\ stray' = [stray EXCEPT ![q.to] = @ \cup DOMAIN q.vals]
           /\ job' = Overtaken(q.to, DOMAIN q.vals)
           /\ UNCHANGED <<phys, events>>
    BY <1>3 DEF Unanswered
  <2> QED BY <2>1, <2>2, <2>3
<1>6. Charged(q.charge)
  <2>1. PICK t : t = q.charge
    OBVIOUS
  <2>2. CASE t \notin site
    <3>1. UNCHANGED <<ram, file, scan>>
      BY <1>3, <2>1, <2>2 DEF Unanswered
    <3> QED BY <2>1, <2>2, <3>1 DEF Charged
  <2>3. CASE t \in site
    <3>1. PICK tick : tick = Ticked(Read(t, "at_err_tick"))
      OBVIOUS
    <3>2. Write(t, [at_err_tick |-> tick]) /\ scan' = IF GivenUp(tick) THEN t ELSE "none"
      BY <1>3, <2>1, <2>3, <3>1 DEF Unanswered
    <3>3. t \in DevTypes /\ "at_err_tick" \in StateKept(t)
      BY <2>3, SiteTypes, KeptFields DEF Shape
    <3>4. tick = ram[t]["at_err_tick"] + 1
      BY <2>3, <3>1, <3>3, Reads DEF Shape, Ticked
    <3>5. PICK vals : vals = [at_err_tick |-> tick]
      OBVIOUS
    <3>6. DOMAIN vals \subseteq StateKept(t) /\ Write(t, vals)
      BY <3>2, <3>3, <3>5
    <3>7. Written(t, vals)
      BY <2>3, <3>6, Writes DEF Shape
    <3> QED BY <2>1, <2>3, <3>2, <3>4, <3>5, <3>7 DEF Charged, GivenUp
  <2> QED BY <2>2, <2>3
<1> QED BY <1>1, <1>2, <1>4, <1>5, <1>6

LEMMA UnansweredShape ==
    ASSUME Shape, Unanswered
    PROVE  /\ Shape' /\ Steady
           /\ used'["tick"] = used["tick"] /\ used'["fails"] = used["fails"] + 1
<1>1. PICK q : q = cmds[1]
  OBVIOUS
<1>2. /\ cmds # <<>> /\ cmds' = Tail(cmds) /\ q.to \in site
      /\ UNCHANGED <<site, upd, seen, unseen, hushed, rises>>
      /\ used.fails < MaxFails /\ Use({"fails"}) /\ scan = "none"
      /\ failed' = [failed EXCEPT ![q.to] = @ + 1]
      /\ Unheeded(q) /\ Charged(q.charge)
  BY <1>1, UnansweredIs
<1>3. DevicesOK /\ UsedOK /\ RecordsOK
  BY DEF Shape, DevicesOK, RecordsOK
<1>4. UsedOK' /\ used'["tick"] = used["tick"] /\ used'["fails"] = used["fails"] + 1
      /\ used'["fails"] >= used["fails"]
  <2>1. "tick" \notin {"fails"} /\ "fails" \in {"fails"}
    OBVIOUS
  <2> QED BY <1>2, <1>3, <2>1, UseStep
<1>5. RecordsOK' /\ Steady /\ scan' \in site \cup {"none"}
  <2>1. PICK t : t = q.charge
    OBVIOUS
  <2>2. CASE t \notin site
    BY <1>2, <1>3, <1>4, <2>1, <2>2, RecordSame DEF Charged
  <2>3. CASE t \in site
    <3>1. PICK tick : tick = ram[t]["at_err_tick"] + 1
      OBVIOUS
    <3>2. PICK vals : vals = [at_err_tick |-> tick]
      OBVIOUS
    <3>3. Written(t, vals) /\ scan' = IF tick >= ScanLimit THEN t ELSE "none"
      BY <1>2, <2>1, <2>3, <3>1, <3>2 DEF Charged
    <3>4. DOMAIN vals = {"at_err_tick"} /\ vals["at_err_tick"] = tick
      BY <3>2
    <3>5. t \in DevTypes /\ "at_err_tick" \in StateKept(t) /\ "at_err_tick" \notin Fields(t)
      BY <1>3, <2>3, SiteTypes, KeptFields
    <3>6. tick \in Nat /\ tick <= used'["tick"] + used'["fails"]
      <4>1. RecordOK(t) /\ used["fails"] \in Nat /\ used["tick"] \in Int
        BY <1>3, <2>3, LimitAssumption DEF RecordsOK, UsedOK
      <4> QED BY <1>4, <3>1, <4>1 DEF RecordOK
    <3>7. \A f \in DOMAIN vals :
              /\ f = "reachable" => vals[f] \in {0, 1}
              /\ f = "at_err_tick" => vals[f] \in Nat /\ vals[f] <= used'["tick"] + used'["fails"]
              /\ f = "count" => vals[f] \in Nat
              /\ f \in Fields(t) => vals[f] \in Values
      BY <3>4, <3>5, <3>6
    <3>8. DOMAIN vals \subseteq StateKept(t) /\ site' = site
      BY <1>2, <3>4, <3>5
    <3>9. RecordsOK' /\ Steady
      BY <1>3, <1>4, <2>3, <3>3, <3>7, <3>8, RecordStep
    <3> QED BY <2>3, <3>3, <3>9
  <2> QED BY <2>2, <2>3
<1>6. JobsOK' /\ EventsOK' /\ StatesOf(site, phys') /\ FieldsOf(site, stray')
  <2>1. IsCmd(site, ModeOf, q) /\ StatesOf(site, phys) /\ FieldsOf(site, stray)
    BY <1>1, <1>2, <1>3, HeadCmd DEF DevicesOK
  <2>2. DOMAIN q.vals \subseteq Fields(q.to) /\ \A f \in DOMAIN q.vals : q.vals[f] \in Values
    BY <1>2, <2>1 DEF IsCmd, WorkingIn
  <2>3. CASE Became(q.to, q.vals) /\ UNCHANGED <<stray, job>>
    <3>1. PICK t, vals : t = q.to /\ vals = q.vals
      OBVIOUS
    <3>2. t \in site /\ site' = site /\ Became(t, vals)
          /\ \A f \in DOMAIN vals \cap Fields(t) : vals[f] \in Values
      BY <1>2, <2>2, <2>3, <3>1
    <3>3. EventsOK' /\ StatesOf(site, phys')
      BY <3>2, BecameOK
    <3> QED BY <1>5, <2>1, <2>3, <3>3, JobsSame DEF Shape
  <2>4. CASE /\ stray' = [stray EXCEPT ![q.to] = @ \cup DOMAIN q.vals]
             /\ Marks(q.to, DOMAIN q.vals)
             /\ UNCHANGED <<phys, events>>
    <3>1. JobsOK'
      BY <1>5, <2>4, MarksOK DEF Shape
    <3>2. PICK A : A = stray[q.to] \cup DOMAIN q.vals
      OBVIOUS
    <3>3. A \subseteq Fields(q.to)
      BY <1>2, <2>1, <2>2, <3>2 DEF FieldsOf
    <3>4. FieldsOf(site, [stray EXCEPT ![q.to] = A])
      BY <1>2, <2>1, <3>3, FieldsPut
    <3>5. EventsOK'
      BY <1>2, <2>4, EventsSame DEF Shape
    <3> QED BY <2>1, <2>4, <3>1, <3>2, <3>4, <3>5
  <2> QED BY <1>2, <2>3, <2>4 DEF Unheeded
<1>7. failed' \in [site -> Nat]
  <2>1. failed \in [site -> Nat]
    BY <1>3 DEF DevicesOK
  <2>2. failed[q.to] + 1 \in Nat
    BY <1>2, <2>1
  <2> QED BY <1>2, <2>1, <2>2
<1>8. DevicesOK'
  BY <1>2, <1>3, <1>5, <1>6, <1>7 DEF DevicesOK
<1>9. CmdsOK' /\ UpdOK'
  BY <1>2, <1>5, CmdsTail, UpdSame DEF Shape
<1> QED BY <1>2, <1>4, <1>5, <1>6, <1>8, <1>9 DEF Shape

-----------------------------------------------------------------------------
(* Steps of devices and of the event task. *)

LEMMA SharedField ==
    ASSUME DevicesOK, NEW t \in site, NEW f \in Fields(t), NEW u \in Sharing(t, f)
    PROVE  u \in site /\ f \in Fields(u)
<1>1. t \in DevTypes /\ site \subseteq DevTypes
  BY SiteTypes
<1>2. CASE u = t
  BY <1>2
<1>3. CASE u # t
  <2>1. f = "power" /\ Endpoint(u) = Endpoint(t) /\ u \in site
    BY <1>3 DEF Sharing
  <2>2. u \in {"temp_sensor", "hum_sensor"}
    BY <1>1, <1>3, <2>1, Endpoints
  <2> QED BY <2>1, <2>2, FieldsAre
<1> QED BY <1>2, <1>3

\* Field f of device t becomes v by itself.
Changed(t, f, v) ==
    /\ v # At(t, f) /\ Became(t, [g \in {f} |-> v])
    /\ stray' = [u \in site |->
            IF u \in Sharing(t, f) /\ ~Heard(u, f) THEN stray[u] \cup {f} ELSE stray[u]]
    /\ IF Heard(t, f) THEN job' = job ELSE Marks(t, {f})
    /\ rises' = [rises EXCEPT ![t] =
            IF f = "on" /\ At(t, f) = 0 /\ v # 0 THEN @ + 1 ELSE @]

LEMMA ChangeIs ==
    ASSUME Shape, Change
    PROVE  /\ UNCHANGED <<site, ram, file, cmds, scan, upd, seen, failed, unseen, hushed>>
           /\ Use({})
           /\ \E t \in site : \E f \in WorkingIn(t, ModeOf[t]), v \in {0, 1} : Changed(t, f, v)
<1>1. PICK t \in site : \E f \in Working(t), v \in {0, 1} :
        /\ v # At(t, f)
        /\ Become(t, [g \in {f} |-> v])
        /\ stray' = [u \in site |->
            IF u \in Sharing(t, f) /\ ~Heard(u, f) THEN stray[u] \cup {f} ELSE stray[u]]
        /\ job' = IF Heard(t, f) THEN job ELSE Overtaken(t, {f})
        /\ rises' = [rises EXCEPT ![t] =
            IF f = "on" /\ At(t, f) = 0 /\ v # 0 THEN @ + 1 ELSE @]
  BY DEF Change
<1>2. PICK f \in Working(t), v \in {0, 1} :
        /\ v # At(t, f)
        /\ Become(t, [g \in {f} |-> v])
        /\ stray' = [u \in site |->
            IF u \in Sharing(t, f) /\ ~Heard(u, f) THEN stray[u] \cup {f} ELSE stray[u]]
        /\ job' = IF Heard(t, f) THEN job ELSE Overtaken(t, {f})
        /\ rises' = [rises EXCEPT ![t] =
            IF f = "on" /\ At(t, f) = 0 /\ v # 0 THEN @ + 1 ELSE @]
  BY <1>1
<1>3. UNCHANGED <<site, ram, file, cmds, scan, upd, seen, failed, unseen, hushed>> /\ Use({})
  BY DEF Change
<1>4. f \in WorkingIn(t, ModeOf[t])
  BY WorkingIs DEF ModeOf
<1>5. Became(t, [g \in {f} |-> v])
  <2>1. PICK vals : vals = [g \in {f} |-> v]
    OBVIOUS
  <2>2. \A g \in DOMAIN vals \cap Fields(t) : vals[g] \in Values
    BY <2>1 DEF Values
  <2>3. DevicesOK /\ site' = site /\ Become(t, vals)
    BY <1>2, <1>3, <2>1 DEF Shape
  <2>4. Became(t, vals)
    BY <2>2, <2>3, Becomes
  <2> QED BY <2>1, <2>4
<1>6. IF Heard(t, f) THEN job' = job ELSE Marks(t, {f})
  <2>1. ~Heard(t, f) => job' = Overtaken(t, {f})
    BY <1>2
  <2>2. ~Heard(t, f) => Marks(t, {f})
    BY <2>1, OvertakenIs
  <2> QED BY <1>2, <2>2
<1>7. Changed(t, f, v)
  BY <1>2, <1>5, <1>6 DEF Changed
<1> QED BY <1>3, <1>4, <1>7

LEMMA ChangeShape ==
    ASSUME Shape, Change
    PROVE  Shape' /\ Steady
<1>1. /\ UNCHANGED <<site, ram, file, cmds, scan, upd, seen, failed, unseen, hushed>>
      /\ Use({})
  BY ChangeIs
<1>2. PICK t \in site : \E f \in WorkingIn(t, ModeOf[t]), v \in {0, 1} : Changed(t, f, v)
  BY ChangeIs
<1>3. PICK f \in WorkingIn(t, ModeOf[t]), v \in {0, 1} : Changed(t, f, v)
  BY <1>2
<1>4. DevicesOK /\ UsedOK /\ RecordsOK /\ FieldsOf(site, stray) /\ rises \in [site -> Nat]
  BY DEF Shape, DevicesOK, RecordsOK
<1>5. Steady
  BY <1>1, <1>4, SameMode
<1>6. f \in Fields(t)
  BY DEF WorkingIn
<1>7. EventsOK' /\ StatesOf(site, phys')
  <2>1. PICK vals : vals = [g \in {f} |-> v]
    OBVIOUS
  <2>2. \A g \in DOMAIN vals \cap Fields(t) : vals[g] \in Values
    BY <2>1 DEF Values
  <2>3. Became(t, vals)
    BY <1>3, <2>1 DEF Changed
  <2> QED BY <1>1, <2>2, <2>3, BecameOK
<1>8. UsedOK' /\ used'["tick"] = used["tick"] /\ used'["fails"] >= used["fails"]
  <2>1. "tick" \notin {} /\ "fails" \notin {}
    OBVIOUS
  <2> QED BY <1>1, <1>4, <2>1, UseStep
<1>9. RecordsOK'
  BY <1>1, <1>4, <1>8, RecordSame
<1>10. FieldsOf(site, stray')
  <2> DEFINE A(u) == IF u \in Sharing(t, f) /\ ~Heard(u, f) THEN stray[u] \cup {f} ELSE stray[u]
  <2>1. \A u \in site : A(u) \in SUBSET Fields(u)
    <3> TAKE u \in site
    <3>1. u \in Sharing(t, f) => f \in Fields(u)
      BY <1>4, <1>6, SharedField
    <3>2. stray[u] \subseteq Fields(u)
      BY <1>4 DEF FieldsOf
    <3> QED BY <3>1, <3>2
  <2>2. stray' = [u \in site |-> A(u)]
    BY <1>3 DEF Changed
  <2> HIDE DEF A
  <2> QED BY <2>1, <2>2 DEF FieldsOf
<1>11. rises' \in [site -> Nat]
  <2>1. PICK n : n = IF f = "on" /\ At(t, f) = 0 /\ v # 0 THEN rises[t] + 1 ELSE rises[t]
    OBVIOUS
  <2>2. n \in Nat
    BY <1>4, <2>1
  <2>3. rises' = [rises EXCEPT ![t] = n]
    BY <1>3, <2>1 DEF Changed
  <2> QED BY <1>4, <2>2, <2>3
<1>12. DevicesOK'
  BY <1>1, <1>4, <1>7, <1>9, <1>10, <1>11 DEF DevicesOK
<1>13. JobsOK'
  <2>1. CASE Heard(t, f)
    BY <1>3, <1>5, <2>1, JobsSame DEF Changed, Shape
  <2>2. CASE ~Heard(t, f)
    BY <1>3, <1>5, <2>2, MarksOK DEF Changed, Shape
  <2> QED BY <2>1, <2>2
<1>14. CmdsOK' /\ UpdOK'
  BY <1>1, <1>5, CmdsSame, UpdSame DEF Shape
<1> QED BY <1>1, <1>5, <1>7, <1>12, <1>13, <1>14 DEF Shape

LEMMA HeadEvent ==
    ASSUME Shape, events # <<>>
    PROVE  /\ Len(events) \in Nat \ {0} /\ Head(events) = events[1]
           /\ IsEvent(site, events[1])
<1>1. IsSeq(events) /\ \A k \in 1..Len(events) : IsEvent(site, events[k])
  BY DEF Shape, EventsOK
<1>2. Len(events) \in Nat \ {0} /\ Head(events) = events[1]
  BY <1>1, TailIs
<1>3. 1 \in 1..Len(events)
  BY <1>2
<1> QED BY <1>1, <1>2, <1>3

\* Event e is for t.
LEMMA ReceiverOf ==
    ASSUME Shape, NEW e, IsEvent(site, e), NEW t \in Receiver(e)
    PROVE  /\ t \in site /\ t # "sonos" /\ e.field \in Fields(t) /\ e.val \in Values
           /\ e.cluster = Cluster(t, e.field) /\ e.ep = Endpoint(t)
           /\ e.field \in DOMAIN UpdateState[t] /\ Heard(t, e.field)
           /\ t \in FirstOf(site, Cluster(t, e.field), Endpoint(t))
           /\ Receiver(e) = {t}
<1>1. site \subseteq DevTypes
  BY SiteTypes DEF Shape
<1>2. PICK u \in site, v \in Values : \E f \in Fields(u) :
        e = [cluster |-> Cluster(u, f), ep |-> Endpoint(u), field |-> f, val |-> v]
  BY DEF IsEvent
<1>3. PICK f \in Fields(u) :
        e = [cluster |-> Cluster(u, f), ep |-> Endpoint(u), field |-> f, val |-> v]
  BY <1>2
<1>4. e.cluster = Cluster(u, f) /\ e.ep = Endpoint(u) /\ e.field = f /\ e.val = v
  BY <1>3
<1>5. t \in Receivers(Cluster(u, f), Endpoint(u))
  BY <1>4 DEF Receiver
<1>6. t \in site /\ Endpoint(t) = Endpoint(u) /\ \A w \in Receivers(Cluster(u, f), Endpoint(u)) : w = t
  BY <1>5, ReceiverFacts
<1>7. /\ t # "sonos" /\ f \in Fields(t) /\ Cluster(t, f) = Cluster(u, f)
      /\ f \in DOMAIN UpdateState[t]
  BY <1>1, <1>5, <1>6, Receiving
<1>8. t \in Receivers(Cluster(t, f), Endpoint(t))
  BY <1>5, <1>6, <1>7
<1>9. Heard(t, f) /\ t \in FirstOf(site, Cluster(t, f), Endpoint(t))
  BY <1>8, FirstIs DEF Heard
<1>10. Receiver(e) = {t}
  BY <1>4, <1>5, <1>6 DEF Receiver
<1> QED BY <1>4, <1>6, <1>7, <1>9, <1>10

\* t is looked at, because of event e.
Taken(t, e) ==
    /\ DOMAIN upd' = {"pc", "type", "field", "val", "changed"}
    /\ upd'.pc = "compare" /\ upd'.type = t /\ upd'.field = e.field /\ upd'.val = e.val
    /\ stray' = stray
    /\ \/ UNCHANGED <<ram, file>>
       \/ Written(t, [reachable |-> 1])

\* Event e has been received, and t is who it is for.
Received(t, e) ==
    \/ /\ ~UpdateState[t][e.field].revives
       /\ stray' = [stray EXCEPT ![t] = @ \cup {e.field}]
       /\ UNCHANGED <<ram, file, upd>>
    \/ Taken(t, e)

LEMMA ReceiveIs ==
    ASSUME Shape, Receive
    PROVE  /\ events # <<>> /\ upd.pc = "idle" /\ events' = Tail(events)
           /\ events[1].ep # "sonos" /\ IsEvent(site, events[1])
           /\ UNCHANGED <<site, phys, job, cmds, scan, seen, used, failed, unseen, hushed, rises>>
           /\ \/ Receiver(events[1]) = {} /\ UNCHANGED <<ram, file, upd, stray>>
              \/ \E t \in Receiver(events[1]) : Received(t, events[1])
           /\ RecordsOK' /\ Steady
<1>1. /\ events # <<>> /\ upd.pc = "idle" /\ events' = Tail(events)
      /\ UNCHANGED <<site, phys, job, cmds, scan, seen, used, failed, unseen, hushed, rises>>
  BY DEF Receive
<1>2. PICK e : e = Head(events)
  OBVIOUS
<1>3. e = events[1] /\ IsEvent(site, e)
  BY <1>1, <1>2, HeadEvent
<1>4. /\ e.ep # "sonos"
      /\ \/ Receiver(e) = {} /\ UNCHANGED <<ram, file, upd, stray>>
         \/ \E t \in Receiver(e) :
               LET back == Read(t, "reachable") = 0
               IN IF back /\ ~UpdateState[t][e.field].revives
                  THEN /\ stray' = [stray EXCEPT ![t] = @ \cup {e.field}]
                       /\ UNCHANGED <<ram, file, upd>>
                  ELSE /\ IF back THEN Write(t, [reachable |-> 1])
                          ELSE UNCHANGED <<ram, file>>
                       /\ upd' = [pc |-> "compare", type |-> t, field |-> e.field,
                                  val |-> e.val, changed |-> back]
                       /\ UNCHANGED stray
  BY <1>2 DEF Receive
<1>5. UsedOK' /\ used'["tick"] = used["tick"] /\ used'["fails"] >= used["fails"]
  <2>1. UsedOK
    BY DEF Shape, DevicesOK, RecordsOK
  <2> QED BY <1>1, <2>1, UseSame
<1>6. CASE Receiver(e) = {} /\ UNCHANGED <<ram, file, upd, stray>>
  <2>1. RecordsOK' /\ Steady
    BY <1>1, <1>5, <1>6, RecordSame DEF Shape
  <2> QED BY <1>1, <1>3, <1>4, <1>6, <2>1
<1>7. ASSUME NEW t \in Receiver(e), NEW back \in BOOLEAN, back = (Read(t, "reachable") = 0),
             IF back /\ ~UpdateState[t][e.field].revives
             THEN /\ stray' = [stray EXCEPT ![t] = @ \cup {e.field}]
                  /\ UNCHANGED <<ram, file, upd>>
             ELSE /\ IF back THEN Write(t, [reachable |-> 1])
                     ELSE UNCHANGED <<ram, file>>
                  /\ upd' = [pc |-> "compare", type |-> t, field |-> e.field,
                             val |-> e.val, changed |-> back]
                  /\ UNCHANGED stray
      PROVE  Received(t, e) /\ RecordsOK' /\ Steady
  <2>1. t \in site
    BY <1>3, <1>7, ReceiverOf
  <2>2. CASE back /\ ~UpdateState[t][e.field].revives
    <3>1. RecordsOK' /\ Steady
      BY <1>1, <1>5, <1>7, <2>2, RecordSame DEF Shape
    <3> QED BY <1>7, <2>2, <3>1 DEF Received
  <2>3. CASE ~(back /\ ~UpdateState[t][e.field].revives)
    <3>1. /\ IF back THEN Write(t, [reachable |-> 1]) ELSE UNCHANGED <<ram, file>>
          /\ upd' = [pc |-> "compare", type |-> t, field |-> e.field,
                             val |-> e.val, changed |-> back]
          /\ UNCHANGED stray
      BY <1>7, <2>3
    <3>2. CASE ~back
      <4>1. RecordsOK' /\ Steady
        BY <1>1, <1>5, <3>1, <3>2, RecordSame DEF Shape
      <4> QED BY <3>1, <3>2, <4>1 DEF Received, Taken
    <3>3. CASE back
      <4>1. PICK vals : vals = [reachable |-> 1]
        OBVIOUS
      <4>2. DOMAIN vals = {"reachable"} /\ vals["reachable"] = 1 /\ Write(t, vals)
        BY <3>1, <3>3, <4>1
      <4>3. "reachable" \notin Fields(t)
        BY <2>1, SiteTypes, KeptFields DEF Shape
      <4>4. /\ DOMAIN vals \subseteq Fields(t) \cup {"reachable"}
            /\ \A f \in DOMAIN vals :
                 /\ f = "reachable" => vals[f] \in {0, 1}
                 /\ f \in Fields(t) => vals[f] \in Values
        BY <4>2, <4>3
      <4>5. RecordsOK' /\ Steady /\ Written(t, vals)
        BY <1>1, <1>5, <2>1, <4>2, <4>4, StateWritten
      <4> QED BY <3>1, <4>1, <4>5 DEF Received, Taken
    <3> QED BY <3>2, <3>3
  <2> QED BY <2>2, <2>3
<1>8. CASE \E t \in Receiver(e) :
               LET back == Read(t, "reachable") = 0
               IN IF back /\ ~UpdateState[t][e.field].revives
                  THEN /\ stray' = [stray EXCEPT ![t] = @ \cup {e.field}]
                       /\ UNCHANGED <<ram, file, upd>>
                  ELSE /\ IF back THEN Write(t, [reachable |-> 1])
                          ELSE UNCHANGED <<ram, file>>
                       /\ upd' = [pc |-> "compare", type |-> t, field |-> e.field,
                                  val |-> e.val, changed |-> back]
                       /\ UNCHANGED stray
  BY <1>1, <1>3, <1>4, <1>7, <1>8
<1> QED BY <1>4, <1>6, <1>8

LEMMA ReceiveShape ==
    ASSUME Shape, Receive
    PROVE  Shape' /\ Steady
<1>1. /\ events # <<>> /\ upd.pc = "idle" /\ events' = Tail(events)
      /\ UNCHANGED <<site, phys, job, cmds, scan, seen, used, failed, unseen, hushed, rises>>
      /\ RecordsOK' /\ Steady
  BY ReceiveIs
<1>2. PICK e : e = events[1]
  OBVIOUS
<1>3. /\ IsEvent(site, e)
      /\ \/ Receiver(e) = {} /\ UNCHANGED <<ram, file, upd, stray>>
         \/ \E t \in Receiver(e) : Received(t, e)
  BY <1>2, ReceiveIs
<1>4. FieldsOf(site, stray)
  BY DEF Shape, DevicesOK
<1>5. UpdOK' /\ FieldsOf(site, stray')
  <2>1. CASE upd' = upd /\ stray' = stray
    BY <1>1, <1>4, <2>1, UpdSame DEF Shape
  <2>2. ASSUME NEW t \in Receiver(e), Received(t, e) PROVE UpdOK' /\ FieldsOf(site, stray')
    <3>1. /\ t \in site /\ t # "sonos" /\ e.field \in Fields(t) /\ e.val \in Values
          /\ t \in FirstOf(site, Cluster(t, e.field), Endpoint(t))
      BY <1>3, ReceiverOf
    <3>2. CASE stray' = [stray EXCEPT ![t] = @ \cup {e.field}] /\ UNCHANGED <<ram, file, upd>>
      <4>1. UpdOK'
        BY <1>1, <3>2, UpdSame DEF Shape
      <4>2. PICK A : A = stray[t] \cup {e.field}
        OBVIOUS
      <4>3. A \subseteq Fields(t)
        BY <1>4, <3>1, <4>2 DEF FieldsOf
      <4>4. FieldsOf(site, [stray EXCEPT ![t] = A])
        BY <1>4, <3>1, <4>3, FieldsPut
      <4> QED BY <3>2, <4>1, <4>2, <4>4
    <3>3. CASE Taken(t, e)
      <4>1. UpdOK'
        BY <1>1, <3>1, <3>3 DEF Taken, UpdOK
      <4> QED BY <1>4, <3>3, <4>1 DEF Taken
    <3> QED BY <2>2, <3>2, <3>3 DEF Received
  <2> QED BY <1>3, <2>1, <2>2
<1>6. DevicesOK'
  BY <1>1, <1>5 DEF Shape, DevicesOK
<1>7. JobsOK' /\ CmdsOK' /\ EventsOK'
  BY <1>1, JobsSame, CmdsSame, EventsTail DEF Shape
<1> QED BY <1>1, <1>5, <1>6, <1>7 DEF Shape

LEMMA UpdIs ==
    ASSUME Shape, upd.pc # "idle"
    PROVE  /\ DOMAIN upd = {"pc", "type", "field", "val", "changed"}
           /\ upd.type \in site /\ upd.type # "sonos" /\ upd.type \in DevTypes
           /\ upd.field \in Fields(upd.type) /\ upd.val \in Values
           /\ upd.type \in FirstOf(site, Cluster(upd.type, upd.field), Endpoint(upd.type))
           /\ Heard(upd.type, upd.field)
BY SiteTypes, FirstIs DEF Shape, UpdOK, Heard

\* The event dealt with goes on to p.
UpdTo(p) ==
    /\ DOMAIN upd' = DOMAIN upd /\ upd'.pc = p
    /\ upd'.type = upd.type /\ upd'.field = upd.field /\ upd'.val = upd.val

LEMMA UpdPut ==
    ASSUME Shape, site' = site, upd.pc # "idle", NEW p, upd' = [upd EXCEPT !.pc = p]
    PROVE  UpdTo(p) /\ (p \in {"idle", "compare", "put", "tell"} => UpdOK')
<1>1. UpdTo(p)
  BY UpdIs DEF UpdTo
<1>2. p \in {"idle", "compare", "put", "tell"} => UpdOK'
  BY <1>1, UpdIs DEF UpdTo, UpdOK
<1> QED BY <1>1, <1>2

LEMMA CompareIs ==
    ASSUME Shape, Compare
    PROVE  /\ upd.pc = "compare" /\ Marks(upd.type, {upd.field})
           /\ stray' = [stray EXCEPT ![upd.type] = @ \ {upd.field}]
           /\ UNCHANGED <<site, ram, file, phys, cmds, scan, events, seen, used, failed,
                          unseen, hushed, rises>>
           /\ \E p \in {"put", "tell", "idle"} :
                UpdTo(p) /\ (p = "put" <=> ram[upd.type][upd.field] # upd.val)
           /\ UpdOK'
<1>1. /\ upd.pc = "compare" /\ job' = Overtaken(upd.type, {upd.field})
      /\ stray' = [stray EXCEPT ![upd.type] = @ \ {upd.field}]
      /\ UNCHANGED <<site, ram, file, phys, cmds, scan, events, seen, used, failed,
                          unseen, hushed, rises>>
  BY DEF Compare
<1>2. Marks(upd.type, {upd.field})
  BY <1>1, OvertakenIs
<1>3. PICK new \in BOOLEAN : new = (Read(upd.type, upd.field) # upd.val)
  OBVIOUS
<1>4. PICK p : p = IF new THEN "put" ELSE IF upd.changed THEN "tell" ELSE "idle"
  OBVIOUS
<1>5. upd' = [upd EXCEPT !.pc = p]
  BY <1>3, <1>4 DEF Compare
<1>6. UpdTo(p) /\ UpdOK'
  BY <1>1, <1>4, <1>5, UpdPut
<1>7. Read(upd.type, upd.field) = ram[upd.type][upd.field]
  BY <1>1, UpdIs, Reads, KeptFields DEF Shape
<1> QED BY <1>1, <1>2, <1>3, <1>4, <1>6, <1>7

LEMMA CompareShape ==
    ASSUME Shape, Compare
    PROVE  Shape' /\ Steady
<1>1. /\ upd.pc = "compare" /\ Marks(upd.type, {upd.field})
      /\ stray' = [stray EXCEPT ![upd.type] = @ \ {upd.field}]
      /\ UNCHANGED <<site, ram, file, phys, cmds, scan, events, seen, used, failed,
                          unseen, hushed, rises>>
      /\ UpdOK'
  BY CompareIs
<1>2. RecordsOK' /\ Steady
  <2>1. UsedOK
    BY DEF Shape, DevicesOK, RecordsOK
  <2> QED BY <1>1, <2>1, UseSame, RecordSame DEF Shape
<1>3. FieldsOf(site, stray')
  <2>1. PICK A : A = stray[upd.type] \ {upd.field}
    OBVIOUS
  <2>2. FieldsOf(site, stray) /\ upd.type \in site
    BY <1>1, UpdIs DEF Shape, DevicesOK
  <2>3. A \subseteq Fields(upd.type)
    BY <2>1, <2>2 DEF FieldsOf
  <2>4. FieldsOf(site, [stray EXCEPT ![upd.type] = A])
    BY <2>2, <2>3, FieldsPut
  <2> QED BY <1>1, <2>1, <2>4
<1>4. DevicesOK'
  BY <1>1, <1>2, <1>3 DEF Shape, DevicesOK
<1>5. JobsOK' /\ CmdsOK' /\ EventsOK'
  BY <1>1, <1>2, MarksOK, CmdsSame, EventsSame DEF Shape
<1> QED BY <1>1, <1>2, <1>4, <1>5 DEF Shape

\* What is put on record, and the count.
PutSays(vals) ==
    /\ "count" \notin Fields(upd.type)
    /\ vals[upd.field] = upd.val
    /\ IF Counts(upd.type, upd.field, ram[upd.type][upd.field], upd.val)
       THEN /\ DOMAIN vals = {upd.field, "count"} /\ "count" \in OnRecord(upd.type)
            /\ vals["count"] = ram[upd.type]["count"] + 1
       ELSE DOMAIN vals = {upd.field}

LEMMA PutIs ==
    ASSUME Shape, Put
    PROVE  /\ upd.pc = "put" /\ Marks(upd.type, {upd.field})
           /\ UNCHANGED <<site, phys, cmds, scan, events, seen, used, failed, stray, unseen,
                          hushed, rises>>
           /\ UpdTo("tell") /\ UpdOK' /\ RecordsOK' /\ Steady
           /\ \E vals : PutSays(vals) /\ Written(upd.type, vals)
<1>1. PICK t, f, v : t = upd.type /\ f = upd.field /\ v = upd.val
  OBVIOUS
<1>2. /\ upd.pc = "put" /\ job' = Overtaken(t, {f}) /\ upd' = [upd EXCEPT !.pc = "tell"]
      /\ UNCHANGED <<site, phys, cmds, scan, events, seen, used, failed, stray, unseen,
                     hushed, rises>>
  BY <1>1 DEF Put
<1>3. Marks(t, {f})
  BY <1>2, OvertakenIs
<1>4. UpdTo("tell") /\ UpdOK'
  BY <1>2, UpdPut
<1>5. /\ t \in site /\ t \in DevTypes /\ f \in Fields(t) /\ v \in Values
  BY <1>1, <1>2, UpdIs
<1>6. /\ "count" \notin Fields(t) /\ "at_err_tick" \notin Fields(t) /\ "reachable" \notin Fields(t)
      /\ Fields(t) \subseteq StateKept(t)
  BY <1>5, KeptFields
<1>7. PICK cnt : cnt = IF Counts(t, f, ram[t][f], v) THEN [count |-> ram[t].count + 1] ELSE <<>>
  OBVIOUS
<1>8. PICK one : one = [g \in {f} |-> v]
  OBVIOUS
<1>9. PICK vals : vals = Over(one, cnt)
  OBVIOUS
<1>10. Write(t, vals)
  BY <1>1, <1>7, <1>8, <1>9 DEF Put
<1>11. DOMAIN one = {f} /\ one[f] = v
  BY <1>8
<1>12. CASE Counts(t, f, ram[t][f], v)
  <2>1. DOMAIN cnt = {"count"} /\ cnt["count"] = ram[t]["count"] + 1
    BY <1>7, <1>12
  <2>2. f # "count"
    BY <1>5, <1>6
  <2>3. DOMAIN vals = {f, "count"} /\ vals[f] = v /\ vals["count"] = ram[t]["count"] + 1
    BY <1>9, <1>11, <2>1, <2>2 DEF Over
  <2>4. t \in {"bin_sensor", "occ_sensor"}
    BY <1>12 DEF Counts
  <2>5. "count" \in OnRecord(t)
    BY <2>4, SensorRecords DEF OnRecord, BinSensorFields, OccSensorFields
  <2>6. PutSays(vals)
    BY <1>1, <1>6, <1>12, <2>3, <2>5 DEF PutSays
  <2>7. "count" \in StateKept(t) /\ ram[t]["count"] \in Nat
    BY <1>5, <2>5 DEF StateKept, Shape, DevicesOK, RecordsOK, RecordOK
  <2>8. DOMAIN vals \subseteq StateKept(t)
    BY <1>5, <1>6, <2>3, <2>7
  <2>9. Written(t, vals)
    BY <1>5, <1>10, <2>8, Writes DEF Shape
  <2>10. UsedOK' /\ used'["tick"] = used["tick"] /\ used'["fails"] >= used["fails"]
    <3>1. UsedOK
      BY DEF Shape, DevicesOK, RecordsOK
    <3> QED BY <1>2, <3>1, UseSame
  <2>11. \A g \in DOMAIN vals :
              /\ g = "reachable" => vals[g] \in {0, 1}
              /\ g = "at_err_tick" => vals[g] \in Nat /\ vals[g] <= used'["tick"] + used'["fails"]
              /\ g = "count" => vals[g] \in Nat
              /\ g \in Fields(t) => vals[g] \in Values
    BY <1>5, <1>6, <2>3, <2>7
  <2>12. RecordsOK' /\ Steady
    BY <1>2, <1>5, <2>8, <2>9, <2>10, <2>11, RecordStep DEF Shape
  <2> QED BY <1>1, <1>2, <1>3, <1>4, <2>6, <2>9, <2>12
<1>13. CASE ~Counts(t, f, ram[t][f], v)
  <2>1. DOMAIN cnt = {}
    BY <1>7, <1>13
  <2>2. DOMAIN vals = {f} /\ vals[f] = v
    BY <1>9, <1>11, <2>1 DEF Over
  <2>3. PutSays(vals)
    BY <1>1, <1>6, <1>13, <2>2 DEF PutSays
  <2>4. UsedOK' /\ used'["tick"] = used["tick"] /\ used'["fails"] >= used["fails"]
    <3>1. UsedOK
      BY DEF Shape, DevicesOK, RecordsOK
    <3> QED BY <1>2, <3>1, UseSame
  <2>5. /\ DOMAIN vals \subseteq Fields(t) \cup {"reachable"}
        /\ \A g \in DOMAIN vals :
              /\ g = "reachable" => vals[g] \in {0, 1}
              /\ g \in Fields(t) => vals[g] \in Values
    BY <1>5, <1>6, <2>2
  <2>6. RecordsOK' /\ Steady /\ Written(t, vals)
    BY <1>2, <1>5, <1>10, <2>4, <2>5, StateWritten
  <2> QED BY <1>1, <1>2, <1>3, <1>4, <2>3, <2>6
<1> QED BY <1>12, <1>13

LEMMA PutShape ==
    ASSUME Shape, Put
    PROVE  Shape' /\ Steady
<1>1. /\ Marks(upd.type, {upd.field})
      /\ UNCHANGED <<site, phys, cmds, scan, events, seen, used, failed, stray, unseen,
                          hushed, rises>>
      /\ UpdOK' /\ RecordsOK' /\ Steady
  BY PutIs
<1>2. DevicesOK'
  BY <1>1 DEF Shape, DevicesOK
<1>3. JobsOK' /\ CmdsOK' /\ EventsOK'
  BY <1>1, MarksOK, CmdsSame, EventsSame DEF Shape
<1> QED BY <1>1, <1>2, <1>3 DEF Shape

LEMMA TellIs ==
    ASSUME Shape, Tell
    PROVE  LET t == upd.type
               f == upd.field
           IN /\ upd.pc = "tell" /\ "pc" \in DOMAIN upd' /\ upd'.pc = "idle"
              /\ UNCHANGED <<site, ram, file, phys, job, cmds, scan, events, used, failed,
                             stray, rises>>
              /\ \/ /\ \E w : DOMAIN w = {f} /\ w[f] = ram[t][f]
                            /\ seen' = [seen EXCEPT ![t] = Over(w, @)]
                    /\ unseen' = [unseen EXCEPT ![t] = @ \ {f}]
                    /\ hushed' = [hushed EXCEPT ![t] = @ \ {f}]
                 \/ /\ unseen' = [unseen EXCEPT ![t] = @ \cup {f}]
                    /\ UNCHANGED <<seen, hushed>>
<1>1. PICK t, f : t = upd.type /\ f = upd.field
  OBVIOUS
<1>2. /\ upd.pc = "tell" /\ upd' = [pc |-> "idle"]
      /\ UNCHANGED <<site, ram, file, phys, job, cmds, scan, events, used, failed,
                     stray, rises>>
  BY DEF Tell
<1>3. "pc" \in DOMAIN upd' /\ upd'.pc = "idle"
  BY <1>2
<1>4. t \in site /\ f \in Fields(t) /\ t \in DevTypes
  BY <1>1, <1>2, UpdIs
<1>5. Read(t, f) = ram[t][f]
  BY <1>4, Reads, KeptFields DEF Shape
<1>6. CASE Read(t, "changerpt") # 0
  <2>1. PICK w : w = [g \in {f} |-> Read(t, f)]
    OBVIOUS
  <2>2. /\ seen' = [seen EXCEPT ![t] = Over(w, @)]
        /\ unseen' = [unseen EXCEPT ![t] = @ \ {f}]
        /\ hushed' = [hushed EXCEPT ![t] = @ \ {f}]
    BY <1>1, <1>6, <2>1 DEF Tell, Told
  <2>3. DOMAIN w = {f} /\ w[f] = ram[t][f]
    BY <1>5, <2>1
  <2> QED BY <1>1, <1>2, <1>3, <2>2, <2>3
<1>7. CASE ~(Read(t, "changerpt") # 0)
  <2>1. unseen' = [unseen EXCEPT ![t] = @ \cup {f}] /\ UNCHANGED <<seen, hushed>>
    BY <1>1, <1>7 DEF Tell
  <2> QED BY <1>1, <1>2, <1>3, <2>1
<1> QED BY <1>6, <1>7

LEMMA TellShape ==
    ASSUME Shape, Tell
    PROVE  Shape' /\ Steady
<1>1. PICK t, f : t = upd.type /\ f = upd.field
  OBVIOUS
<1>2. /\ upd.pc = "tell" /\ "pc" \in DOMAIN upd' /\ upd'.pc = "idle"
      /\ UNCHANGED <<site, ram, file, phys, job, cmds, scan, events, used, failed,
                             stray, rises>>
      /\ \/ /\ \E w : DOMAIN w = {f} /\ w[f] = ram[t][f]
                            /\ seen' = [seen EXCEPT ![t] = Over(w, @)]
            /\ unseen' = [unseen EXCEPT ![t] = @ \ {f}]
            /\ hushed' = [hushed EXCEPT ![t] = @ \ {f}]
         \/ /\ unseen' = [unseen EXCEPT ![t] = @ \cup {f}]
            /\ UNCHANGED <<seen, hushed>>
  BY <1>1, TellIs
<1>3. t \in site /\ f \in Fields(t) /\ ram[t][f] \in Values
  BY <1>1, <1>2, UpdIs DEF Shape, DevicesOK, RecordsOK, RecordOK
<1>4. StatesOf(site, seen) /\ FieldsOf(site, unseen) /\ FieldsOf(site, hushed)
  BY DEF Shape, DevicesOK
<1>5. unseen[t] \subseteq Fields(t) /\ hushed[t] \subseteq Fields(t)
  BY <1>3, <1>4 DEF FieldsOf
<1>6. StatesOf(site, seen')
  <2>1. CASE seen' = seen
    BY <1>4, <2>1
  <2>2. ASSUME NEW w, DOMAIN w = {f}, w[f] = ram[t][f], seen' = [seen EXCEPT ![t] = Over(w, @)]
        PROVE  StatesOf(site, seen')
    <3>1. DOMAIN w \subseteq Fields(t) /\ \A g \in DOMAIN w : w[g] \in Values
      BY <1>3, <2>2
    <3>2. StatesOf(site, [seen EXCEPT ![t] = Over(w, seen[t])])
      BY <1>3, <1>4, <3>1, StatesPut
    <3> QED BY <2>2, <3>2
  <2> QED BY <1>2, <2>1, <2>2
<1>7. \E A \in SUBSET Fields(t), B \in SUBSET Fields(t) :
            unseen' = [unseen EXCEPT ![t] = A] /\ (hushed' = hushed \/ hushed' = [hushed EXCEPT ![t] = B])
  <2>1. (unseen[t] \ {f}) \in SUBSET Fields(t) /\ (unseen[t] \cup {f}) \in SUBSET Fields(t)
        /\ (hushed[t] \ {f}) \in SUBSET Fields(t)
    BY <1>3, <1>5
  <2> QED BY <1>2, <2>1
<1>8. FieldsOf(site, unseen') /\ FieldsOf(site, hushed')
  <2>1. PICK A \in SUBSET Fields(t), B \in SUBSET Fields(t) :
            unseen' = [unseen EXCEPT ![t] = A] /\ (hushed' = hushed \/ hushed' = [hushed EXCEPT ![t] = B])
    BY <1>7
  <2>2. FieldsOf(site, [unseen EXCEPT ![t] = A])
    BY <1>3, <1>4, FieldsPut
  <2>3. FieldsOf(site, [hushed EXCEPT ![t] = B])
    BY <1>3, <1>4, FieldsPut
  <2> QED BY <1>4, <2>1, <2>2, <2>3
<1>9. RecordsOK' /\ Steady
  <2>1. UsedOK
    BY DEF Shape, DevicesOK, RecordsOK
  <2> QED BY <1>2, <2>1, UseSame, RecordSame DEF Shape
<1>10. DevicesOK'
  BY <1>2, <1>6, <1>8, <1>9 DEF Shape, DevicesOK
<1>11. JobsOK' /\ CmdsOK' /\ EventsOK' /\ UpdOK'
  BY <1>2, <1>9, JobsSame, CmdsSame, EventsSame DEF Shape, UpdOK
<1> QED BY <1>2, <1>9, <1>10, <1>11 DEF Shape

LEMMA NotifiedIs ==
    ASSUME Shape, Notified
    PROVE  LET e == events[1]
           IN /\ events # <<>> /\ events' = Tail(events) /\ "sonos" \in site /\ e.ep = "sonos"
              /\ e.field \in Fields("sonos") /\ e.val \in Values
              /\ UNCHANGED <<site, phys, cmds, scan, upd, seen, used, failed, hushed, rises>>
              /\ \E w : /\ DOMAIN w = {e.field} /\ w[e.field] = e.val
                        /\ Written("sonos", w)
              /\ RecordsOK' /\ Steady
              /\ Marks("sonos", {e.field})
              /\ stray' = [stray EXCEPT !["sonos"] = @ \ {e.field}]
              /\ unseen' = [unseen EXCEPT !["sonos"] =
                    IF ram["sonos"][e.field] # e.val THEN @ \cup {e.field} ELSE @]
<1>1. /\ events # <<>> /\ events' = Tail(events)
      /\ UNCHANGED <<site, phys, cmds, scan, upd, seen, used, failed, hushed, rises>>
  BY DEF Notified
<1>2. PICK e : e = Head(events)
  OBVIOUS
<1>3. e = events[1] /\ IsEvent(site, e)
  BY <1>1, <1>2, HeadEvent
<1>4. /\ e.ep = "sonos"
      /\ Write("sonos", [g \in {e.field} |-> e.val])
      /\ job' = Overtaken("sonos", {e.field})
      /\ stray' = [stray EXCEPT !["sonos"] = @ \ {e.field}]
      /\ unseen' = [unseen EXCEPT !["sonos"] =
                    IF ram["sonos"][e.field] # e.val THEN @ \cup {e.field} ELSE @]
  BY <1>2 DEF Notified
<1>5. "sonos" \in site /\ e.field \in Fields("sonos") /\ e.val \in Values
  <2>1. PICK u \in site, v \in Values : \E f \in Fields(u) :
            e = [cluster |-> Cluster(u, f), ep |-> Endpoint(u), field |-> f, val |-> v]
    BY <1>3 DEF IsEvent
  <2>2. PICK f \in Fields(u) :
            e = [cluster |-> Cluster(u, f), ep |-> Endpoint(u), field |-> f, val |-> v]
    BY <2>1
  <2>3. e.ep = Endpoint(u) /\ e.field = f /\ e.val = v
    BY <2>2
  <2>4. u = "sonos"
    BY <1>4, <2>3 DEF Endpoint
  <2> QED BY <2>3, <2>4
<1>6. Marks("sonos", {e.field})
  BY <1>4, OvertakenIs
<1>7. PICK w : w = [g \in {e.field} |-> e.val]
  OBVIOUS
<1>8. DOMAIN w = {e.field} /\ w[e.field] = e.val /\ Write("sonos", w)
  BY <1>4, <1>7
<1>9. RecordsOK' /\ Steady /\ Written("sonos", w)
  <2>1. UsedOK' /\ used'["tick"] = used["tick"] /\ used'["fails"] >= used["fails"]
    <3>1. UsedOK
      BY DEF Shape, DevicesOK, RecordsOK
    <3> QED BY <1>1, <3>1, UseSame
  <2>2. "reachable" \notin Fields("sonos")
    BY FieldsAre
  <2>3. /\ DOMAIN w \subseteq Fields("sonos") \cup {"reachable"}
        /\ \A g \in DOMAIN w :
              /\ g = "reachable" => w[g] \in {0, 1}
              /\ g \in Fields("sonos") => w[g] \in Values
    BY <1>5, <1>8, <2>2
  <2> QED BY <1>1, <1>5, <1>8, <2>1, <2>3, StateWritten
<1> QED BY <1>1, <1>3, <1>4, <1>5, <1>6, <1>8, <1>9

LEMMA NotifiedShape ==
    ASSUME Shape, Notified
    PROVE  Shape' /\ Steady
<1>1. PICK e : e = events[1]
  OBVIOUS
<1>2. /\ events # <<>> /\ events' = Tail(events) /\ "sonos" \in site
      /\ e.field \in Fields("sonos")
      /\ UNCHANGED <<site, phys, cmds, scan, upd, seen, used, failed, hushed, rises>>
      /\ RecordsOK' /\ Steady
      /\ Marks("sonos", {e.field})
      /\ stray' = [stray EXCEPT !["sonos"] = @ \ {e.field}]
      /\ unseen' = [unseen EXCEPT !["sonos"] =
                    IF ram["sonos"][e.field] # e.val THEN @ \cup {e.field} ELSE @]
  BY <1>1, NotifiedIs
<1>3. FieldsOf(site, stray) /\ FieldsOf(site, unseen)
  BY DEF Shape, DevicesOK
<1>4. FieldsOf(site, stray') /\ FieldsOf(site, unseen')
  <2>1. PICK A : A = stray["sonos"] \ {e.field}
    OBVIOUS
  <2>2. PICK B : B = IF ram["sonos"][e.field] # e.val THEN unseen["sonos"] \cup {e.field}
                     ELSE unseen["sonos"]
    OBVIOUS
  <2>3. A \subseteq Fields("sonos") /\ B \subseteq Fields("sonos")
    BY <1>2, <1>3, <2>1, <2>2 DEF FieldsOf
  <2>4. FieldsOf(site, [stray EXCEPT !["sonos"] = A])
    BY <1>2, <1>3, <2>3, FieldsPut
  <2>5. FieldsOf(site, [unseen EXCEPT !["sonos"] = B])
    BY <1>2, <1>3, <2>3, FieldsPut
  <2> QED BY <1>2, <2>1, <2>2, <2>4, <2>5
<1>5. DevicesOK'
  BY <1>2, <1>4 DEF Shape, DevicesOK
<1>6. JobsOK' /\ CmdsOK' /\ EventsOK' /\ UpdOK'
  BY <1>2, MarksOK, CmdsSame, EventsTail, UpdSame DEF Shape
<1> QED BY <1>2, <1>5, <1>6 DEF Shape

LEMMA SameShape ==
    ASSUME Shape, UNCHANGED vars
    PROVE  Shape' /\ Steady
<1>1. UNCHANGED <<site, ram, file, phys, job, cmds, scan, events, upd, seen, used,
          failed, stray, unseen, hushed, rises>>
  BY DEF vars
<1>2. RecordsOK' /\ Steady
  <2>1. UsedOK
    BY DEF Shape, DevicesOK, RecordsOK
  <2> QED BY <1>1, <2>1, UseSame, RecordSame DEF Shape
<1>3. DevicesOK'
  BY <1>1, <1>2 DEF Shape, DevicesOK
<1>4. JobsOK' /\ CmdsOK' /\ EventsOK' /\ UpdOK'
  BY <1>1, <1>2, JobsSame, CmdsSame, EventsSame, UpdSame DEF Shape
<1> QED BY <1>1, <1>2, <1>3, <1>4 DEF Shape

LEMMA NextShape ==
    ASSUME Shape, [Next]_vars
    PROVE  Shape' /\ Steady
BY BeginShape, QueueShape, WriteRecordShape, DriveShape, ReportShape, SetChangeRptShape,
   AnsweredShape, UnansweredShape, GiveUpShape, ChangeShape, ReceiveShape, CompareShape,
   PutShape, TellShape, NotifiedShape, SameShape DEF Next

LEMMA ShapeType == ASSUME Shape PROVE TypeOK
<1>1. DevicesOK /\ RecordsOK /\ UsedOK
  BY DEF Shape, DevicesOK, RecordsOK
<1>2. \E s \in Sites : site = DOMAIN s
  BY <1>1 DEF RecordsOK
<1>3. DOMAIN ram = site /\ DOMAIN file = site
  BY <1>1 DEF RecordsOK
<1>4. ASSUME NEW t \in site
      PROVE  /\ ram[t].reachable \in {0, 1}
             /\ ram[t].at_err_tick \in 0..(ScanLimit - 1 + MaxFails)
             /\ \A f \in Fields(t) : {ram[t][f], phys[t][f], seen[t][f]} \subseteq Values
             /\ file[t].changerpt \in {0, 1}
             /\ stray[t] \cup unseen[t] \cup hushed[t] \subseteq Fields(t)
  <2>1. RecordOK(t)
    BY <1>1 DEF RecordsOK
  <2>2. ram[t]["at_err_tick"] \in 0..(ScanLimit - 1 + MaxFails)
    <3>1. /\ ram[t]["at_err_tick"] \in Nat
          /\ ram[t]["at_err_tick"] <= used["tick"] + used["fails"]
      BY <2>1 DEF RecordOK
    <3>2. /\ used["fails"] \in Nat /\ used["fails"] <= MaxFails
          /\ used["tick"] \in {ScanLimit - 2, ScanLimit - 1}
      BY <1>1 DEF UsedOK
    <3> QED BY <3>1, <3>2, LimitAssumption
  <2>3. phys[t] \in [Fields(t) -> Values] /\ seen[t] \in [Fields(t) -> Values]
    BY <1>1 DEF DevicesOK, StatesOf
  <2>4. \A f \in Fields(t) : ram[t][f] \in Values
    BY <2>1 DEF RecordOK
  <2>5. \A f \in Fields(t) : {ram[t][f], phys[t][f], seen[t][f]} \subseteq Values
    BY <2>3, <2>4
  <2>6. file[t].changerpt \in {0, 1} /\ ram[t].reachable \in {0, 1}
    BY <2>1 DEF RecordOK
  <2>7. stray[t] \cup unseen[t] \cup hushed[t] \subseteq Fields(t)
    BY <1>1 DEF DevicesOK, FieldsOf
  <2> QED BY <2>2, <2>5, <2>6, <2>7
<1>5. \A c \in Callers : job[c].pc \in {"idle", "queue", "write", "drive", "report"}
  BY JobIs DEF IsJob, Places
<1>6. \A k \in DOMAIN cmds : cmds[k].to \in site \cup {"all"}
  BY SeqIndex DEF Shape, CmdsOK, IsCmd
<1>7. scan \in site \cup {"none"} /\ upd.pc \in {"idle", "compare", "put", "tell"}
  BY DEF Shape, UpdOK
<1> QED BY <1>2, <1>3, <1>4, <1>5, <1>6, <1>7 DEF TypeOK

-----------------------------------------------------------------------------
(* Devices given up. *)

Charges(t) == failed[t] + (IF t = "switch" /\ "panel" \in site THEN failed["panel"] ELSE 0)

\* A device's failures are its own, and it is given up for no fewer than the limit.
TickOK(t) ==
    /\ ram[t]["at_err_tick"] <= used["tick"] + Charges(t)
    /\ scan = t => ram[t]["at_err_tick"] >= ScanLimit
    /\ ram[t]["reachable"] < Add(t, ModeOf[t]).reachable => ram[t]["at_err_tick"] >= ScanLimit
TicksOK == \A t \in site : TickOK(t)

LEMMA TickTypes ==
    ASSUME Shape, NEW t \in site
    PROVE  /\ ram[t]["at_err_tick"] \in Int /\ ram[t]["reachable"] \in {0, 1}
           /\ used["tick"] \in Int /\ Charges(t) \in Nat /\ ScanLimit \in Int
           /\ Add(t, ModeOf[t]).reachable \in {0, 1}
<1>1. DevicesOK /\ RecordOK(t) /\ UsedOK
  BY DEF Shape, DevicesOK, RecordsOK
<1>2. failed \in [site -> Nat]
  BY <1>1 DEF DevicesOK
<1>3. Charges(t) \in Nat
  BY <1>2 DEF Charges
<1>4. Add(t, ModeOf[t]).reachable \in {0, 1}
  BY <1>1, SiteTypes, Starts DEF StartOK
<1> QED BY <1>1, <1>3, <1>4, LimitAssumption DEF RecordOK, UsedOK

\* Nobody's failures change; somebody may be there again.
Calm ==
    /\ \A u \in site :
        /\ ram'[u]["at_err_tick"] = ram[u]["at_err_tick"]
        /\ ram'[u]["reachable"] = ram[u]["reachable"] \/ ram'[u]["reachable"] = 1
    /\ failed' = failed /\ scan' = scan

LEMMA CalmTicks ==
    ASSUME Shape, Steady, used'["tick"] = used["tick"], Calm, TicksOK
    PROVE  TicksOK'
<1>1. ASSUME NEW t \in site PROVE TickOK(t)'
  <2>1. TickOK(t)
    BY DEF TicksOK
  <2>2. Charges(t)' = Charges(t)
    BY DEF Charges, Calm, Steady
  <2>3. Add(t, ModeOf[t])'.reachable = Add(t, ModeOf[t]).reachable
    BY DEF Steady
  <2> QED BY <2>1, <2>2, <2>3, TickTypes DEF TickOK, Calm, Steady
<1> QED BY <1>1 DEF TicksOK, Steady

LEMMA InitTicks == Init => TicksOK
<1> SUFFICES ASSUME Init PROVE TicksOK
  OBVIOUS
<1>1. Shape
  BY InitShape
<1>2. PICK m \in Sites, rubbish \in {ScanLimit - 2, ScanLimit - 1} :
        /\ site = DOMAIN m
        /\ ram = [t \in site |->
                    Over([at_err_tick |-> rubbish, reachable |-> Add(t, m[t]).reachable],
                         Default(t, m[t]))]
        /\ used = [sets |-> 0, fails |-> 0, inputs |-> 0, tick |-> rubbish]
  BY DEF Init
<1>3. ASSUME NEW t \in site PROVE TickOK(t)
  <2>1. t \in DevTypes
    BY <1>1, SiteTypes DEF Shape
  <2>2. PICK A : A = [at_err_tick |-> rubbish, reachable |-> Add(t, m[t]).reachable]
    OBVIOUS
  <2>3. PICK D : D = Default(t, m[t])
    OBVIOUS
  <2>4. ram[t] = Over(A, D)
    BY <1>2, <2>2, <2>3
  <2>5. DOMAIN A = {"at_err_tick", "reachable"} /\ A["at_err_tick"] = rubbish
        /\ A["reachable"] = Add(t, m[t]).reachable
    BY <2>2
  <2>6. ram[t]["at_err_tick"] = rubbish /\ ram[t]["reachable"] = Add(t, m[t]).reachable
    BY <2>4, <2>5 DEF Over
  <2>7. used["tick"] = rubbish /\ scan = "none" /\ t # "none"
    BY <1>2, <2>1 DEF Init, DevTypes
  <2>8. ModeOf[t] = m[t] \/ Add(t, ModeOf[t]).reachable = Add(t, m[t]).reachable
    <3>1. DOMAIN ram[t] = OnRecord(t) \cup {"at_err_tick"}
      BY <1>1 DEF Shape, DevicesOK, RecordsOK, RecordOK
    <3>2. CASE "colormode" \in OnRecord(t)
      <4>1. D["colormode"] = m[t] /\ DOMAIN D = OnRecord(t)
        BY <2>1, <2>3, <3>2, Starts, RecordFields DEF StartOK
      <4>2. ram[t]["colormode"] = m[t]
        BY <2>4, <2>5, <3>2, <4>1 DEF Over
      <4>3. Mode(t) = m[t]
        BY <3>1, <3>2, <4>2 DEF Mode
      <4> QED BY <4>3 DEF ModeOf
    <3>3. CASE "colormode" \notin OnRecord(t)
      <4>1. Mode(t) = "none"
        BY <3>1, <3>3 DEF Mode
      <4>2. m[t] \in Modes(t)
        BY <1>2, SiteAssumption
      <4>3. t \notin {"light", "switch"}
        BY <3>3, LampRecords DEF OnRecord, LightFields, SwitchFields
      <4>4. m[t] = "none"
        BY <4>2, <4>3 DEF Modes
      <4> QED BY <4>1, <4>4 DEF ModeOf
    <3> QED BY <3>2, <3>3
  <2> QED BY <1>1, <2>6, <2>7, <2>8, TickTypes DEF TickOK
<1> QED BY <1>3 DEF TicksOK

\* The record is written, but not these two fields.
LEMMA WrittenCalm ==
    ASSUME Shape, NEW t \in site, NEW vals, Written(t, vals),
           "at_err_tick" \notin DOMAIN vals, 
           "reachable" \in DOMAIN vals => vals["reachable"] = 1,
           failed' = failed, scan' = scan
    PROVE  Calm
<1>1. DOMAIN ram = site
  BY DEF Shape, DevicesOK, RecordsOK
<1>2. ASSUME NEW u \in site
      PROVE  /\ ram'[u]["at_err_tick"] = ram[u]["at_err_tick"]
             /\ ram'[u]["reachable"] = ram[u]["reachable"] \/ ram'[u]["reachable"] = 1
  <2>1. RecordOK(u) /\ u \in DevTypes
    BY SiteTypes DEF Shape, DevicesOK, RecordsOK
  <2>2. "at_err_tick" \in DOMAIN ram[u] /\ "reachable" \in DOMAIN ram[u]
    BY <2>1, KeptFields DEF RecordOK
  <2>3. CASE u = t
    BY <2>2, <2>3 DEF Written
  <2>4. CASE u # t
    BY <1>1, <2>4 DEF Written
  <2> QED BY <2>3, <2>4
<1> QED BY <1>2 DEF Calm

LEMMA SameCalm ==
    ASSUME UNCHANGED <<ram, failed, scan>>
    PROVE  Calm
BY DEF Calm

LEMMA SpareFields ==
    ASSUME Shape, NEW t \in site
    PROVE  /\ "at_err_tick" \notin Fields(t) /\ "reachable" \notin Fields(t)
           /\ "count" \notin Fields(t)
BY SiteTypes, KeptFields DEF Shape

LEMMA CallersCalm ==
    ASSUME Shape, NEW c \in Callers,
           Begin(c) \/ Queue(c) \/ WriteRecord(c) \/ Drive(c) \/ ReportSet(c) \/ SetChangeRpt(c)
    PROVE  Calm
<1>1. CASE Begin(c) \/ Queue(c) \/ Drive(c) \/ ReportSet(c)
  <2>1. UNCHANGED <<ram, failed, scan>>
    BY <1>1, Zenon DEF Begin, Queue, Drive, ReportSet
  <2> QED BY <2>1, SameCalm
<1>2. CASE WriteRecord(c)
  <2>1. /\ job[c].type \in site /\ Written(job[c].type, Recorded(c))
        /\ failed' = failed /\ scan' = scan /\ job[c].pc # "idle"
    BY <1>2, WriteRecordJob, Zenon DEF WriteRecord
  <2>2. DOMAIN Recorded(c) \subseteq Fields(job[c].type)
    BY <2>1, RecordedIs, JobSetter DEF Touched
  <2>3. PICK t, vals : t = job[c].type /\ vals = Recorded(c)
    OBVIOUS
  <2>4. /\ t \in site /\ Written(t, vals) /\ DOMAIN vals \subseteq Fields(t)
    BY <2>1, <2>2, <2>3
  <2>5. "at_err_tick" \notin DOMAIN vals /\ "reachable" \notin DOMAIN vals
    BY <2>4, SpareFields
  <2> QED BY <2>1, <2>4, <2>5, WrittenCalm
<1>3. CASE SetChangeRpt(c)
  <2>1. Rewritten /\ failed' = failed /\ scan' = scan
    BY <1>3, SetChangeRptShape DEF SetChangeRpt
  <2>2. ASSUME NEW u \in site
        PROVE  "at_err_tick" \in DOMAIN ram[u] /\ "reachable" \in DOMAIN ram[u]
    <3>1. RecordOK(u) /\ u \in DevTypes
      BY SiteTypes DEF Shape, DevicesOK, RecordsOK
    <3> QED BY <3>1, KeptFields DEF RecordOK
  <2> QED BY <2>1, <2>2 DEF Calm, Rewritten
<1> QED BY <1>1, <1>2, <1>3

LEMMA EventsCalm ==
    ASSUME Shape, Answered \/ Change \/ Receive \/ Compare \/ Put \/ Tell \/ Notified
    PROVE  Calm
<1>1. CASE Answered \/ Change \/ Compare \/ Tell
  <2>1. UNCHANGED <<ram, failed, scan>>
    BY <1>1 DEF Answered, Change, Compare, Tell
  <2> QED BY <2>1, SameCalm
<1>2. CASE Receive
  <2>1. PICK e : e = events[1]
    OBVIOUS
  <2>2. /\ failed' = failed /\ scan' = scan /\ IsEvent(site, e)
        /\ \/ Receiver(e) = {} /\ UNCHANGED <<ram, file, upd, stray>>
           \/ \E t \in Receiver(e) : Received(t, e)
    BY <1>2, <2>1, ReceiveIs
  <2>3. CASE ram' = ram
    BY <2>2, <2>3, SameCalm
  <2>4. ASSUME NEW t \in Receiver(e), Written(t, [reachable |-> 1])
        PROVE  Calm
    <3>1. t \in site
      BY <2>2, ReceiverOf
    <3>2. PICK vals : vals = [reachable |-> 1]
      OBVIOUS
    <3>3. "at_err_tick" \notin DOMAIN vals /\ ("reachable" \in DOMAIN vals => vals["reachable"] = 1)
      BY <3>2
    <3>4. Written(t, vals)
      BY <2>4, <3>2
    <3> QED BY <2>2, <3>1, <3>3, <3>4, WrittenCalm
  <2> QED BY <2>2, <2>3, <2>4 DEF Received, Taken
<1>3. CASE Put
  <2>1. PICK vals : PutSays(vals) /\ Written(upd.type, vals)
    BY <1>3, PutIs
  <2>2. upd.pc = "put" /\ failed' = failed /\ scan' = scan
    BY <1>3, PutIs
  <2>3. PICK t : t = upd.type
    OBVIOUS
  <2>4. t \in site /\ upd.field \in Fields(t)
    BY <2>2, <2>3, UpdIs
  <2>5. "at_err_tick" \notin DOMAIN vals /\ "reachable" \notin DOMAIN vals
    BY <2>1, <2>4, SpareFields DEF PutSays
  <2> QED BY <2>1, <2>2, <2>3, <2>4, <2>5, WrittenCalm
<1>4. CASE Notified
  <2>1. PICK e : e = events[1]
    OBVIOUS
  <2>2. /\ "sonos" \in site /\ e.field \in Fields("sonos") /\ failed' = failed /\ scan' = scan
        /\ \E w : DOMAIN w = {e.field} /\ Written("sonos", w)
    BY <1>4, <2>1, NotifiedIs
  <2>3. PICK w : DOMAIN w = {e.field} /\ Written("sonos", w)
    BY <2>2
  <2>4. "at_err_tick" \notin DOMAIN w /\ "reachable" \notin DOMAIN w
    BY <2>2, <2>3, SpareFields
  <2> QED BY <2>2, <2>3, <2>4, WrittenCalm
<1> QED BY <1>1, <1>2, <1>3, <1>4

LEMMA UsedTick ==
    ASSUME Shape, [Next]_vars
    PROVE  used'["tick"] = used["tick"]
<1>1. UsedOK
  BY DEF Shape, DevicesOK, RecordsOK
<1>2. used' = used \/ Use({"sets"}) \/ (Use({"fails"}) /\ used.fails < MaxFails) \/ Use({})
  BY Zenon DEF Next, vars, Begin, Queue, WriteRecord, Drive, ReportSet, SetChangeRpt, Answered,
         Unanswered, GiveUp, Change, Receive, Compare, Put, Tell, Notified
<1>3. CASE used' = used
  BY <1>3
<1>4. "tick" \notin {"sets"} /\ "tick" \notin {"fails"} /\ "tick" \notin {}
      /\ "fails" \notin {"sets"} /\ "fails" \notin {}
  OBVIOUS
<1> QED BY <1>1, <1>2, <1>3, <1>4, UseStep

LEMMA GiveUpTicks ==
    ASSUME Shape, TicksOK, GiveUp
    PROVE  TicksOK'
<1>1. /\ Shape' /\ Steady /\ Written(scan, [reachable |-> 0]) /\ scan \in site
  BY GiveUpShape
<1>2. used' = used /\ failed' = failed /\ scan' = "none"
  BY DEF GiveUp
<1>3. DOMAIN ram = site
  BY DEF Shape, DevicesOK, RecordsOK
<1>4. ASSUME NEW t \in site PROVE TickOK(t)'
  <2>1. TickOK(t) /\ RecordOK(t) /\ t \in DevTypes
    BY SiteTypes DEF TicksOK, Shape, DevicesOK, RecordsOK
  <2>2. Charges(t)' = Charges(t)
    BY <1>1, <1>2 DEF Charges, Steady
  <2>3. "at_err_tick" \in DOMAIN ram[t]
    BY <2>1 DEF RecordOK
  <2>4. ram'[t]["at_err_tick"] = ram[t]["at_err_tick"]
    BY <1>1, <1>3, <2>3 DEF Written
  <2>5. t # "none"
    BY <2>1 DEF DevTypes
  <2>6. t # scan => ram'[t] = ram[t]
    BY <1>1, <1>3 DEF Written
  <2> QED BY <1>1, <1>2, <2>1, <2>2, <2>4, <2>5, <2>6 DEF TickOK, Steady
<1> QED BY <1>1, <1>4 DEF TicksOK, Steady

LEMMA UnansweredTicks ==
    ASSUME Shape, TicksOK, Unanswered
    PROVE  TicksOK'
<1>1. PICK q : q = cmds[1]
  OBVIOUS
<1>2. /\ q.to \in site /\ scan = "none" /\ failed' = [failed EXCEPT ![q.to] = @ + 1]
      /\ Charged(q.charge) /\ cmds # <<>>
  BY <1>1, UnansweredIs
<1>3. IsCmd(site, ModeOf, q)
  BY <1>1, <1>2, HeadCmd
<1>4. q.charge = q.to \/ (q.to = "panel" /\ q.charge = "switch")
  BY <1>2, <1>3 DEF IsCmd
<1>5. Shape' /\ Steady /\ used'["tick"] = used["tick"]
  BY UnansweredShape
<1>6. failed \in [site -> Nat] /\ DOMAIN ram = site
  BY DEF Shape, DevicesOK, RecordsOK
<1>7. /\ \A t \in site : failed'[t] = IF t = q.to THEN failed[t] + 1 ELSE failed[t]
  BY <1>2, <1>6
<1>8. ASSUME NEW t \in site PROVE TickOK(t)'
  <2>1. TickOK(t) /\ RecordOK(t) /\ t \in DevTypes /\ t # "none"
    BY SiteTypes DEF TicksOK, Shape, DevicesOK, RecordsOK, DevTypes
  <2>2. Charges(t)' \in Int /\ Charges(t) \in Int /\ Charges(t)' >= Charges(t)
        /\ (t = q.charge => Charges(t)' = Charges(t) + 1 \/ Charges(t)' >= Charges(t) + 1)
    <3>1. site' = site
      BY <1>5 DEF Steady
    <3>2. failed[t] \in Nat /\ ("panel" \in site => failed["panel"] \in Nat)
      BY <1>6
    <3>3. failed'[t] = IF t = q.to THEN failed[t] + 1 ELSE failed[t]
      BY <1>7
    <3>4. "panel" \in site => failed'["panel"] = IF q.to = "panel" THEN failed["panel"] + 1 ELSE failed["panel"]
      BY <1>7
    <3> QED BY <1>2, <1>4, <3>1, <3>2, <3>3, <3>4 DEF Charges
  <2>3. CASE t = q.charge
    <3>1. PICK tick : tick = ram[t]["at_err_tick"] + 1
      OBVIOUS
    <3>2. PICK vals : vals = [at_err_tick |-> tick]
      OBVIOUS
    <3>3. Written(t, vals) /\ scan' = IF tick >= ScanLimit THEN t ELSE "none"
      BY <1>2, <2>3, <3>1, <3>2 DEF Charged
    <3>4. DOMAIN vals = {"at_err_tick"} /\ vals["at_err_tick"] = tick
      BY <3>2
    <3>5. "reachable" \in DOMAIN ram[t]
      BY <2>1, KeptFields DEF RecordOK
    <3>6. ram'[t]["at_err_tick"] = tick /\ ram'[t]["reachable"] = ram[t]["reachable"]
      BY <3>3, <3>4, <3>5 DEF Written
    <3>7. Add(t, ModeOf[t])'.reachable = Add(t, ModeOf[t]).reachable
      BY <1>5 DEF Steady
    <3> QED BY <1>5, <2>1, <2>2, <2>3, <3>1, <3>3, <3>6, <3>7, TickTypes DEF TickOK
  <2>4. CASE t # q.charge
    <3>1. ram'[t] = ram[t]
      BY <1>2, <1>6, <2>4 DEF Charged, Written
    <3>2. scan' # t
      BY <1>2, <2>1, <2>4 DEF Charged
    <3>3. Add(t, ModeOf[t])'.reachable = Add(t, ModeOf[t]).reachable
      BY <1>5 DEF Steady
    <3> QED BY <1>5, <2>1, <2>2, <3>1, <3>2, <3>3, TickTypes DEF TickOK
  <2> QED BY <2>3, <2>4
<1> QED BY <1>5, <1>8 DEF TicksOK, Steady

LEMMA NextTicks ==
    ASSUME Shape, TicksOK, [Next]_vars
    PROVE  TicksOK'
<1>1. Shape' /\ Steady
  BY NextShape
<1>2. used'["tick"] = used["tick"]
  BY UsedTick
<1>3. CASE Calm
  BY <1>1, <1>2, <1>3, CalmTicks
<1>4. CASE UNCHANGED vars
  BY <1>3, <1>4, SameCalm DEF vars
<1> QED BY <1>3, <1>4, CallersCalm, EventsCalm, GiveUpTicks, UnansweredTicks DEF Next

LEMMA TicksMean == ASSUME Shape, TicksOK PROVE GivenUpForItsOwn
<1>1. ASSUME NEW t \in site, ram[t].reachable < Add(t, Mode(t)).reachable
      PROVE  used.tick + failed[t]
                + (IF t = "switch" /\ "panel" \in site THEN failed["panel"] ELSE 0)
             >= ScanLimit
  <2>1. TickOK(t) /\ ModeOf[t] = Mode(t)
    BY DEF TicksOK, ModeOf
  <2>2. failed \in [site -> Nat]
    BY DEF Shape, DevicesOK
  <2>3. ram[t]["at_err_tick"] >= ScanLimit /\ ram[t]["at_err_tick"] <= used["tick"] + Charges(t)
    BY <1>1, <2>1 DEF TickOK
  <2>4. used["tick"] + Charges(t) >= ScanLimit
    BY <2>3, TickTypes
  <2> QED BY <2>2, <2>4, TickTypes DEF Charges
<1> QED BY <1>1 DEF GivenUpForItsOwn

-----------------------------------------------------------------------------
(* Counts of sensors. *)

Counting == {"bin_sensor", "occ_sensor"}

\* The event is that t goes on or off.
IsOn(t, e) == e.ep = t /\ e.field = "on"

Doing(t) == upd.pc \in {"compare", "put"} /\ upd.type = t /\ upd.field = "on"
From1(t) == IF Doing(t) THEN upd.val ELSE ram[t]["on"]
Count1(t) == IF Doing(t) /\ upd.val # 0 THEN ram[t]["count"] + 1 ELSE ram[t]["count"]

\* q is what t is taken to be before each of the n events es and after the last,
\* and r how often it will have been counted: from a and b to x and y.
Rising(t, es, n, a, b, x, y, q, r) ==
    /\ q \in [1..(n + 1) -> Values] /\ r \in [1..(n + 1) -> Nat]
    /\ q[1] = a /\ r[1] = b
    /\ \A k \in 1..n :
        IF IsOn(t, es[k])
        THEN /\ q[k + 1] = es[k].val
             /\ es[k].val # 0 => q[k] = 0
             /\ r[k + 1] = IF es[k].val # 0 THEN r[k] + 1 ELSE r[k]
        ELSE q[k + 1] = q[k] /\ r[k + 1] = r[k]
    /\ x = 0 => q[n + 1] = 0
    /\ r[n + 1] = y

RisesTo(t, es, n, a, b, x, y) == \E q, r : Rising(t, es, n, a, b, x, y, q, r)

\* An event is added.
LEMMA RiseAdd ==
    ASSUME NEW t, NEW es, NEW n \in Nat, NEW a, NEW b, NEW x, NEW y \in Nat,
           RisesTo(t, es, n, a, b, x, y),
           NEW fs, \A k \in 1..n : fs[k] = es[k], NEW z \in Values, NEW w \in Nat,
           IF IsOn(t, fs[n + 1])
           THEN /\ z = fs[n + 1].val /\ (z # 0 => x = 0)
                /\ w = IF z # 0 THEN y + 1 ELSE y
           ELSE (z = 0 => x = 0) /\ w = y
    PROVE  RisesTo(t, fs, n + 1, a, b, z, w)
<1>1. PICK q, r : Rising(t, es, n, a, b, x, y, q, r)
  BY DEF RisesTo
<1>2. /\ q \in [1..(n + 1) -> Values] /\ r \in [1..(n + 1) -> Nat] /\ q[1] = a /\ r[1] = b
      /\ x = 0 => q[n + 1] = 0
      /\ r[n + 1] = y
  BY <1>1 DEF Rising
<1>3. PICK on \in BOOLEAN : on = IsOn(t, fs[n + 1])
  BY DEF IsOn
<1>4. PICK q1 : q1 = [k \in 1..(n + 2) |-> IF k = n + 2 THEN (IF on THEN z ELSE q[n + 1]) ELSE q[k]]
  OBVIOUS
<1>5. PICK r1 : r1 = [k \in 1..(n + 2) |-> IF k = n + 2 THEN w ELSE r[k]]
  OBVIOUS
<1>6. q1 \in [1..(n + 2) -> Values] /\ r1 \in [1..(n + 2) -> Nat]
  BY <1>2, <1>4, <1>5
<1>7. \A k \in 1..(n + 1) : q1[k] = q[k] /\ r1[k] = r[k]
  BY <1>4, <1>5
<1>8. q1[n + 2] = (IF on THEN z ELSE q[n + 1]) /\ r1[n + 2] = w
  BY <1>4, <1>5
<1>9. \A k \in 1..n :
        IF IsOn(t, fs[k])
        THEN /\ q1[k + 1] = fs[k].val
             /\ fs[k].val # 0 => q1[k] = 0
             /\ r1[k + 1] = IF fs[k].val # 0 THEN r1[k] + 1 ELSE r1[k]
        ELSE q1[k + 1] = q1[k] /\ r1[k + 1] = r1[k]
  <2> TAKE k \in 1..n
  <2>1. /\ fs[k] = es[k] /\ q1[k] = q[k] /\ q1[k + 1] = q[k + 1]
        /\ r1[k] = r[k] /\ r1[k + 1] = r[k + 1]
    BY <1>7
  <2>2. IF IsOn(t, es[k])
        THEN /\ q[k + 1] = es[k].val
             /\ es[k].val # 0 => q[k] = 0
             /\ r[k + 1] = IF es[k].val # 0 THEN r[k] + 1 ELSE r[k]
        ELSE q[k + 1] = q[k] /\ r[k + 1] = r[k]
    BY <1>1 DEF Rising
  <2> QED BY <2>1, <2>2
<1>10. q1[n + 1] = q[n + 1] /\ r1[n + 1] = r[n + 1] /\ (n + 1) + 1 = n + 2
  BY <1>7
<1>11. IF IsOn(t, fs[n + 1])
       THEN /\ q1[n + 2] = fs[n + 1].val
            /\ fs[n + 1].val # 0 => q1[n + 1] = 0
            /\ r1[n + 2] = IF fs[n + 1].val # 0 THEN r1[n + 1] + 1 ELSE r1[n + 1]
       ELSE q1[n + 2] = q1[n + 1] /\ r1[n + 2] = r1[n + 1]
  BY <1>2, <1>3, <1>8, <1>10
<1>12. z = 0 => q1[n + 2] = 0
  BY <1>2, <1>3, <1>8
<1>13. \A k \in 1..(n + 1) :
        IF IsOn(t, fs[k])
        THEN /\ q1[k + 1] = fs[k].val
             /\ fs[k].val # 0 => q1[k] = 0
             /\ r1[k + 1] = IF fs[k].val # 0 THEN r1[k] + 1 ELSE r1[k]
        ELSE q1[k + 1] = q1[k] /\ r1[k + 1] = r1[k]
  <2> TAKE k \in 1..(n + 1)
  <2>1. CASE k \in 1..n
    BY <1>9, <2>1
  <2>2. CASE k = n + 1
    BY <1>10, <1>11, <2>2
  <2> QED BY <2>1, <2>2
<1>14. q1[1] = a /\ r1[1] = b
  BY <1>2, <1>7
<1>15. Rising(t, fs, n + 1, a, b, z, w, q1, r1)
  BY <1>6, <1>8, <1>10, <1>12, <1>13, <1>14 DEF Rising
<1> QED BY <1>15 DEF RisesTo

\* Events of others are added.
LEMMA RiseMore ==
    ASSUME NEW t, NEW es, NEW n \in Nat, NEW a, NEW b, NEW x, NEW y,
           RisesTo(t, es, n, a, b, x, y),
           NEW fs, \A k \in 1..n : fs[k] = es[k], NEW m \in Nat,
           \A k \in 1..m : ~IsOn(t, fs[n + k])
    PROVE  RisesTo(t, fs, n + m, a, b, x, y)
<1>1. PICK q, r : Rising(t, es, n, a, b, x, y, q, r)
  BY DEF RisesTo
<1>2. /\ q \in [1..(n + 1) -> Values] /\ r \in [1..(n + 1) -> Nat] /\ q[1] = a /\ r[1] = b
      /\ x = 0 => q[n + 1] = 0
      /\ r[n + 1] = y
  BY <1>1 DEF Rising
<1>3. PICK q1 : q1 = [k \in 1..(n + m + 1) |-> IF k <= n THEN q[k] ELSE q[n + 1]]
  OBVIOUS
<1>4. PICK r1 : r1 = [k \in 1..(n + m + 1) |-> IF k <= n THEN r[k] ELSE r[n + 1]]
  OBVIOUS
<1>5. q1 \in [1..(n + m + 1) -> Values] /\ r1 \in [1..(n + m + 1) -> Nat]
  BY <1>2, <1>3, <1>4
<1>6. \A k \in 1..(n + 1) : q1[k] = q[k] /\ r1[k] = r[k]
  BY <1>3, <1>4
<1>7. \A k \in (n + 1)..(n + m + 1) : q1[k] = q[n + 1] /\ r1[k] = r[n + 1]
  BY <1>3, <1>4
<1>8. \A k \in 1..(n + m) :
        IF IsOn(t, fs[k])
        THEN /\ q1[k + 1] = fs[k].val
             /\ fs[k].val # 0 => q1[k] = 0
             /\ r1[k + 1] = IF fs[k].val # 0 THEN r1[k] + 1 ELSE r1[k]
        ELSE q1[k + 1] = q1[k] /\ r1[k + 1] = r1[k]
  <2> TAKE k \in 1..(n + m)
  <2>1. CASE k \in 1..n
    <3>1. /\ fs[k] = es[k] /\ q1[k] = q[k] /\ q1[k + 1] = q[k + 1]
          /\ r1[k] = r[k] /\ r1[k + 1] = r[k + 1]
      BY <1>6, <2>1
    <3>2. IF IsOn(t, es[k])
          THEN /\ q[k + 1] = es[k].val
               /\ es[k].val # 0 => q[k] = 0
               /\ r[k + 1] = IF es[k].val # 0 THEN r[k] + 1 ELSE r[k]
          ELSE q[k + 1] = q[k] /\ r[k + 1] = r[k]
      BY <1>1, <2>1 DEF Rising
    <3> QED BY <3>1, <3>2
  <2>2. CASE k \notin 1..n
    <3>1. k - n \in 1..m /\ n + (k - n) = k
      BY <2>2
    <3>2. ~IsOn(t, fs[k])
      BY <3>1
    <3>3. k \in (n + 1)..(n + m + 1) /\ k + 1 \in (n + 1)..(n + m + 1)
      BY <2>2
    <3> QED BY <1>7, <3>2, <3>3
  <2> QED BY <2>1, <2>2
<1>9. q1[1] = a /\ r1[1] = b
  BY <1>2, <1>6
<1>10. q1[n + m + 1] = q[n + 1] /\ r1[n + m + 1] = r[n + 1]
  BY <1>7
<1>11. Rising(t, fs, n + m, a, b, x, y, q1, r1)
  BY <1>2, <1>5, <1>8, <1>9, <1>10 DEF Rising
<1> QED BY <1>11 DEF RisesTo

\* The first is taken.
LEMMA RiseTake ==
    ASSUME NEW t, NEW es, NEW n \in Nat \ {0}, NEW a, NEW b \in Nat, NEW x, NEW y,
           RisesTo(t, es, n, a, b, x, y),
           NEW fs, \A k \in 1..(n - 1) : fs[k] = es[k + 1]
    PROVE  /\ IsOn(t, es[1]) /\ es[1].val # 0 => a = 0
           /\ RisesTo(t, fs, n - 1,
                IF IsOn(t, es[1]) THEN es[1].val ELSE a,
                IF IsOn(t, es[1]) /\ es[1].val # 0 THEN b + 1 ELSE b, x, y)
<1>1. PICK q, r : Rising(t, es, n, a, b, x, y, q, r)
  BY DEF RisesTo
<1>2. /\ q \in [1..(n + 1) -> Values] /\ r \in [1..(n + 1) -> Nat] /\ q[1] = a /\ r[1] = b
      /\ x = 0 => q[n + 1] = 0
      /\ r[n + 1] = y
  BY <1>1 DEF Rising
<1>3. \A k \in 1..n :
        IF IsOn(t, es[k])
        THEN /\ q[k + 1] = es[k].val
             /\ es[k].val # 0 => q[k] = 0
             /\ r[k + 1] = IF es[k].val # 0 THEN r[k] + 1 ELSE r[k]
        ELSE q[k + 1] = q[k] /\ r[k + 1] = r[k]
  BY <1>1 DEF Rising
<1>4. PICK q1 : q1 = [k \in 1..n |-> q[k + 1]]
  OBVIOUS
<1>5. PICK r1 : r1 = [k \in 1..n |-> r[k + 1]]
  OBVIOUS
<1>6. q1 \in [1..n -> Values] /\ r1 \in [1..n -> Nat] /\ (n - 1) + 1 = n
  BY <1>2, <1>4, <1>5
<1>7. q1[1] = q[2] /\ r1[1] = r[2] /\ q1[n] = q[n + 1] /\ r1[n] = r[n + 1]
  BY <1>4, <1>5
<1>8. 1 \in 1..n /\ 1 + 1 = 2
  OBVIOUS
<1>9. IF IsOn(t, es[1])
      THEN /\ q[2] = es[1].val
           /\ es[1].val # 0 => q[1] = 0
           /\ r[2] = IF es[1].val # 0 THEN r[1] + 1 ELSE r[1]
      ELSE q[2] = q[1] /\ r[2] = r[1]
  BY <1>3, <1>8
<1>10. \A k \in 1..(n - 1) :
        IF IsOn(t, fs[k])
        THEN /\ q1[k + 1] = fs[k].val
             /\ fs[k].val # 0 => q1[k] = 0
             /\ r1[k + 1] = IF fs[k].val # 0 THEN r1[k] + 1 ELSE r1[k]
        ELSE q1[k + 1] = q1[k] /\ r1[k + 1] = r1[k]
  <2> TAKE k \in 1..(n - 1)
  <2>1. PICK l : l = k + 1
    OBVIOUS
  <2>2. l \in 1..n /\ fs[k] = es[l] /\ q1[k] = q[l] /\ q1[k + 1] = q[l + 1]
        /\ r1[k] = r[l] /\ r1[k + 1] = r[l + 1]
    BY <1>4, <1>5, <2>1
  <2>3. IF IsOn(t, es[l])
        THEN /\ q[l + 1] = es[l].val
             /\ es[l].val # 0 => q[l] = 0
             /\ r[l + 1] = IF es[l].val # 0 THEN r[l] + 1 ELSE r[l]
        ELSE q[l + 1] = q[l] /\ r[l + 1] = r[l]
    BY <1>3, <2>2
  <2> QED BY <2>2, <2>3
<1>11. PICK a1 : a1 = IF IsOn(t, es[1]) THEN es[1].val ELSE a
  OBVIOUS
<1>12. PICK b1 : b1 = IF IsOn(t, es[1]) /\ es[1].val # 0 THEN b + 1 ELSE b
  OBVIOUS
<1>13. q1[1] = a1 /\ r1[1] = b1
  BY <1>2, <1>7, <1>9, <1>11, <1>12
<1>14. Rising(t, fs, n - 1, a1, b1, x, y, q1, r1)
  BY <1>2, <1>6, <1>7, <1>10, <1>13 DEF Rising
<1>15. RisesTo(t, fs, n - 1, a1, b1, x, y)
  BY <1>14 DEF RisesTo
<1> QED BY <1>2, <1>9, <1>11, <1>12, <1>15

\* An event that t is on comes only after it was taken to be off, and in the end
\* as many will have been counted as there were.
RiseOK(t) ==
    /\ phys[t]["on"] \in {0, 1}
    /\ Doing(t) /\ upd.val # 0 => ram[t]["on"] = 0
    /\ RisesTo(t, events, Len(events), From1(t), Count1(t), phys[t]["on"], rises[t])
RisesOK == \A t \in site \cap Counting : RiseOK(t)

LEMMA SensorFacts ==
    ASSUME Shape, NEW t \in site \cap Counting
    PROVE  /\ t \in DevTypes /\ t \in Sensors /\ Endpoint(t) = t /\ t # "sonos"
           /\ "on" \in Fields(t) /\ "count" \in OnRecord(t)
           /\ "on" \in DOMAIN ram[t] /\ "count" \in DOMAIN ram[t]
           /\ ram[t]["on"] \in Values /\ ram[t]["count"] \in Nat
           /\ Count1(t) \in Nat /\ rises[t] \in Nat
           /\ phys[t]["on"] \in Values /\ At(t, "on") = phys[t]["on"]
           /\ \A u \in DevTypes : Endpoint(u) = t => u = t
<1>1. t \in DevTypes /\ t \in Sensors /\ Endpoint(t) = t /\ t # "sonos"
  BY DEF Counting, DevTypes, Sensors, Endpoint
<1>2. "on" \in Fields(t)
  BY FieldsAre DEF Counting
<1>3. "count" \in OnRecord(t)
  BY SensorRecords DEF Counting, OnRecord, BinSensorFields, OccSensorFields
<1>4. RecordOK(t) /\ phys[t] \in [Fields(t) -> Values] /\ rises \in [site -> Nat]
  BY DEF Shape, DevicesOK, RecordsOK, StatesOf
<1>5. Fields(t) \subseteq OnRecord(t)
  BY DEF Fields, OnRecord
<1>6. At(t, "on") = phys[t]["on"]
  BY DEF At
<1>7. \A u \in DevTypes : Endpoint(u) = t => u = t
  BY DEF Counting, Endpoint
<1>8. /\ "on" \in DOMAIN ram[t] /\ "count" \in DOMAIN ram[t]
      /\ ram[t]["on"] \in Values /\ ram[t]["count"] \in Nat
      /\ phys[t]["on"] \in Values /\ rises[t] \in Nat
  BY <1>2, <1>3, <1>4, <1>5 DEF RecordOK
<1>9. Count1(t) \in Nat
  BY <1>8 DEF Count1
<1> QED BY <1>1, <1>2, <1>3, <1>6, <1>7, <1>8, <1>9

LEMMA SensorHeard ==
    ASSUME Shape, NEW t \in site \cap Counting
    PROVE  /\ Receivers(Cluster(t, "on"), t) = {t} /\ Tells(t, "on")
<1>1. CASE t = "bin_sensor"
  <2>1. Cluster(t, "on") = "bin" /\ Endpoint(t) = t
    BY <1>1 DEF Cluster, Endpoint
  <2>2. "bin" \in DOMAIN SearchOrder /\ SearchOrder["bin"] = <<"bin_sensor">>
    BY DEF SearchOrder
  <2>3. PICK order : order = SearchOrder["bin"]
    OBVIOUS
  <2>4. DOMAIN order = {1} /\ order[1] = t
    BY <1>1, <2>2, <2>3
  <2>5. Receivers("bin", t) = {order[i] : i \in {k \in {1} : TRUE}}
    <3>1. {i \in DOMAIN order : order[i] \in site /\ Endpoint(order[i]) = t} = {1}
      BY <2>1, <2>4
    <3>2. {k \in {1} : \A l \in {1} : k <= l} = {k \in {1} : TRUE}
      OBVIOUS
    <3> QED BY <2>2, <2>3, <3>1, <3>2 DEF Receivers
  <2>6. {order[i] : i \in {k \in {1} : TRUE}} = {t}
    BY <2>4
  <2>7. Tells(t, "on")
    BY <1>1, <2>1 DEF Tells, Bound, BinSensorBound
  <2> QED BY <2>1, <2>5, <2>6, <2>7
<1>2. CASE t = "occ_sensor"
  <2>1. Cluster(t, "on") = "occ" /\ Endpoint(t) = t
    BY <1>2 DEF Cluster, Endpoint
  <2>2. "occ" \in DOMAIN SearchOrder /\ SearchOrder["occ"] = <<"occ_sensor">>
    BY DEF SearchOrder
  <2>3. PICK order : order = SearchOrder["occ"]
    OBVIOUS
  <2>4. DOMAIN order = {1} /\ order[1] = t
    BY <1>2, <2>2, <2>3
  <2>5. Receivers("occ", t) = {order[i] : i \in {k \in {1} : TRUE}}
    <3>1. {i \in DOMAIN order : order[i] \in site /\ Endpoint(order[i]) = t} = {1}
      BY <2>1, <2>4
    <3>2. {k \in {1} : \A l \in {1} : k <= l} = {k \in {1} : TRUE}
      OBVIOUS
    <3> QED BY <2>2, <2>3, <3>1, <3>2 DEF Receivers
  <2>6. {order[i] : i \in {k \in {1} : TRUE}} = {t}
    BY <2>4
  <2>7. Tells(t, "on")
    BY <1>2, <2>1 DEF Tells, Bound, OccSensorBound
  <2> QED BY <2>1, <2>5, <2>6, <2>7
<1> QED BY <1>1, <1>2 DEF Counting

\* What an event of t that it is on is like.
LEMMA OnEvent ==
    ASSUME Shape, NEW t \in site \cap Counting, NEW e, IsEvent(site, e), IsOn(t, e)
    PROVE  Receiver(e) = {t} /\ e.val \in Values /\ e.ep # "sonos"
<1>1. PICK u \in site, v \in Values : \E f \in Fields(u) :
        e = [cluster |-> Cluster(u, f), ep |-> Endpoint(u), field |-> f, val |-> v]
  BY DEF IsEvent
<1>2. PICK f \in Fields(u) :
        e = [cluster |-> Cluster(u, f), ep |-> Endpoint(u), field |-> f, val |-> v]
  BY <1>1
<1>3. e.cluster = Cluster(u, f) /\ e.ep = Endpoint(u) /\ e.field = f /\ e.val = v
  BY <1>2
<1>4. f = "on" /\ Endpoint(u) = t /\ u = t
  BY <1>3, SensorFacts, SiteTypes DEF IsOn, Shape
<1> QED BY <1>3, <1>4, SensorFacts, SensorHeard DEF Receiver

\* Nothing happens to t.
LEMMA RiseKept ==
    ASSUME NEW t, RiseOK(t), UNCHANGED <<events, upd>>,
           ram'[t]["on"] = ram[t]["on"], ram'[t]["count"] = ram[t]["count"],
           phys'[t]["on"] = phys[t]["on"], rises'[t] = rises[t]
    PROVE  RiseOK(t)'
BY DEF RiseOK, Doing, From1, Count1

\* Events are added to those there are.
LEMMA JoinedEvents ==
    ASSUME Shape, NEW n, n \in Nat, NEW A, NEW q, q \in [1..n -> A], NEW s, s = events \o q
    PROVE  /\ Len(events) \in Nat /\ Len(s) = Len(events) + n
           /\ \A k \in 1..Len(events) : s[k] = events[k]
           /\ \A k \in 1..n : s[Len(events) + k] = q[k]
<1>1. IsSeq(events)
  BY DEF Shape, EventsOK
<1>2. ASSUME NEW x, IsSeq(x)
      PROVE  /\ Len(x) \in Nat /\ Len(x \o q) = Len(x) + n
             /\ \A k \in 1..Len(x) : (x \o q)[k] = x[k]
             /\ \A k \in 1..n : (x \o q)[Len(x) + k] = q[k]
  <2>1. Len(x) \in Nat /\ Len(x \o q) = Len(x) + n
    BY <1>2, JoinIs
  <2>2. \A k \in 1..Len(x) : (x \o q)[k] = x[k]
    BY <1>2, JoinIs
  <2>3. \A k \in 1..n : (x \o q)[Len(x) + k] = q[k]
    BY <1>2, JoinIs
  <2> QED BY <2>1, <2>2, <2>3
<1>3. /\ Len(events) \in Nat /\ Len(events \o q) = Len(events) + n
      /\ \A k \in 1..Len(events) : (events \o q)[k] = events[k]
      /\ \A k \in 1..n : (events \o q)[Len(events) + k] = q[k]
  BY <1>1, <1>2, Zenon
<1> QED BY <1>3, Zenon

\* Another device does something, or t something else.
LEMMA RiseOthers ==
    ASSUME Shape, Steady, NEW t \in site \cap Counting, RiseOK(t), NEW u \in site, NEW vals,
           Became(u, vals), u # t \/ "on" \notin DOMAIN vals,
           upd' = upd, rises'[t] = rises[t],
           ram'[t]["on"] = ram[t]["on"], ram'[t]["count"] = ram[t]["count"]
    PROVE  RiseOK(t)'
<1>1. phys'[t]["on"] = phys[t]["on"]
  <2>1. t \notin Sharing(u, "on") \/ "on" \notin DOMAIN vals
    BY DEF Sharing
  <2>2. At(t, "on")' = At(t, "on")
    BY <2>1, SensorFacts DEF Became
  <2>3. At(t, "on")' = phys'[t]["on"]
    BY DEF At
  <2> QED BY <2>2, <2>3, SensorFacts
<1>2. PICK n \in Nat : \E q \in [1..n -> Said(u, vals)] : events' = events \o q
  BY DEF Became
<1>3. PICK q \in [1..n -> Said(u, vals)] : events' = events \o q
  BY <1>2
<1>4. PICK A : A = Said(u, vals)
  OBVIOUS
<1>5. IsSeq(events) /\ q \in [1..n -> A]
  BY <1>3, <1>4 DEF Shape, EventsOK
<1>6. PICK s : s = events'
  OBVIOUS
<1>7. /\ Len(events) \in Nat /\ Len(s) = Len(events) + n
      /\ \A k \in 1..Len(events) : s[k] = events[k]
      /\ \A k \in 1..n : s[Len(events) + k] = q[k]
  BY <1>3, <1>4, <1>6, JoinedEvents
<1>8. \A e \in A : ~IsOn(t, e)
  <2> TAKE e \in A
  <2>1. PICK f \in DOMAIN vals \cap Fields(u) :
            e = [cluster |-> Cluster(u, f), ep |-> Endpoint(u), field |-> f, val |-> vals[f]]
    BY <1>4 DEF Said
  <2>2. e.ep = Endpoint(u) /\ e.field = f
    BY <2>1
  <2>3. u \in DevTypes
    BY SiteTypes DEF Shape
  <2> QED BY <2>2, <2>3, SensorFacts DEF IsOn
<1>9. \A k \in 1..n : ~IsOn(t, s[Len(events) + k])
  BY <1>5, <1>7, <1>8
<1>10. RisesTo(t, events, Len(events), From1(t), Count1(t), phys[t]["on"], rises[t])
  BY DEF RiseOK
<1>11. RisesTo(t, s, Len(s), From1(t), Count1(t), phys[t]["on"], rises[t])
  <2>1. PICK es, l, a, b, x, y : es = events /\ l = Len(events) /\ a = From1(t)
            /\ b = Count1(t) /\ x = phys[t]["on"] /\ y = rises[t]
    OBVIOUS
  <2>2. l \in Nat /\ (\A k \in 1..l : s[k] = es[k]) /\ (\A k \in 1..n : ~IsOn(t, s[l + k]))
    BY <1>7, <1>9, <2>1
  <2>3. RisesTo(t, es, l, a, b, x, y)
    BY <1>10, <2>1
  <2>4. RisesTo(t, s, l + n, a, b, x, y)
    BY <2>2, <2>3, RiseMore
  <2> QED BY <1>7, <2>1, <2>4
<1>12. From1(t)' = From1(t) /\ Count1(t)' = Count1(t)
  BY DEF From1, Count1, Doing
<1>13. /\ Doing(t)' /\ upd'.val # 0 => ram'[t]["on"] = 0
       /\ phys[t]["on"] \in {0, 1}
  BY DEF Doing, RiseOK
<1> QED BY <1>1, <1>6, <1>11, <1>12, <1>13 DEF RiseOK

\* Writing something else.
LEMMA RiseWritten ==
    ASSUME Shape, NEW t \in site \cap Counting, NEW u \in site, NEW vals, Written(u, vals),
           u # t \/ ("on" \notin DOMAIN vals /\ "count" \notin DOMAIN vals)
    PROVE  ram'[t]["on"] = ram[t]["on"] /\ ram'[t]["count"] = ram[t]["count"]
<1>1. DOMAIN ram = site
  BY DEF Shape, DevicesOK, RecordsOK
<1> QED BY <1>1, SensorFacts DEF Written

LEMMA InitRises == Init => RisesOK
<1> SUFFICES ASSUME Init, NEW t \in site \cap Counting PROVE RiseOK(t)
  BY DEF RisesOK
<1>1. Shape
  BY InitShape
<1>2. PICK m \in Sites, rubbish \in {ScanLimit - 2, ScanLimit - 1} :
        /\ site = DOMAIN m
        /\ ram = [u \in site |->
                    Over([at_err_tick |-> rubbish, reachable |-> Add(u, m[u]).reachable],
                         Default(u, m[u]))]
  BY DEF Init
<1>3. t \in DevTypes /\ "count" \in OnRecord(t) /\ "on" \in Fields(t)
  BY <1>1, SensorFacts
<1>4. PICK A : A = [at_err_tick |-> rubbish, reachable |-> Add(t, m[t]).reachable]
  OBVIOUS
<1>5. PICK D : D = Default(t, m[t])
  OBVIOUS
<1>6. D["count"] = 0 /\ D["on"] = 0 /\ DOMAIN D = OnRecord(t)
  BY <1>3, <1>5, Starts, RecordFields DEF StartOK
<1>7. ram[t] = Over(A, D)
  BY <1>2, <1>4, <1>5
<1>8. DOMAIN A = {"at_err_tick", "reachable"}
  BY <1>4
<1>9. "on" \in DOMAIN D
  BY <1>3, <1>6 DEF Fields, OnRecord
<1>10. ram[t]["count"] = 0 /\ ram[t]["on"] = 0
  BY <1>3, <1>6, <1>7, <1>8, <1>9 DEF Over
<1>11. events = <<>> /\ upd.pc = "idle" /\ rises[t] = 0
  BY DEF Init
<1>12. ~Doing(t) /\ From1(t) = 0 /\ Count1(t) = 0
  BY <1>10, <1>11 DEF Doing, From1, Count1
<1>13. Len(events) = 0
  BY <1>11
<1>14. PICK q : q = [k \in 1..1 |-> 0]
  OBVIOUS
<1>15. q[1] = 0 /\ q \in [1..(0 + 1) -> Values] /\ q \in [1..(0 + 1) -> Nat]
  BY <1>14 DEF Values
<1>16. \A es, x : Rising(t, es, 0, 0, 0, x, 0, q, q)
  BY <1>15 DEF Rising
<1>17. RisesTo(t, events, Len(events), From1(t), Count1(t), phys[t]["on"], rises[t])
  BY <1>11, <1>12, <1>13, <1>16 DEF RisesTo
<1>18. phys[t]["on"] \in {0, 1}
  <2>1. PICK other \in BOOLEAN :
        phys = [u \in site |-> [f \in Fields(u) |->
                    IF other THEN 1 - Limited(ram[u][f]) ELSE ram[u][f]]]
    BY DEF Init
  <2>2. phys[t] = [f \in Fields(t) |-> IF other THEN 1 - Limited(ram[t][f]) ELSE ram[t][f]]
    BY <2>1
  <2>3. phys[t]["on"] = IF other THEN 1 - Limited(0) ELSE 0
    BY <1>3, <1>10, <2>2
  <2> QED BY <2>3 DEF Limited
<1> QED BY <1>12, <1>17, <1>18 DEF RiseOK

LEMMA StillRises ==
    ASSUME RisesOK, UNCHANGED <<site, ram, events, upd, phys, rises>>
    PROVE  RisesOK'
<1> SUFFICES ASSUME NEW t \in site \cap Counting PROVE RiseOK(t)'
  BY DEF RisesOK
<1> QED BY RiseKept DEF RisesOK

\* Records are written, but not of sensors.
LEMMA WrittenRises ==
    ASSUME Shape, RisesOK, NEW u \in site, NEW vals, Written(u, vals),
           u \notin Counting \/ ("on" \notin DOMAIN vals /\ "count" \notin DOMAIN vals),
           UNCHANGED <<site, events, upd, phys, rises>>
    PROVE  RisesOK'
<1> SUFFICES ASSUME NEW t \in site \cap Counting PROVE RiseOK(t)'
  BY DEF RisesOK
<1>1. ram'[t]["on"] = ram[t]["on"] /\ ram'[t]["count"] = ram[t]["count"]
  BY RiseWritten
<1> QED BY <1>1, RiseKept DEF RisesOK

\* Another device does something.
LEMMA OthersRise ==
    ASSUME Shape, RisesOK, Steady, NEW u \in site \ Counting, NEW vals, Became(u, vals),
           UNCHANGED <<ram, upd, rises>>
    PROVE  RisesOK'
<1> SUFFICES ASSUME NEW t \in site \cap Counting PROVE RiseOK(t)'
  BY DEF RisesOK, Steady
<1> QED BY RiseOthers DEF RisesOK

LEMMA CallersRise ==
    ASSUME Shape, RisesOK, NEW c \in Callers,
           Begin(c) \/ Queue(c) \/ WriteRecord(c) \/ Drive(c) \/ ReportSet(c) \/ SetChangeRpt(c)
    PROVE  RisesOK'
<1>1. CASE Begin(c) \/ Queue(c) \/ ReportSet(c)
  <2>1. UNCHANGED <<site, ram, events, upd, phys, rises>>
    BY <1>1, Zenon DEF Begin, Queue, ReportSet
  <2> QED BY <2>1, StillRises
<1>2. CASE WriteRecord(c)
  <2>1. /\ job[c].type \in site /\ Written(job[c].type, Recorded(c))
        /\ job[c].pc # "idle" /\ UNCHANGED <<site, events, upd, phys, rises>>
    BY <1>2, WriteRecordJob, Zenon DEF WriteRecord
  <2>2. job[c].type \notin Counting
    BY <2>1, JobSetter DEF SetterOK, Sensors, Counting
  <2> QED BY <2>1, <2>2, WrittenRises
<1>3. CASE SetChangeRpt(c)
  <2>1. Rewritten /\ UNCHANGED <<site, events, upd, phys, rises>>
    BY <1>3, SetChangeRptShape DEF SetChangeRpt
  <2> SUFFICES ASSUME NEW t \in site \cap Counting PROVE RiseOK(t)'
    BY <2>1 DEF RisesOK
  <2>2. ram'[t]["on"] = ram[t]["on"] /\ ram'[t]["count"] = ram[t]["count"]
    BY <2>1, SensorFacts DEF Rewritten
  <2> QED BY <2>1, <2>2, RiseKept DEF RisesOK
<1>4. CASE Drive(c)
  <2>1. UNCHANGED <<site, ram, upd, rises>> /\ "sonos" \in site \ Counting /\ Steady
    BY <1>4, DriveJob, DriveShape DEF Drive, Counting
  <2>2. Became("sonos", Command(c)) \/ UNCHANGED <<phys, events>>
    BY <1>4, DriveJob
  <2>3. CASE Became("sonos", Command(c))
    BY <2>1, <2>3, OthersRise
  <2>4. CASE UNCHANGED <<phys, events>>
    BY <2>1, <2>4, StillRises
  <2> QED BY <2>2, <2>3, <2>4
<1> QED BY <1>1, <1>2, <1>3, <1>4

LEMMA CommandsRise ==
    ASSUME Shape, RisesOK, Answered \/ Unanswered \/ GiveUp
    PROVE  RisesOK'
<1>1. CASE Answered
  <2>1. cmds # <<>> /\ UNCHANGED <<site, ram, upd, rises>> /\ Steady
    BY <1>1, AnsweredIs, AnsweredShape DEF Answered
  <2>2. PICK q : q = cmds[1]
    OBVIOUS
  <2>3. \/ q.to \in site /\ Became(q.to, q.vals)
        \/ UNCHANGED <<phys, events>>
    BY <1>1, <2>2, AnsweredIs
  <2>4. q.to \in site => q.to \in site \ Counting
    BY <2>1, <2>2, HeadCmd DEF IsCmd, Sensors, Counting
  <2>5. CASE q.to \in site /\ Became(q.to, q.vals)
    BY <2>1, <2>4, <2>5, OthersRise
  <2>6. CASE UNCHANGED <<phys, events>>
    BY <2>1, <2>6, StillRises
  <2> QED BY <2>3, <2>5, <2>6
<1>2. CASE GiveUp
  <2>1. /\ scan \in site /\ Written(scan, [reachable |-> 0])
        /\ UNCHANGED <<site, events, upd, phys, rises>>
    BY <1>2, GiveUpShape DEF GiveUp
  <2>2. PICK vals : vals = [reachable |-> 0]
    OBVIOUS
  <2>3. "on" \notin DOMAIN vals /\ "count" \notin DOMAIN vals
    BY <2>2
  <2> QED BY <2>1, <2>2, <2>3, WrittenRises
<1>3. CASE Unanswered
  <2>1. /\ cmds # <<>> /\ cmds[1].to \in site /\ UNCHANGED <<site, upd, rises>>
        /\ Steady
    BY <1>3, UnansweredIs, UnansweredShape
  <2>2. PICK q : q = cmds[1]
    OBVIOUS
  <2>3. Unheeded(q) /\ Charged(q.charge)
    BY <1>3, <2>2, UnansweredIs
  <2>4. q.to \in site \ Counting
    BY <2>1, <2>2, HeadCmd DEF IsCmd, Sensors, Counting
  <2> SUFFICES ASSUME NEW t \in site \cap Counting PROVE RiseOK(t)'
    BY <2>1 DEF RisesOK
  <2>5. RiseOK(t)
    BY DEF RisesOK
  <2>6. ram'[t]["on"] = ram[t]["on"] /\ ram'[t]["count"] = ram[t]["count"]
    <3>1. CASE q.charge \in site
      <4>1. PICK vals : vals = [at_err_tick |-> ram[q.charge]["at_err_tick"] + 1]
        OBVIOUS
      <4>2. Written(q.charge, vals)
        BY <2>3, <3>1, <4>1 DEF Charged
      <4>3. "on" \notin DOMAIN vals /\ "count" \notin DOMAIN vals
        BY <4>1
      <4> QED BY <3>1, <4>2, <4>3, RiseWritten
    <3>2. CASE q.charge \notin site
      BY <2>3, <3>2 DEF Charged
    <3> QED BY <3>1, <3>2
  <2>7. CASE Became(q.to, q.vals)
    BY <2>1, <2>4, <2>5, <2>6, <2>7, RiseOthers
  <2>8. CASE UNCHANGED <<phys, events>>
    BY <2>1, <2>5, <2>6, <2>8, RiseKept
  <2> QED BY <2>3, <2>7, <2>8 DEF Unheeded
<1> QED BY <1>1, <1>2, <1>3

LEMMA ChangeRises ==
    ASSUME Shape, RisesOK, Change
    PROVE  RisesOK'
<1>1. UNCHANGED <<site, ram, upd>> /\ Steady
  BY ChangeIs, ChangeShape
<1>2. PICK u \in site : \E f \in WorkingIn(u, ModeOf[u]), v \in {0, 1} : Changed(u, f, v)
  BY ChangeIs
<1>3. PICK f \in WorkingIn(u, ModeOf[u]), v \in {0, 1} : Changed(u, f, v)
  BY <1>2
<1>4. PICK vals : vals = [g \in {f} |-> v]
  OBVIOUS
<1>5. DOMAIN vals = {f} /\ vals[f] = v
  BY <1>4
<1>6. /\ v # At(u, f) /\ Became(u, vals)
      /\ rises' = [rises EXCEPT ![u] =
            IF f = "on" /\ At(u, f) = 0 /\ v # 0 THEN @ + 1 ELSE @]
  BY <1>3, <1>4 DEF Changed
<1> SUFFICES ASSUME NEW t \in site \cap Counting PROVE RiseOK(t)'
  BY <1>1 DEF RisesOK
<1>7. RiseOK(t)
  BY DEF RisesOK
<1>8. DOMAIN rises = site /\ rises[t] \in Nat
  BY DEF Shape, DevicesOK
<1>9. CASE u # t \/ f # "on"
  <2>1. rises'[t] = rises[t]
    BY <1>6, <1>8, <1>9
  <2>2. u # t \/ "on" \notin DOMAIN vals
    BY <1>5, <1>9
  <2> QED BY <1>1, <1>6, <1>7, <2>1, <2>2, RiseOthers
<1>10. CASE u = t /\ f = "on"
  <2>1. PICK e : e = [cluster |-> Cluster(t, "on"), ep |-> Endpoint(t), field |-> "on", val |-> v]
    OBVIOUS
  <2>2. "on" \in Fields(t) /\ Tells(t, "on") /\ v # At(t, "on") /\ vals["on"] = v
    BY <1>5, <1>6, <1>10, SensorFacts, SensorHeard
  <2>3. {g \in DOMAIN vals \cap Fields(t) : vals[g] # At(t, g) /\ Tells(t, g)} = {"on"}
    BY <1>5, <1>10, <2>2
  <2>4. Said(t, vals) = {e}
    <3>1. PICK G : G = {g \in DOMAIN vals \cap Fields(t) : vals[g] # At(t, g) /\ Tells(t, g)}
      OBVIOUS
    <3>2. Said(t, vals) = {[cluster |-> Cluster(t, g), ep |-> Endpoint(t), field |-> g,
                            val |-> vals[g]] : g \in G}
      BY <3>1 DEF Said
    <3>3. G = {"on"}
      BY <2>3, <3>1
    <3>4. \A g \in G : e = [cluster |-> Cluster(t, g), ep |-> Endpoint(t), field |-> g,
                            val |-> vals[g]]
      BY <2>1, <2>2, <3>3
    <3> QED BY <3>2, <3>3, <3>4
  <2>19. PICK A : A = Said(t, vals)
    OBVIOUS
  <2>20. A = {e}
    BY <2>4, <2>19
  <2>5. PICK n \in Nat : \E q \in [1..n -> A] :
            /\ events' = events \o q
            /\ \A x \in A : \E k \in 1..n : q[k] = x
            /\ \A k, l \in 1..n : q[k] = q[l] => k = l
    <3>1. Became(t, vals)
      BY <1>6, <1>10
    <3>2. \E n \in Nat : \E q \in [1..n -> Said(t, vals)] :
            /\ events' = events \o q
            /\ \A x \in Said(t, vals) : \E k \in 1..n : q[k] = x
            /\ \A k, l \in 1..n : q[k] = q[l] => k = l
      BY <3>1 DEF Became
    <3> QED BY <3>2, <2>19, Zenon
  <2>6. PICK q \in [1..n -> A] :
            /\ events' = events \o q
            /\ \A x \in A : \E k \in 1..n : q[k] = x
            /\ \A k, l \in 1..n : q[k] = q[l] => k = l
    BY <2>5
  <2>7. n = 1
    <3>1. PICK k \in 1..n : q[k] = e
      BY <2>6, <2>20
    <3>4. \A l \in 1..n : q[l] = e
      BY <2>6, <2>20
    <3>2. \A l \in 1..n : l = k
      BY <2>6, <3>1, <3>4
    <3>3. 1 \in 1..n /\ n \in 1..n
      BY <3>1
    <3> QED BY <3>2, <3>3
  <2>8. PICK s : s = events'
    OBVIOUS
  <2>9. /\ Len(events) \in Nat /\ Len(s) = Len(events) + 1
        /\ \A k \in 1..Len(events) : s[k] = events[k]
        /\ s[Len(events) + 1] = e
    <3>1. s = events \o q
      BY <2>6, <2>8
    <3>2. /\ Len(events) \in Nat /\ Len(s) = Len(events) + n
          /\ \A k \in 1..Len(events) : s[k] = events[k]
          /\ \A k \in 1..n : s[Len(events) + k] = q[k]
      BY <2>6, <3>1, JoinedEvents
    <3>3. q[1] = e
      BY <2>6, <2>7, <2>20
    <3> QED BY <2>7, <3>2, <3>3
  <2>10. IsOn(t, e) /\ e.val = v
    BY <2>1, SensorFacts DEF IsOn
  <2>11. phys'[t]["on"] = v
    <3>1. t \in Sharing(t, "on")
      BY DEF Sharing
    <3>2. At(t, "on")' = v
      BY <1>5, <1>6, <1>10, <2>2, <3>1 DEF Became
    <3> QED BY <3>2 DEF At
  <2>12. At(t, "on") = phys[t]["on"] /\ phys[t]["on"] \in {0, 1}
    BY <1>7, SensorFacts DEF RiseOK
  <2>13. rises'[t] = IF v # 0 THEN rises[t] + 1 ELSE rises[t]
    BY <1>6, <1>8, <1>10, <2>12
  <2>14. RisesTo(t, s, Len(s), From1(t), Count1(t), phys'[t]["on"], rises'[t])
    <3>1. PICK es, l, a, b, x, y, w : es = events /\ l = Len(events) /\ a = From1(t)
              /\ b = Count1(t) /\ x = phys[t]["on"] /\ y = rises[t] /\ w = rises'[t]
      OBVIOUS
    <3>2. /\ l \in Nat /\ y \in Nat /\ w \in Nat /\ v \in Values
          /\ \A k \in 1..l : s[k] = es[k]
      BY <1>8, <2>9, <2>13, <3>1 DEF Values
    <3>3. RisesTo(t, es, l, a, b, x, y)
      BY <1>7, <3>1 DEF RiseOK
    <3>4. IF IsOn(t, s[l + 1])
          THEN /\ v = s[l + 1].val /\ (v # 0 => x = 0)
               /\ w = IF v # 0 THEN y + 1 ELSE y
          ELSE (v = 0 => x = 0) /\ w = y
      BY <2>2, <2>9, <2>10, <2>12, <2>13, <3>1
    <3>5. RisesTo(t, s, l + 1, a, b, v, w)
      BY <3>2, <3>3, <3>4, RiseAdd
    <3> QED BY <2>9, <2>11, <3>1, <3>5
  <2>15. From1(t)' = From1(t) /\ Count1(t)' = Count1(t)
    BY <1>1 DEF From1, Count1, Doing
  <2>16. Doing(t)' /\ upd'.val # 0 => ram'[t]["on"] = 0
    BY <1>1, <1>7 DEF Doing, RiseOK
  <2>17. phys'[t]["on"] \in {0, 1}
    BY <2>11
  <2> QED BY <2>8, <2>14, <2>15, <2>16, <2>17 DEF RiseOK
<1> QED BY <1>9, <1>10

\* The first event is taken.
LEMMA TakeRise ==
    ASSUME Shape, NEW t \in site \cap Counting, RiseOK(t), events # <<>>, events' = Tail(events),
           NEW e, e = events[1], NEW on \in BOOLEAN, on = IsOn(t, e)
    PROVE  /\ on /\ e.val # 0 => From1(t) = 0
           /\ RisesTo(t, events', Len(events'), IF on THEN e.val ELSE From1(t),
                      IF on /\ e.val # 0 THEN Count1(t) + 1 ELSE Count1(t),
                      phys[t]["on"], rises[t])
<1>1. IsSeq(events)
  BY DEF Shape, EventsOK
<1>2. /\ Len(events) \in Nat \ {0} /\ Len(Tail(events)) = Len(events) - 1
      /\ \A k \in 1..(Len(events) - 1) : Tail(events)[k] = events[k + 1]
  BY <1>1, TailIs
<1>3. PICK es, n, a, b, x, y, fs : es = events /\ n = Len(events) /\ a = From1(t)
        /\ b = Count1(t) /\ x = phys[t]["on"] /\ y = rises[t] /\ fs = Tail(events)
  OBVIOUS
<1>4. n \in Nat \ {0} /\ Len(fs) = n - 1 /\ \A k \in 1..(n - 1) : fs[k] = es[k + 1]
  BY <1>2, <1>3
<1>5. RisesTo(t, es, n, a, b, x, y) /\ b \in Nat
  BY <1>3, SensorFacts DEF RiseOK
<1>6. e = es[1]
  BY <1>3
<1>7. /\ IsOn(t, es[1]) /\ es[1].val # 0 => a = 0
      /\ RisesTo(t, fs, n - 1, IF IsOn(t, es[1]) THEN es[1].val ELSE a,
                 IF IsOn(t, es[1]) /\ es[1].val # 0 THEN b + 1 ELSE b, x, y)
  BY <1>4, <1>5, RiseTake
<1>8. /\ on /\ e.val # 0 => a = 0
      /\ RisesTo(t, fs, n - 1, IF on THEN e.val ELSE a, IF on /\ e.val # 0 THEN b + 1 ELSE b,
                 x, y)
  BY <1>6, <1>7
<1>9. fs = events' /\ Len(events') = n - 1
  BY <1>3, <1>4
<1> QED BY <1>3, <1>8, <1>9

LEMMA ReceiveRises ==
    ASSUME Shape, RisesOK, Receive
    PROVE  RisesOK'
<1>1. PICK e : e = events[1]
  OBVIOUS
<1>2. /\ events # <<>> /\ upd.pc = "idle" /\ events' = Tail(events) /\ IsEvent(site, e)
      /\ UNCHANGED <<site, phys, rises>>
      /\ \/ Receiver(e) = {} /\ UNCHANGED <<ram, file, upd, stray>>
         \/ \E u \in Receiver(e) : Received(u, e)
  BY <1>1, ReceiveIs
<1> SUFFICES ASSUME NEW t \in site \cap Counting PROVE RiseOK(t)'
  BY <1>2 DEF RisesOK
<1>3. RiseOK(t)
  BY DEF RisesOK
<1>4. ~Doing(t) /\ From1(t) = ram[t]["on"] /\ Count1(t) = ram[t]["count"]
  BY <1>2 DEF Doing, From1, Count1
<1>5. ram'[t]["on"] = ram[t]["on"] /\ ram'[t]["count"] = ram[t]["count"]
  <2>1. CASE ram' = ram
    BY <2>1
  <2>2. CASE \E u \in Receiver(e) : Written(u, [reachable |-> 1])
    <3>1. PICK u \in Receiver(e) : Written(u, [reachable |-> 1])
      BY <2>2
    <3>2. PICK vals : vals = [reachable |-> 1]
      OBVIOUS
    <3>3. u \in site /\ Written(u, vals) /\ "on" \notin DOMAIN vals /\ "count" \notin DOMAIN vals
      BY <1>2, <3>1, <3>2, ReceiverOf
    <3> QED BY <3>3, RiseWritten
  <2> QED BY <1>2, <2>1, <2>2 DEF Received, Taken
<1>6. PICK on \in BOOLEAN : on = IsOn(t, e)
  BY DEF IsOn
<1>7. /\ on /\ e.val # 0 => From1(t) = 0
      /\ RisesTo(t, events', Len(events'), IF on THEN e.val ELSE From1(t),
                 IF on /\ e.val # 0 THEN Count1(t) + 1 ELSE Count1(t), phys[t]["on"], rises[t])
  BY <1>1, <1>2, <1>3, <1>6, TakeRise
<1>8. phys[t]["on"] \in {0, 1}
  BY <1>3 DEF RiseOK
<1>9. CASE on
  <2>1. Receiver(e) = {t} /\ e.field = "on"
    BY <1>2, <1>6, <1>9, OnEvent DEF IsOn
  <2>2. Received(t, e)
    BY <1>2, <2>1
  <2>3. UpdateState[t][e.field].revives
    BY <2>1 DEF Counting, UpdateState, BinSensorUpdate, OccSensorUpdate, BinSensorUpdateOn,
             OccSensorUpdateOn, Update
  <2>4. upd'.pc = "compare" /\ upd'.type = t /\ upd'.field = "on" /\ upd'.val = e.val
    BY <2>1, <2>2, <2>3 DEF Received, Taken
  <2>5. Doing(t)'
    BY <2>4 DEF Doing
  <2>6. /\ From1(t)' = e.val
        /\ Count1(t)' = IF e.val # 0 THEN ram[t]["count"] + 1 ELSE ram[t]["count"]
    BY <1>5, <2>4, <2>5 DEF From1, Count1
  <2>7. upd'.val # 0 => ram'[t]["on"] = 0
    BY <1>4, <1>5, <1>7, <1>9, <2>4
  <2>8. RisesTo(t, events', Len(events'), From1(t)', Count1(t)', phys[t]["on"], rises[t])
    BY <1>4, <1>7, <1>9, <2>6
  <2> QED BY <1>2, <1>8, <2>7, <2>8 DEF RiseOK
<1>10. CASE ~on
  <2>1. ~Doing(t)'
    <3>1. CASE upd' = upd
      BY <1>4, <3>1 DEF Doing
    <3>2. CASE \E u \in Receiver(e) : Taken(u, e)
      <4>1. PICK u \in Receiver(e) : Taken(u, e)
        BY <3>2
      <4>2. upd'.type = u /\ upd'.field = e.field /\ e.ep = Endpoint(u)
        BY <1>2, <4>1, ReceiverOf DEF Taken
      <4>3. ~(u = t /\ e.field = "on")
        BY <1>6, <1>10, <4>2, SensorFacts DEF IsOn
      <4> QED BY <4>2, <4>3 DEF Doing
    <3> QED BY <1>2, <3>1, <3>2 DEF Received
  <2>2. From1(t)' = ram[t]["on"] /\ Count1(t)' = ram[t]["count"]
    BY <1>5, <2>1 DEF From1, Count1
  <2>3. RisesTo(t, events', Len(events'), From1(t)', Count1(t)', phys[t]["on"], rises[t])
    BY <1>4, <1>7, <1>10, <2>2
  <2> QED BY <1>2, <1>8, <2>1, <2>3 DEF RiseOK
<1> QED BY <1>9, <1>10

LEMMA NotifiedRises ==
    ASSUME Shape, RisesOK, Notified
    PROVE  RisesOK'
<1>1. PICK e : e = events[1]
  OBVIOUS
<1>2. /\ events # <<>> /\ events' = Tail(events) /\ "sonos" \in site /\ e.ep = "sonos"
      /\ UNCHANGED <<site, phys, upd, rises>>
      /\ \E w : Written("sonos", w)
  BY <1>1, NotifiedIs
<1> SUFFICES ASSUME NEW t \in site \cap Counting PROVE RiseOK(t)'
  BY <1>2 DEF RisesOK
<1>3. RiseOK(t)
  BY DEF RisesOK
<1>4. ram'[t]["on"] = ram[t]["on"] /\ ram'[t]["count"] = ram[t]["count"]
  <2>1. PICK w : Written("sonos", w)
    BY <1>2
  <2> QED BY <1>2, <2>1, RiseWritten, SensorFacts
<1>5. ~IsOn(t, e)
  BY <1>2, SensorFacts DEF IsOn
<1>6. RisesTo(t, events', Len(events'), From1(t), Count1(t), phys[t]["on"], rises[t])
  <2>1. PICK on \in BOOLEAN : on = IsOn(t, e)
    BY DEF IsOn
  <2>2. RisesTo(t, events', Len(events'), IF on THEN e.val ELSE From1(t),
                 IF on /\ e.val # 0 THEN Count1(t) + 1 ELSE Count1(t), phys[t]["on"], rises[t])
    BY <1>1, <1>2, <1>3, <2>1, TakeRise
  <2> QED BY <1>5, <2>1, <2>2
<1>7. From1(t)' = From1(t) /\ Count1(t)' = Count1(t)
  BY <1>2, <1>4 DEF From1, Count1, Doing
<1>8. /\ Doing(t)' /\ upd'.val # 0 => ram'[t]["on"] = 0
      /\ phys[t]["on"] \in {0, 1}
  BY <1>2, <1>3, <1>4 DEF Doing, RiseOK
<1> QED BY <1>2, <1>6, <1>7, <1>8 DEF RiseOK

\* The event dealt with gets further, and t is taken to be as before.
LEMMA FurtherRises ==
    ASSUME NEW t, RiseOK(t), UNCHANGED <<events, phys, rises>>,
           From1(t)' = From1(t), Count1(t)' = Count1(t),
           Doing(t)' /\ upd'.val # 0 => ram'[t]["on"] = 0
    PROVE  RiseOK(t)'
BY DEF RiseOK

LEMMA TaskRises ==
    ASSUME Shape, RisesOK, Compare \/ Put \/ Tell
    PROVE  RisesOK'
<1>1. UNCHANGED <<site, events, phys, rises>>
  BY DEF Compare, Put, Tell
<1> SUFFICES ASSUME NEW t \in site \cap Counting PROVE RiseOK(t)'
  BY <1>1 DEF RisesOK
<1>2. RiseOK(t)
  BY DEF RisesOK
<1>3. Doing(t) /\ upd.val # 0 => ram[t]["on"] = 0
  BY <1>2 DEF RiseOK
<1>4. CASE Compare
  <2>1. ram' = ram /\ upd.pc = "compare"
    BY <1>4, CompareIs
  <2>2. PICK p \in {"put", "tell", "idle"} :
            UpdTo(p) /\ (p = "put" <=> ram[upd.type][upd.field] # upd.val)
    BY <1>4, CompareIs
  <2>3. upd'.pc = p /\ upd'.type = upd.type /\ upd'.field = upd.field /\ upd'.val = upd.val
    BY <2>2 DEF UpdTo
  <2>4. CASE Doing(t)
    <3>1. CASE p = "put"
      <4>1. Doing(t)'
        BY <2>3, <2>4, <3>1 DEF Doing
      <4>2. From1(t)' = From1(t) /\ Count1(t)' = Count1(t)
        BY <2>1, <2>3, <2>4, <4>1 DEF From1, Count1
      <4> QED BY <1>1, <1>2, <1>3, <2>1, <2>3, <2>4, <4>2, FurtherRises
    <3>2. CASE p # "put"
      <4>1. ~Doing(t)'
        BY <2>3, <3>2, <2>2 DEF Doing
      <4>2. ram[t]["on"] = upd.val
        BY <2>2, <2>4, <3>2 DEF Doing
      <4>3. upd.val = 0
        BY <1>3, <2>4, <4>2
      <4>4. From1(t)' = From1(t) /\ Count1(t)' = Count1(t)
        BY <2>1, <2>4, <4>1, <4>2, <4>3 DEF From1, Count1
      <4> QED BY <1>1, <1>2, <4>1, <4>4, FurtherRises
    <3> QED BY <3>1, <3>2
  <2>5. CASE ~Doing(t)
    <3>1. ~Doing(t)'
      BY <2>1, <2>3, <2>5 DEF Doing
    <3>2. From1(t)' = From1(t) /\ Count1(t)' = Count1(t)
      BY <2>1, <2>5, <3>1 DEF From1, Count1
    <3> QED BY <1>1, <1>2, <3>1, <3>2, FurtherRises
  <2> QED BY <2>4, <2>5
<1>5. CASE Put
  <2>1. upd.pc = "put" /\ UpdTo("tell")
    BY <1>5, PutIs
  <2>2. PICK vals : PutSays(vals) /\ Written(upd.type, vals)
    BY <1>5, PutIs
  <2>3. ~Doing(t)'
    BY <2>1 DEF UpdTo, Doing
  <2>4. upd.type \in site
    BY <2>1, UpdIs
  <2>5. CASE Doing(t)
    <3>1. upd.type = t /\ upd.field = "on"
      BY <2>5 DEF Doing
    <3>2. upd.val # 0 <=> Counts(t, "on", ram[t]["on"], upd.val)
      BY <1>3, <2>5 DEF Counts, BinSensorCounts, OccSensorCounts, Counting
    <3>3. /\ vals["on"] = upd.val
          /\ IF upd.val # 0
             THEN DOMAIN vals = {"on", "count"} /\ vals["count"] = ram[t]["count"] + 1
             ELSE DOMAIN vals = {"on"}
      BY <2>2, <3>1, <3>2 DEF PutSays
    <3>4. /\ ram'[t]["on"] = upd.val
          /\ ram'[t]["count"] = IF upd.val # 0 THEN ram[t]["count"] + 1 ELSE ram[t]["count"]
      BY <2>2, <3>1, <3>3, SensorFacts DEF Written
    <3>5. From1(t)' = From1(t) /\ Count1(t)' = Count1(t)
      BY <2>3, <2>5, <3>4 DEF From1, Count1
    <3> QED BY <1>1, <1>2, <2>3, <3>5, FurtherRises
  <2>6. CASE ~Doing(t)
    <3>1. upd.type # t \/ upd.field # "on"
      BY <2>1, <2>6 DEF Doing
    <3>2. upd.type # t \/ ("on" \notin DOMAIN vals /\ "count" \notin DOMAIN vals)
      <4> SUFFICES ASSUME upd.type = t
                   PROVE  "on" \notin DOMAIN vals /\ "count" \notin DOMAIN vals
        OBVIOUS
      <4>1. ~Counts(upd.type, upd.field, ram[upd.type][upd.field], upd.val)
        BY <3>1 DEF Counts
      <4>2. DOMAIN vals = {upd.field} /\ "count" \notin Fields(upd.type)
        BY <2>2, <4>1 DEF PutSays
      <4>3. upd.field \in Fields(upd.type)
        BY <2>1, UpdIs
      <4> QED BY <3>1, <4>2, <4>3
    <3>3. ram'[t]["on"] = ram[t]["on"] /\ ram'[t]["count"] = ram[t]["count"]
      <4>1. PICK u : u = upd.type
        OBVIOUS
      <4> QED BY <2>2, <2>4, <3>2, <4>1, RiseWritten
    <3>4. From1(t)' = From1(t) /\ Count1(t)' = Count1(t)
      BY <2>3, <2>6, <3>3 DEF From1, Count1
    <3> QED BY <1>1, <1>2, <2>3, <3>4, FurtherRises
  <2> QED BY <2>5, <2>6
<1>6. CASE Tell
  <2>1. ram' = ram /\ upd.pc = "tell" /\ upd'.pc = "idle"
    BY <1>6, TellIs
  <2>2. ~Doing(t) /\ ~Doing(t)'
    BY <2>1 DEF Doing
  <2>3. From1(t)' = From1(t) /\ Count1(t)' = Count1(t)
    BY <2>1, <2>2 DEF From1, Count1
  <2> QED BY <1>1, <1>2, <2>2, <2>3, FurtherRises
<1> QED BY <1>4, <1>5, <1>6

LEMMA NextRises ==
    ASSUME Shape, RisesOK, [Next]_vars
    PROVE  RisesOK'
<1>1. ASSUME NEW c \in Callers,
             Begin(c) \/ Queue(c) \/ WriteRecord(c) \/ Drive(c) \/ ReportSet(c) \/ SetChangeRpt(c)
      PROVE  RisesOK'
  BY <1>1, CallersRise
<1>2. CASE Answered \/ Unanswered \/ GiveUp
  BY <1>2, CommandsRise
<1>3. CASE Change
  BY <1>3, ChangeRises
<1>4. CASE Receive
  BY <1>4, ReceiveRises
<1>5. CASE Compare \/ Put \/ Tell
  BY <1>5, TaskRises
<1>6. CASE Notified
  BY <1>6, NotifiedRises
<1>7. CASE UNCHANGED vars
  BY <1>7, StillRises DEF vars
<1> QED BY <1>1, <1>2, <1>3, <1>4, <1>5, <1>6, <1>7 DEF Next

LEMMA RisesMean == ASSUME Shape, RisesOK PROVE CountsRises
<1> SUFFICES ASSUME events = <<>>, upd.pc = "idle", NEW t \in site \cap Counting
             PROVE  ram[t]["count"] = rises[t]
  BY DEF CountsRises, Counting
<1>1. RiseOK(t)
  BY DEF RisesOK
<1>2. Len(events) = 0 /\ ~Doing(t)
  BY DEF Doing
<1>3. Count1(t) = ram[t]["count"]
  BY <1>2 DEF Count1
<1>4. PICK es, a, b, x, y : es = events /\ a = From1(t) /\ b = Count1(t) /\ x = phys[t]["on"]
        /\ y = rises[t]
  OBVIOUS
<1>5. RisesTo(t, es, 0, a, b, x, y)
  BY <1>1, <1>2, <1>4 DEF RiseOK
<1>6. b = y
  BY <1>5 DEF RisesTo, Rising
<1> QED BY <1>3, <1>4, <1>6

\* For every site, any number of callers, of commands without an answer and of
\* changes, and every limit: a sensor's count is how often it went on, and a device is
\* given up only for as many failures as the limit asks for.
THEOREM DevStateCounters == Spec => []CountersSound
<1> DEFINE Inv == Shape /\ TicksOK /\ RisesOK
<1>1. Init => Inv
  BY InitShape, InitTicks, InitRises
<1>2. Inv /\ [Next]_vars => Inv'
  BY NextShape, NextTicks, NextRises
<1>3. Inv => CountersSound
  BY ShapeType, TicksMean, RisesMean DEF CountersSound
<1> QED BY <1>1, <1>2, <1>3, PTL DEF Spec

-----------------------------------------------------------------------------
(* What becomes of the callers' jobs. *)

SameJob(c) ==
    /\ job[c].pc # "idle" /\ job'[c].pc # "idle"
    /\ job'[c].type = job[c].type /\ job'[c].field = job[c].field
    /\ job'[c].vals = job[c].vals /\ job'[c].carried = job[c].carried
    /\ job'[c].cmd = job[c].cmd /\ job'[c].report = job[c].report

\* c gets no new job, and is still late if it was.
Goes(c) == job'[c].pc = "idle" \/ (SameJob(c) /\ (job[c].late => job'[c].late))

\* c does nothing, but may be late now.
Stays(c) ==
    \/ job[c].pc = "idle" /\ job'[c].pc = "idle"
    \/ SameJob(c) /\ job'[c].pc = job[c].pc /\ (job[c].late => job'[c].late)

\* Those who set the same have noticed.
Late ==
    \A c, d \in Callers :
        /\ c # d /\ job[c].pc # "idle" /\ job[d].pc # "idle" /\ job[c].type = job[d].type
        /\ Touched(c) \cap Touched(d) # {}
        => job[c].late /\ job[d].late

LEMMA SameJobIs ==
    ASSUME NEW c, SameJob(c)
    PROVE  /\ Touched(c)' = Touched(c) /\ Setting(c)' = Setting(c) /\ Command(c)' = Command(c)
           /\ Recorded(c)' = Recorded(c) /\ Asked(c)' = Asked(c)
<1>1. Touched(c)' = Touched(c)
  BY DEF SameJob, Touched
<1>2. Setting(c)' = Setting(c)
  BY DEF SameJob, Setting
<1>3. Command(c)' = Command(c)
  BY <1>2 DEF SameJob, Command
<1>4. Recorded(c)' = Recorded(c)
  BY <1>2 DEF SameJob, Recorded
<1>5. Asked(c)' = Asked(c)
  BY DEF SameJob, Asked
<1> QED BY <1>1, <1>2, <1>3, <1>4, <1>5

LEMMA MarkedStays ==
    ASSUME Shape, NEW c \in Callers, job'[c] = job[c] \/ job'[c] = [job[c] EXCEPT !.late = TRUE]
    PROVE  Stays(c)
<1>1. CASE job'[c] = job[c]
  BY <1>1 DEF Stays, SameJob
<1>2. CASE job'[c] = [job[c] EXCEPT !.late = TRUE]
  <2>1. CASE job[c].pc = "idle"
    <3>1. "pc" \in DOMAIN job[c]
      BY DEF Shape, JobsOK
    <3> QED BY <1>2, <2>1, <3>1 DEF Stays
  <2>2. CASE job[c].pc # "idle"
    <3>1. DOMAIN job[c] = {"pc", "type", "field", "vals", "carried", "cmd", "report", "late"}
      BY <2>2, JobIs DEF IsJob
    <3>2. PICK j : j = job[c]
      OBVIOUS
    <3>3. /\ job'[c].pc = j.pc /\ job'[c].type = j.type /\ job'[c].field = j.field
          /\ job'[c].vals = j.vals /\ job'[c].carried = j.carried
          /\ job'[c].cmd = j.cmd /\ job'[c].report = j.report /\ job'[c].late = TRUE
      BY <1>2, <3>1, <3>2
    <3> QED BY <2>2, <3>2, <3>3 DEF Stays, SameJob
  <2> QED BY <2>1, <2>2
<1> QED BY <1>1, <1>2

LEMMA MarksStay ==
    ASSUME Shape, NEW t, NEW fields, Marks(t, fields), NEW c \in Callers
    PROVE  /\ Stays(c)
           /\ job[c].pc # "idle" /\ job[c].type = t /\ fields \cap Touched(c) # {} => job'[c].late
<1>1. IF job[c].pc # "idle" /\ job[c].type = t /\ fields \cap Touched(c) # {}
      THEN job'[c] = [job[c] EXCEPT !.late = TRUE] ELSE job'[c] = job[c]
  BY DEF Marks
<1>2. Stays(c)
  BY <1>1, MarkedStays
<1>3. ASSUME job[c].pc # "idle", job[c].type = t, fields \cap Touched(c) # {} PROVE job'[c].late
  <2>1. "late" \in DOMAIN job[c]
    BY <1>3, JobIs DEF IsJob
  <2> QED BY <1>1, <1>3, <2>1
<1> QED BY <1>2, <1>3

LEMMA SameStay ==
    ASSUME Shape, job' = job, NEW c \in Callers
    PROVE  Stays(c)
BY MarkedStays

LEMMA BegunStay ==
    ASSUME Shape, NEW c, NEW j, Begun(c, j), NEW d \in Callers \ {c}
    PROVE  Stays(d)
<1>1. job'[d] = [job[d] EXCEPT !.late = TRUE] \/ job'[d] = job[d]
  BY DEF Begun
<1> QED BY <1>1, MarkedStays

LEMMA ContinuesStay ==
    ASSUME Shape, NEW c \in Callers, job[c].pc # "idle", NEW p, NEW l, Continues(c, p, l)
    PROVE  /\ \A d \in Callers \ {c} : Stays(d)
           /\ p # "idle" => SameJob(c)
           /\ job'[c].pc = p /\ job'[c].late = l
<1>1. \A d \in Callers \ {c} : Stays(d)
  BY MarkedStays DEF Continues
<1>2. p # "idle" => SameJob(c)
  BY DEF Continues, SameJob
<1> QED BY <1>1, <1>2 DEF Continues

LEMMA DoneStay ==
    ASSUME Shape, NEW c \in Callers, job' = [job EXCEPT ![c] = [pc |-> "idle"]]
    PROVE  job'[c].pc = "idle" /\ \A d \in Callers \ {c} : Stays(d)
<1>1. DOMAIN job = Callers
  BY DEF Shape, JobsOK
<1>2. job'[c].pc = "idle" /\ \A d \in Callers \ {c} : job'[d] = job[d]
  BY <1>1
<1> QED BY <1>2, MarkedStays

LEMMA StaysGoes == ASSUME NEW c, Stays(c) PROVE Goes(c)
BY DEF Stays, Goes

LEMMA LateStep ==
    ASSUME Late, \A c \in Callers : Goes(c)
    PROVE  Late'
<1> SUFFICES ASSUME NEW c \in Callers, NEW d \in Callers, c # d, job'[c].pc # "idle",
                    job'[d].pc # "idle", job'[c].type = job'[d].type,
                    Touched(c)' \cap Touched(d)' # {}
             PROVE  job'[c].late /\ job'[d].late
  BY DEF Late
<1>1. /\ SameJob(c) /\ (job[c].late => job'[c].late)
      /\ SameJob(d) /\ (job[d].late => job'[d].late)
  BY DEF Goes
<1>2. Touched(c)' = Touched(c) /\ Touched(d)' = Touched(d)
  BY <1>1, SameJobIs
<1> QED BY <1>1, <1>2 DEF Late, SameJob

LEMMA LateBegin ==
    ASSUME Shape, Late, NEW c \in Callers, NEW j, BeginSays(c, j), Begun(c, j)
    PROVE  Late'
<1>1. job'[c] = j /\ \A d \in Callers \ {c} : Stays(d)
  BY BegunStay DEF Begun
<1>2. ASSUME NEW d \in Callers \ {c}, job'[d].pc # "idle", job'[d].type = j.type,
             Touched(d)' \cap (DOMAIN j.vals \cup j.carried) # {}
      PROVE  j.late /\ job'[d].late
  <2>1. SameJob(d)
    BY <1>1, <1>2 DEF Stays
  <2>2. Meets(d, j.type, DOMAIN j.vals \cup j.carried)
    BY <1>2, <2>1, SameJobIs DEF Meets, SameJob
  <2>3. j.late
    BY <2>2 DEF BeginSays
  <2>4. job'[d] = [job[d] EXCEPT !.late = TRUE]
    BY <2>2 DEF Begun
  <2>5. "late" \in DOMAIN job[d]
    BY <2>1, JobIs DEF SameJob, IsJob
  <2> QED BY <2>3, <2>4, <2>5
<1>3. Touched(c)' = DOMAIN j.vals \cup j.carried
  BY <1>1 DEF Touched
<1>4. ASSUME NEW d \in Callers \ {c}, NEW e \in Callers \ {c}, d # e, job'[d].pc # "idle",
             job'[e].pc # "idle", job'[d].type = job'[e].type,
             Touched(d)' \cap Touched(e)' # {}
      PROVE  job'[d].late /\ job'[e].late
  <2>1. Goes(d) /\ Goes(e)
    BY <1>1, StaysGoes
  <2>2. /\ SameJob(d) /\ (job[d].late => job'[d].late)
        /\ SameJob(e) /\ (job[e].late => job'[e].late)
    BY <1>4, <2>1 DEF Goes
  <2>3. Touched(d)' = Touched(d) /\ Touched(e)' = Touched(e)
    BY <2>2, SameJobIs
  <2> QED BY <1>4, <2>2, <2>3 DEF Late, SameJob
<1>5. ASSUME NEW d \in Callers, NEW e \in Callers, d # e, job'[d].pc # "idle",
             job'[e].pc # "idle", job'[d].type = job'[e].type,
             Touched(d)' \cap Touched(e)' # {}
      PROVE  job'[d].late /\ job'[e].late
  <2>1. CASE d = c
    <3>1. e \in Callers \ {c} /\ job'[e].type = j.type /\ job'[c].late = j.late
      BY <1>1, <1>5, <2>1
    <3>2. Touched(e)' \cap (DOMAIN j.vals \cup j.carried) # {}
      BY <1>3, <1>5, <2>1
    <3> QED BY <1>2, <1>5, <2>1, <3>1, <3>2
  <2>2. CASE e = c
    <3>1. d \in Callers \ {c} /\ job'[d].type = j.type /\ job'[c].late = j.late
      BY <1>1, <1>5, <2>2
    <3>2. Touched(d)' \cap (DOMAIN j.vals \cup j.carried) # {}
      BY <1>3, <1>5, <2>2
    <3> QED BY <1>2, <1>5, <2>2, <3>1, <3>2
  <2>3. CASE d # c /\ e # c
    BY <1>4, <1>5, <2>3
  <2> QED BY <2>1, <2>2, <2>3
<1> QED BY <1>5 DEF Late

\* What is on record of the states stays as it is.
StatesKept == \A u \in site : \A f \in Fields(u) : ram'[u][f] = ram[u][f]

LEMMA StateOnRecord ==
    ASSUME Shape, NEW u \in site
    PROVE  /\ DOMAIN ram = site /\ Fields(u) \subseteq DOMAIN ram[u] /\ u \in DevTypes
           /\ "reachable" \notin Fields(u) /\ "at_err_tick" \notin Fields(u)
           /\ \A f \in Fields(u) : ram[u][f] \in Values /\ Read(u, f) = ram[u][f]
<1>1. u \in DevTypes /\ DevicesOK /\ RecordOK(u) /\ DOMAIN ram = site
  BY SiteTypes DEF Shape, DevicesOK, RecordsOK
<1>2. /\ Fields(u) \subseteq StateKept(u) /\ StateKept(u) \subseteq OnRecord(u) \cup {"at_err_tick"}
      /\ "reachable" \notin Fields(u) /\ "at_err_tick" \notin Fields(u)
  BY <1>1, KeptFields
<1>3. \A f \in Fields(u) : Read(u, f) = ram[u][f]
  BY <1>1, <1>2, Reads
<1> QED BY <1>1, <1>2, <1>3 DEF RecordOK

LEMMA WrittenFields ==
    ASSUME Shape, NEW t \in site, NEW vals, Written(t, vals), NEW u \in site, NEW f \in Fields(u),
           u # t \/ f \notin DOMAIN vals
    PROVE  ram'[u][f] = ram[u][f]
<1>1. DOMAIN ram = site /\ f \in DOMAIN ram[u]
  BY StateOnRecord
<1> QED BY <1>1 DEF Written

LEMMA OthersKept ==
    ASSUME Shape, NEW t \in site, NEW vals, Written(t, vals), DOMAIN vals \cap Fields(t) = {}
    PROVE  StatesKept
BY WrittenFields DEF StatesKept

LEMMA KeptStates ==
    ASSUME Shape,
           \/ Answered \/ Unanswered \/ GiveUp \/ Change \/ Receive \/ Compare \/ Tell
           \/ \E c \in Callers :
                Begin(c) \/ Queue(c) \/ Drive(c) \/ ReportSet(c) \/ SetChangeRpt(c)
    PROVE  StatesKept
<1>1. CASE ram' = ram
  BY <1>1 DEF StatesKept
<1>2. CASE Answered \/ Change \/ Compare \/ Tell
  <2>1. ram' = ram
    BY <1>2 DEF Answered, Change, Compare, Tell
  <2> QED BY <2>1, <1>1
<1>3. CASE Unanswered
  <2>1. cmds # <<>> /\ Charged(cmds[1].charge)
    BY <1>3, UnansweredIs
  <2>2. PICK t : t = cmds[1].charge
    OBVIOUS
  <2>3. CASE t \in site
    <3>1. PICK vals : vals = [at_err_tick |-> ram[t]["at_err_tick"] + 1]
      OBVIOUS
    <3>2. Written(t, vals) /\ DOMAIN vals = {"at_err_tick"}
      BY <2>1, <2>2, <2>3, <3>1 DEF Charged
    <3> QED BY <2>3, <3>2, StateOnRecord, OthersKept
  <2>4. CASE t \notin site
    BY <1>1, <2>1, <2>2, <2>4 DEF Charged
  <2> QED BY <2>3, <2>4
<1>4. CASE GiveUp
  <2>1. scan \in site /\ Written(scan, [reachable |-> 0])
    BY <1>4, GiveUpShape
  <2>2. PICK t, vals : t = scan /\ vals = [reachable |-> 0]
    OBVIOUS
  <2>3. t \in site /\ Written(t, vals) /\ DOMAIN vals = {"reachable"}
    BY <2>1, <2>2
  <2> QED BY <2>3, StateOnRecord, OthersKept
<1>5. CASE Receive
  <2>1. PICK e : e = events[1]
    OBVIOUS
  <2>2. /\ IsEvent(site, e)
        /\ \/ ram' = ram
           \/ \E t \in Receiver(e) : Received(t, e)
    BY <1>5, <2>1, ReceiveIs
  <2>3. CASE \E t \in Receiver(e) : Written(t, [reachable |-> 1])
    <3>1. PICK t \in Receiver(e) : Written(t, [reachable |-> 1])
      BY <2>3
    <3>2. PICK vals : vals = [reachable |-> 1]
      OBVIOUS
    <3>3. t \in site /\ Written(t, vals) /\ DOMAIN vals = {"reachable"}
      BY <2>2, <3>1, <3>2, ReceiverOf
    <3> QED BY <3>3, StateOnRecord, OthersKept
  <2> QED BY <1>1, <2>2, <2>3 DEF Received, Taken
<1>6. ASSUME NEW c \in Callers, Begin(c) \/ Queue(c) \/ Drive(c) \/ ReportSet(c)
      PROVE  StatesKept
  <2>1. ram' = ram
    BY <1>6, Zenon DEF Begin, Queue, Drive, ReportSet
  <2> QED BY <2>1, <1>1
<1>7. ASSUME NEW c \in Callers, SetChangeRpt(c) PROVE StatesKept
  <2>1. Rewritten
    BY <1>7, SetChangeRptShape
  <2> QED BY <2>1, StateOnRecord DEF StatesKept, Rewritten
<1> QED BY <1>2, <1>3, <1>4, <1>5, <1>6, <1>7

LEMMA AllStay ==
    ASSUME Shape, NEW c \in Callers,
           \/ Answered \/ Unanswered \/ GiveUp \/ Change \/ Receive \/ Compare \/ Put \/ Tell
           \/ Notified \/ (\E d \in Callers : SetChangeRpt(d)) \/ UNCHANGED vars
    PROVE  Stays(c)
<1>1. CASE job' = job
  BY <1>1, SameStay
<1>2. ASSUME NEW t, NEW fields, Marks(t, fields) PROVE Stays(c)
  BY <1>2, MarksStay
<1>3. CASE Answered \/ GiveUp \/ Receive \/ Tell \/ (\E d \in Callers : SetChangeRpt(d))
           \/ UNCHANGED vars
  <2>1. job' = job
    BY <1>3 DEF Answered, GiveUp, Receive, Tell, SetChangeRpt, vars
  <2> QED BY <2>1, <1>1
<1>4. CASE Unanswered
  <2>1. Unheeded(cmds[1])
    BY <1>4, UnansweredIs
  <2> QED BY <1>1, <1>2, <2>1 DEF Unheeded
<1>5. CASE Change
  <2>1. PICK t \in site : \E f \in WorkingIn(t, ModeOf[t]), v \in {0, 1} : Changed(t, f, v)
    BY <1>5, ChangeIs
  <2>2. PICK f \in WorkingIn(t, ModeOf[t]), v \in {0, 1} : Changed(t, f, v)
    BY <2>1
  <2> QED BY <1>1, <1>2, <2>2 DEF Changed
<1>6. CASE Compare
  BY <1>2, <1>6, CompareIs
<1>7. CASE Put
  BY <1>2, <1>7, PutIs
<1>8. CASE Notified
  BY <1>2, <1>8, NotifiedIs
<1> QED BY <1>3, <1>4, <1>5, <1>6, <1>7, <1>8

LEMMA CallerGoes ==
    ASSUME Shape, NEW c \in Callers, Queue(c) \/ WriteRecord(c) \/ Drive(c) \/ ReportSet(c)
    PROVE  (\A d \in Callers \ {c} : Stays(d)) /\ Goes(c)
<1>1. CASE ReportSet(c)
  <2>1. job' = [job EXCEPT ![c] = [pc |-> "idle"]]
    BY <1>1 DEF ReportSet
  <2> QED BY <2>1, DoneStay DEF Goes
<1>2. ASSUME NEW p, NEW l, job[c].pc # "idle", Continues(c, p, l), l = TRUE \/ l = job[c].late
      PROVE  (\A d \in Callers \ {c} : Stays(d)) /\ Goes(c)
  <2>1. /\ \A d \in Callers \ {c} : Stays(d)
        /\ p # "idle" => SameJob(c)
        /\ job'[c].pc = p /\ job'[c].late = l
    BY <1>2, ContinuesStay
  <2> QED BY <1>2, <2>1 DEF Goes
<1>3. CASE Queue(c)
  <2>1. job[c].pc # "idle"
    BY <1>3 DEF Queue
  <2>2. Continues(c, "write", job[c].late) \/ Continues(c, "write", TRUE)
    BY <1>3, QueueJob
  <2> QED BY <1>2, <2>1, <2>2
<1>4. CASE WriteRecord(c)
  <2>1. job[c].pc # "idle"
    BY <1>4 DEF WriteRecord
  <2>2. PICK p \in {"idle", "drive", "report"} : Continues(c, p, job[c].late)
    BY <1>4, WriteRecordJob
  <2> QED BY <1>2, <2>1, <2>2
<1>5. CASE Drive(c)
  <2>1. job[c].pc # "idle"
    BY <1>5 DEF Drive
  <2>2. PICK p \in {"idle", "report"} : Continues(c, p, job[c].late)
    BY <1>5, DriveJob
  <2> QED BY <1>2, <2>1, <2>2
<1> QED BY <1>1, <1>3, <1>4, <1>5

LEMMA InitLate == Init => Late
<1> SUFFICES ASSUME Init, NEW c \in Callers PROVE job[c].pc = "idle"
  BY DEF Late
<1>1. job = [d \in Callers |-> [pc |-> "idle"]]
  BY DEF Init
<1> QED BY <1>1

LEMMA NextLate ==
    ASSUME Shape, Late, [Next]_vars
    PROVE  Late'
<1>1. ASSUME NEW c \in Callers, Begin(c) PROVE Late'
  <2>1. PICK j : BeginSays(c, j) /\ Begun(c, j)
    BY <1>1, BeginJob
  <2> QED BY <2>1, LateBegin
<1>2. ASSUME NEW c \in Callers, Queue(c) \/ WriteRecord(c) \/ Drive(c) \/ ReportSet(c)
      PROVE  Late'
  <2>1. \A d \in Callers : Goes(d)
    BY <1>2, CallerGoes, StaysGoes
  <2> QED BY <2>1, LateStep
<1>3. CASE \/ Answered \/ Unanswered \/ GiveUp \/ Change \/ Receive \/ Compare \/ Put \/ Tell
           \/ Notified \/ (\E d \in Callers : SetChangeRpt(d)) \/ UNCHANGED vars
  <2>1. \A d \in Callers : Goes(d)
    BY <1>3, AllStay, StaysGoes
  <2> QED BY <2>1, LateStep
<1> QED BY <1>1, <1>2, <1>3 DEF Next

-----------------------------------------------------------------------------
(* What clients are told. *)

Telling(t, f) == upd.pc = "tell" /\ upd.type = t /\ upd.field = f

\* c is to report f of t: what is on record, unless another has met it.
Reports(c, t, f) ==
    /\ job[c].pc \in {"drive", "report"} /\ job[c].type = t /\ job[c].report /\ f \in Asked(c)
    /\ job[c].late \/ ram[t][f] = job[c].vals[f]

\* What clients may not rightly see wrong is seen or on its way to them.
SeenOK(t, f) ==
    \/ f \in unseen[t] \cup hushed[t]
    \/ seen[t][f] = ram[t][f]
    \/ Telling(t, f)
    \/ \E c \in Callers : Reports(c, t, f)

\* One who is to report and has not been met has written what is on record.
ReportOK(c) ==
    job[c].pc \in {"drive", "report"} /\ job[c].report /\ ~job[c].late =>
        \A f \in Asked(c) :
            /\ ram[job[c].type][f] = Recorded(c)[f]
            /\ Recorded(c)[f] = job[c].vals[f] \/ f \in unseen[job[c].type]

SeenInv ==
    /\ \A t \in site : \A f \in Fields(t) : SeenOK(t, f)
    /\ \A c \in Callers : ReportOK(c)

\* Nothing happens to what clients see of it.
Still(t, f) ==
    /\ ram'[t][f] = ram[t][f] /\ seen'[t][f] = seen[t][f]
    /\ f \in unseen[t] \cup hushed[t] => f \in unseen'[t] \cup hushed'[t]
    /\ Telling(t, f) => Telling(t, f)'

LEMMA SeenStill ==
    ASSUME NEW t, NEW f, SeenOK(t, f), Still(t, f),
           \A c \in Callers : Reports(c, t, f) => Reports(c, t, f)'
    PROVE  SeenOK(t, f)'
BY DEF SeenOK, Still

LEMMA ReportsOn ==
    ASSUME NEW c, NEW t, NEW f, SameJob(c), job[c].late => job'[c].late,
           job[c].pc \in {"drive", "report"} /\ job[c].report => job'[c].pc \in {"drive", "report"},
           ram'[t][f] = ram[t][f], Reports(c, t, f)
    PROVE  Reports(c, t, f)'
<1>1. Asked(c)' = Asked(c)
  BY SameJobIs
<1> QED BY <1>1 DEF Reports, SameJob

LEMMA ReportsStay ==
    ASSUME NEW c, NEW t, NEW f, Stays(c), ram'[t][f] = ram[t][f], Reports(c, t, f)
    PROVE  Reports(c, t, f)'
<1>1. SameJob(c) /\ job'[c].pc = job[c].pc /\ (job[c].late => job'[c].late)
  BY DEF Stays, Reports
<1> QED BY <1>1, ReportsOn

LEMMA ReportOn ==
    ASSUME NEW c, ReportOK(c), SameJob(c), job[c].late => job'[c].late,
           job'[c].pc \in {"drive", "report"} => job[c].pc \in {"drive", "report"},
           ~job[c].late /\ ~job'[c].late /\ job[c].report => \A f \in Asked(c) :
                /\ ram'[job[c].type][f] = ram[job[c].type][f]
                /\ f \in unseen[job[c].type] => f \in unseen'[job[c].type]
    PROVE  ReportOK(c)'
<1>1. Asked(c)' = Asked(c) /\ Recorded(c)' = Recorded(c)
  BY SameJobIs
<1>2. SUFFICES ASSUME job'[c].pc \in {"drive", "report"}, job'[c].report, ~job'[c].late,
                      NEW f \in Asked(c)
               PROVE  /\ ram'[job'[c].type][f] = Recorded(c)[f]
                      /\ Recorded(c)[f] = job'[c].vals[f] \/ f \in unseen'[job'[c].type]
  BY <1>1 DEF ReportOK
<1>3. /\ job[c].pc \in {"drive", "report"} /\ job[c].report /\ ~job[c].late
      /\ job'[c].type = job[c].type /\ job'[c].vals = job[c].vals
  BY <1>2 DEF SameJob
<1>4. /\ ram[job[c].type][f] = Recorded(c)[f]
      /\ Recorded(c)[f] = job[c].vals[f] \/ f \in unseen[job[c].type]
  BY <1>2, <1>3 DEF ReportOK
<1>5. /\ ram'[job[c].type][f] = ram[job[c].type][f]
      /\ f \in unseen[job[c].type] => f \in unseen'[job[c].type]
  BY <1>2, <1>3
<1> QED BY <1>3, <1>4, <1>5

LEMMA ReportStays ==
    ASSUME NEW c, ReportOK(c), Stays(c),
           job[c].pc # "idle" /\ ~job[c].late /\ ~job'[c].late => \A f \in Asked(c) :
                /\ ram'[job[c].type][f] = ram[job[c].type][f]
                /\ f \in unseen[job[c].type] => f \in unseen'[job[c].type]
    PROVE  ReportOK(c)'
<1>1. CASE job'[c].pc = "idle"
  BY <1>1 DEF ReportOK
<1>2. CASE job'[c].pc # "idle"
  <2>1. SameJob(c) /\ job'[c].pc = job[c].pc /\ (job[c].late => job'[c].late)
    BY <1>2 DEF Stays
  <2>2. job[c].pc # "idle"
    BY <2>1 DEF SameJob
  <2> QED BY <2>1, <2>2, ReportOn
<1> QED BY <1>1, <1>2

LEMMA AskedFields ==
    ASSUME Shape, NEW c \in Callers, job[c].pc # "idle"
    PROVE  /\ job[c].type \in site /\ Asked(c) \subseteq DOMAIN job[c].vals
           /\ DOMAIN job[c].vals \subseteq Touched(c) /\ DOMAIN job[c].vals \subseteq Fields(job[c].type)
BY JobSetter, AskedIs DEF Touched

\* Steps that change neither the states on record nor what clients have been told.
LEMMA QuietSeen ==
    ASSUME Shape, SeenInv, site' = site, \A c \in Callers : Stays(c), StatesKept,
           UNCHANGED <<seen, unseen, hushed>>, upd.pc = "tell" => upd' = upd
    PROVE  SeenInv'
<1>1. ASSUME NEW t \in site, NEW f \in Fields(t) PROVE SeenOK(t, f)'
  <2>1. ram'[t][f] = ram[t][f]
    BY DEF StatesKept
  <2>2. Telling(t, f) => Telling(t, f)'
    BY DEF Telling
  <2>3. Still(t, f) /\ SeenOK(t, f)
    BY <2>1, <2>2 DEF Still, SeenInv
  <2>4. \A c \in Callers : Reports(c, t, f) => Reports(c, t, f)'
    BY <2>1, ReportsStay
  <2> QED BY <2>3, <2>4, SeenStill
<1>2. ASSUME NEW c \in Callers PROVE ReportOK(c)'
  <2>1. job[c].pc # "idle" => \A f \in Asked(c) : ram'[job[c].type][f] = ram[job[c].type][f]
    BY AskedFields DEF StatesKept
  <2> QED BY <2>1, ReportStays DEF SeenInv
<1> QED BY <1>1, <1>2 DEF SeenInv

LEMMA SpareSeen ==
    ASSUME Shape, SeenInv,
           \/ Answered \/ Unanswered \/ GiveUp \/ Change \/ Receive \/ Compare
           \/ (\E d \in Callers : SetChangeRpt(d)) \/ UNCHANGED vars
    PROVE  SeenInv'
<1>1. \A c \in Callers : Stays(c)
  BY AllStay
<1>2. UNCHANGED <<site, seen, unseen, hushed>> /\ (upd.pc = "tell" => upd' = upd)
  BY DEF Answered, Unanswered, GiveUp, Change, Receive, Compare, SetChangeRpt, vars
<1>3. StatesKept
  <2>1. CASE UNCHANGED vars
    BY <2>1 DEF vars, StatesKept
  <2> QED BY <2>1, KeptStates
<1> QED BY <1>1, <1>2, <1>3, QuietSeen

LEMMA CallerSeen ==
    ASSUME Shape, SeenInv, NEW c \in Callers, Begin(c) \/ Queue(c) \/ Drive(c)
    PROVE  SeenInv'
<1>1. UNCHANGED <<site, ram, upd, seen, unseen, hushed>>
  BY Zenon DEF Begin, Queue, Drive
<1>2. /\ \A d \in Callers \ {c} : Stays(d)
      /\ \/ job[c].pc \notin {"drive", "report"} /\ job'[c].pc \notin {"drive", "report"}
         \/ /\ SameJob(c) /\ (job[c].late => job'[c].late)
            /\ job[c].pc = "drive" /\ job[c].report /\ job'[c].pc = "report"
         \/ job'[c].pc = "idle" /\ ~job[c].report
  <2>1. CASE Begin(c)
    <3>1. PICK j : BeginSays(c, j) /\ Begun(c, j)
      BY <2>1, BeginJob
    <3>2. job[c].pc = "idle" /\ job'[c] = j /\ j.pc \in {"write", "queue"}
      BY <2>1, <3>1, Zenon DEF Begin, BeginSays, Begun
    <3> QED BY <3>1, <3>2, BegunStay
  <2>2. CASE Queue(c)
    <3>1. job[c].pc = "queue"
      BY <2>2 DEF Queue
    <3>2. Continues(c, "write", job[c].late) \/ Continues(c, "write", TRUE)
      BY <2>2, QueueJob
    <3>3. job[c].pc # "idle"
      BY <3>1
    <3>4. (\A d \in Callers \ {c} : Stays(d)) /\ job'[c].pc = "write"
      BY <3>2, <3>3, ContinuesStay
    <3> QED BY <3>1, <3>4
  <2>3. CASE Drive(c)
    <3>1. job[c].pc = "drive"
      BY <2>3 DEF Drive
    <3>2. PICK p \in {"idle", "report"} :
            Continues(c, p, job[c].late) /\ (p = "report" <=> job[c].report)
      BY <2>3, DriveJob
    <3>3. /\ \A d \in Callers \ {c} : Stays(d)
          /\ p # "idle" => SameJob(c)
          /\ job'[c].pc = p /\ job'[c].late = job[c].late
      BY <3>1, <3>2, ContinuesStay
    <3> QED BY <3>1, <3>2, <3>3
  <2> QED BY <2>1, <2>2, <2>3
<1>3. ASSUME NEW t \in site, NEW f \in Fields(t) PROVE SeenOK(t, f)'
  <2>1. Still(t, f) /\ SeenOK(t, f)
    BY <1>1 DEF Still, SeenInv, Telling
  <2>2. ASSUME NEW d \in Callers, Reports(d, t, f) PROVE Reports(d, t, f)'
    <3>1. CASE d # c
      BY <1>1, <1>2, <2>2, <3>1, ReportsStay
    <3>2. CASE d = c
      <4>1. job[c].pc \in {"drive", "report"} /\ job[c].report
        BY <2>2, <3>2 DEF Reports
      <4>2. SameJob(c) /\ (job[c].late => job'[c].late) /\ job'[c].pc = "report"
        BY <1>2, <4>1
      <4> QED BY <1>1, <2>2, <3>2, <4>2, ReportsOn
    <3> QED BY <3>1, <3>2
  <2> QED BY <2>1, <2>2, SeenStill
<1>4. ASSUME NEW d \in Callers PROVE ReportOK(d)'
  <2>1. CASE d # c
    BY <1>1, <1>2, <2>1, ReportStays DEF SeenInv
  <2>2. CASE d = c /\ job'[c].pc \notin {"drive", "report"}
    BY <2>2 DEF ReportOK
  <2>3. CASE d = c /\ job'[c].pc \in {"drive", "report"}
    <3>1. SameJob(c) /\ (job[c].late => job'[c].late) /\ job[c].pc = "drive"
      BY <1>2, <2>3
    <3> QED BY <1>1, <2>3, <3>1, ReportOn DEF SeenInv
  <2> QED BY <2>1, <2>2, <2>3
<1> QED BY <1>1, <1>3, <1>4 DEF SeenInv

LEMMA ReportSeen ==
    ASSUME Shape, SeenInv, NEW c \in Callers, ReportSet(c)
    PROVE  SeenInv'
<1>1. /\ UNCHANGED <<site, ram, upd, hushed>> /\ job[c].pc = "report"
      /\ job' = [job EXCEPT ![c] = [pc |-> "idle"]]
  BY DEF ReportSet
<1>2. job'[c].pc = "idle" /\ \A d \in Callers \ {c} : Stays(d)
  BY <1>1, DoneStay
<1>3. PICK t : t = job[c].type
  OBVIOUS
<1>4. PICK w : w = [f \in Asked(c) |-> job[c].vals[f]]
  OBVIOUS
<1>5. t \in site /\ Asked(c) \subseteq Fields(t)
  BY <1>1, <1>3, AskedFields
<1>6. seen' = [seen EXCEPT ![t] = Over(w, @)]
  BY <1>3, <1>4 DEF ReportSet, Told
<1>7. unseen' = [unseen EXCEPT ![t] = IF job[c].late THEN @ \cup Asked(c) ELSE @]
  BY <1>3 DEF ReportSet
<1>8. DOMAIN unseen = site /\ DOMAIN seen = site /\ \A u \in site : DOMAIN seen[u] = Fields(u)
  BY DEF Shape, DevicesOK, StatesOf, FieldsOf
<1>9. \A u \in site : u # t => seen'[u] = seen[u] /\ unseen'[u] = unseen[u]
  BY <1>6, <1>7, <1>8
<1>10. seen'[t] = Over(w, seen[t])
       /\ unseen'[t] = IF job[c].late THEN unseen[t] \cup Asked(c) ELSE unseen[t]
  BY <1>5, <1>6, <1>7, <1>8
<1>11. \A f \in Asked(c) : seen'[t][f] = job[c].vals[f]
  BY <1>4, <1>10 DEF Over
<1>12. \A f \in Fields(t) \ Asked(c) : seen'[t][f] = seen[t][f]
  <2>1. DOMAIN w = Asked(c)
    BY <1>4
  <2> QED BY <1>5, <1>8, <1>10, <2>1 DEF Over
<1>13. job[c].report /\ job[c].late \in BOOLEAN
  BY <1>1, JobIs DEF IsJob
<1>14. ASSUME NEW u \in site, NEW f \in Fields(u) PROVE SeenOK(u, f)'
  <2>1. SeenOK(u, f)
    BY DEF SeenInv
  <2>2. CASE u = t /\ f \in Asked(c)
    <3>1. CASE f \in unseen'[t]
      BY <2>2, <3>1 DEF SeenOK
    <3>2. CASE f \notin unseen'[t]
      <4>1. ~job[c].late /\ f \notin unseen[t]
        BY <1>10, <1>13, <2>2, <3>2
      <4>2. ReportOK(c)
        BY DEF SeenInv
      <4>3. ram[t][f] = job[c].vals[f]
        BY <1>1, <1>3, <1>13, <2>2, <4>1, <4>2 DEF ReportOK
      <4>4. seen'[u][f] = ram'[u][f]
        BY <1>1, <1>11, <2>2, <4>3
      <4> QED BY <4>4 DEF SeenOK
    <3> QED BY <3>1, <3>2
  <2>3. CASE ~(u = t /\ f \in Asked(c))
    <3>1. seen'[u][f] = seen[u][f] /\ (f \in unseen[u] => f \in unseen'[u])
      BY <1>9, <1>10, <1>12, <2>3
    <3>2. Still(u, f)
      BY <1>1, <3>1 DEF Still, Telling
    <3>3. ASSUME NEW d \in Callers, Reports(d, u, f) PROVE Reports(d, u, f)'
      <4>1. d # c
        BY <1>3, <2>3, <3>3 DEF Reports
      <4> QED BY <1>1, <1>2, <3>3, <4>1, ReportsStay
    <3> QED BY <2>1, <3>2, <3>3, SeenStill
  <2> QED BY <2>2, <2>3
<1>15. ASSUME NEW d \in Callers PROVE ReportOK(d)'
  <2>1. CASE d = c
    BY <1>2, <2>1 DEF ReportOK
  <2>2. CASE d # c
    <3>1. \A u : unseen[u] \subseteq unseen'[u] \/ u \notin site
      BY <1>9, <1>10
    <3>2. job[d].pc # "idle" => job[d].type \in site
      BY AskedFields
    <3> QED BY <1>1, <1>2, <2>2, <3>1, <3>2, ReportStays DEF SeenInv
  <2> QED BY <2>1, <2>2
<1> QED BY <1>1, <1>14, <1>15 DEF SeenInv

\* What writing the record does to what clients may see wrong.
LEMMA WriteMarks ==
    ASSUME Shape, NEW c \in Callers, WriteRecord(c), NEW t, t = job[c].type
    PROVE  /\ \A u \in site : u # t => unseen'[u] = unseen[u] /\ hushed'[u] = hushed[u]
           /\ \A f : f \notin DOMAIN job[c].vals =>
                /\ f \in unseen[t] => f \in unseen'[t]
                /\ f \in hushed[t] => f \in hushed'[t]
           /\ c \notin Api => \A f \in DOMAIN job[c].vals : f \in hushed'[t]
           /\ c \in Api => \A f \in DOMAIN job[c].vals :
                \/ f \in unseen'[t]
                \/ /\ job[c].report /\ ~job[c].late /\ f \in Asked(c)
                   /\ Recorded(c)[f] = job[c].vals[f]
           /\ \A f : f \in unseen[t] =>
                \/ f \in unseen'[t]
                \/ ~job[c].late /\ f \in DOMAIN job[c].vals
           /\ c \notin Api => unseen[t] \subseteq unseen'[t]
<1>1. PICK fields : fields = DOMAIN job[c].vals
  OBVIOUS
<1>2. PICK told : told = {f \in fields \cap Asked(c) :
                        job[c].report /\ ~job[c].late /\ Recorded(c)[f] = job[c].vals[f]}
  OBVIOUS
<1>3. DOMAIN unseen = site /\ DOMAIN hushed = site /\ t \in site
  <2>1. job[c].pc # "idle"
    BY DEF WriteRecord
  <2> QED BY <2>1, AskedFields DEF Shape, DevicesOK, FieldsOf
<1>4. CASE c \in Api
  <2>1. /\ unseen' = [unseen EXCEPT ![t] = (@ \cup fields) \ told]
        /\ hushed' = [hushed EXCEPT ![t] = @ \ told]
    BY <1>1, <1>2, <1>4 DEF WriteRecord
  <2>2. /\ unseen'[t] = (unseen[t] \cup fields) \ told /\ hushed'[t] = hushed[t] \ told
        /\ \A u \in site : u # t => unseen'[u] = unseen[u] /\ hushed'[u] = hushed[u]
    BY <1>3, <2>1
  <2>3. \A f \in told : /\ f \in fields /\ f \in Asked(c) /\ job[c].report /\ ~job[c].late
                        /\ Recorded(c)[f] = job[c].vals[f]
    BY <1>2
  <2> HIDE <1>2
  <2> QED BY <1>1, <1>4, <2>2, <2>3
<1>5. CASE c \notin Api
  <2>1. PICK A : A = IF job[c].late \/ Read(t, "changerpt") = 0 THEN unseen[t] \cup fields
                     ELSE unseen[t]
    OBVIOUS
  <2>2. /\ unseen' = [unseen EXCEPT ![t] = A]
        /\ hushed' = [hushed EXCEPT ![t] = @ \cup fields]
    BY <1>1, <1>5, <2>1 DEF WriteRecord
  <2>3. /\ unseen'[t] = A /\ hushed'[t] = hushed[t] \cup fields
        /\ \A u \in site : u # t => unseen'[u] = unseen[u] /\ hushed'[u] = hushed[u]
    BY <1>3, <2>2
  <2>4. unseen[t] \subseteq A
    BY <2>1
  <2> QED BY <1>1, <1>5, <2>3, <2>4
<1> QED BY <1>4, <1>5

LEMMA WriteSeen ==
    ASSUME Shape, Late, SeenInv, NEW c \in Callers, WriteRecord(c)
    PROVE  SeenInv'
<1>1. UNCHANGED <<site, upd, seen>> /\ job[c].pc = "write"
  BY DEF WriteRecord
<1>2. PICK t, fields, vals : t = job[c].type /\ fields = DOMAIN job[c].vals /\ vals = Recorded(c)
  OBVIOUS
<1>3. PICK p \in {"idle", "drive", "report"} :
        /\ Continues(c, p, job[c].late)
        /\ p = "idle" <=> t # "sonos" /\ ~job[c].report
  BY <1>2, WriteRecordJob
<1>4. Written(t, vals) /\ t \in site /\ DOMAIN vals = fields /\ fields \subseteq Fields(t)
  BY <1>1, <1>2, WriteRecordJob, RecordedIs, AskedFields
<1>5. /\ \A d \in Callers \ {c} : Stays(d)
      /\ p # "idle" => SameJob(c)
      /\ job'[c].pc = p /\ job'[c].late = job[c].late
  BY <1>1, <1>3, ContinuesStay
<1>6. /\ IsJob(site, ModeOf, c, job[c]) /\ Asked(c) \subseteq fields
      /\ job[c].report \in BOOLEAN /\ job[c].late \in BOOLEAN /\ (job[c].report => c \in Api)
  BY <1>1, <1>2, JobIs, AskedFields DEF IsJob
<1>7. \A f \in fields : ram'[t][f] = vals[f]
  BY <1>4 DEF Written
<1>8. ASSUME NEW u \in site, NEW f \in Fields(u) PROVE SeenOK(u, f)'
  <2>1. CASE u = t /\ f \in fields
    <3>1. CASE f \in unseen'[t] \cup hushed'[t]
      BY <2>1, <3>1 DEF SeenOK
    <3>2. CASE f \notin unseen'[t] \cup hushed'[t]
      <4>1. c \in Api
        BY <1>2, <2>1, <3>2, WriteMarks
      <4>2. /\ job[c].report /\ ~job[c].late /\ f \in Asked(c)
            /\ vals[f] = job[c].vals[f]
        BY <1>2, <2>1, <3>2, <4>1, WriteMarks
      <4>3. p \in {"drive", "report"} /\ SameJob(c)
        BY <1>3, <1>5, <4>2
      <4>4. Asked(c)' = Asked(c)
        BY <4>3, SameJobIs
      <4>5. ram'[u][f] = job'[c].vals[f]
        BY <1>7, <2>1, <4>2, <4>3 DEF SameJob
      <4>6. Reports(c, u, f)'
        BY <1>2, <1>5, <2>1, <4>2, <4>3, <4>4, <4>5 DEF Reports, SameJob
      <4> QED BY <4>6 DEF SeenOK
    <3> QED BY <3>1, <3>2
  <2>2. CASE ~(u = t /\ f \in fields)
    <3>1. ram'[u][f] = ram[u][f]
      BY <1>4, <2>2, WrittenFields
    <3>2. (f \in unseen[u] => f \in unseen'[u]) /\ (f \in hushed[u] => f \in hushed'[u])
      BY <1>2, <2>2, WriteMarks
    <3>3. Still(u, f) /\ SeenOK(u, f)
      BY <1>1, <3>1, <3>2 DEF Still, Telling, SeenInv
    <3>4. ASSUME NEW d \in Callers, Reports(d, u, f) PROVE Reports(d, u, f)'
      <4>1. d # c
        BY <1>1, <3>4 DEF Reports
      <4> QED BY <1>5, <3>1, <3>4, <4>1, ReportsStay
    <3> QED BY <3>3, <3>4, SeenStill
  <2> QED BY <2>1, <2>2
<1>9. ReportOK(c)'
  <2> SUFFICES ASSUME job'[c].pc \in {"drive", "report"}, job'[c].report, ~job'[c].late
               PROVE  \A f \in Asked(c)' :
                        /\ ram'[job'[c].type][f] = Recorded(c)'[f]
                        /\ \/ Recorded(c)'[f] = job'[c].vals[f]
                           \/ f \in unseen'[job'[c].type]
    BY DEF ReportOK
  <2>1. SameJob(c)
    BY <1>5
  <2>2. Asked(c)' = Asked(c) /\ Recorded(c)' = vals
    BY <1>2, <2>1, SameJobIs
  <2>3. job'[c].type = t /\ job'[c].vals = job[c].vals /\ job[c].report
    BY <1>2, <2>1 DEF SameJob
  <2>4. c \in Api
    BY <1>6, <2>3
  <2>5. ASSUME NEW f \in Asked(c)
        PROVE  ram'[t][f] = vals[f] /\ (vals[f] = job[c].vals[f] \/ f \in unseen'[t])
    <3>1. f \in fields
      BY <1>6
    <3>2. vals[f] = job[c].vals[f] \/ f \in unseen'[t]
      BY <1>2, <2>4, <3>1, WriteMarks
    <3> QED BY <1>7, <3>1, <3>2
  <2> QED BY <2>2, <2>3, <2>5
<1>10. ASSUME NEW d \in Callers \ {c} PROVE ReportOK(d)'
  <2>1. ASSUME job[d].pc # "idle", ~job[d].late, NEW f \in Asked(d)
        PROVE  /\ ram'[job[d].type][f] = ram[job[d].type][f]
               /\ f \in unseen[job[d].type] => f \in unseen'[job[d].type]
    <3>1. /\ job[d].type \in site /\ f \in Touched(d) /\ f \in Fields(job[d].type)
      BY <2>1, AskedFields
    <3>2. fields \subseteq Touched(c)
      BY <1>1, <1>2, AskedFields
    <3>3. job[d].type # t \/ f \notin fields
      BY <1>1, <1>2, <2>1, <3>1, <3>2 DEF Late
    <3>4. ram'[job[d].type][f] = ram[job[d].type][f]
      BY <1>4, <3>1, <3>3, WrittenFields
    <3>5. f \in unseen[job[d].type] => f \in unseen'[job[d].type]
      BY <1>2, <3>1, <3>3, WriteMarks
    <3> QED BY <3>4, <3>5
  <2> QED BY <1>5, <2>1, ReportStays DEF SeenInv
<1> QED BY <1>1, <1>8, <1>9, <1>10 DEF SeenInv

\* A step of the event task on field f of t, that those who set it notice.
ElseKept(t, f) ==
    \A u \in site : \A g \in Fields(u) : u # t \/ g # f =>
        ram'[u][g] = ram[u][g] /\ (g \in unseen[u] => g \in unseen'[u])

LEMMA MarkedReports ==
    ASSUME Shape, SeenInv, NEW t \in site, NEW f, Marks(t, {f}), ElseKept(t, f)
    PROVE  /\ \A c \in Callers : ReportOK(c)'
           /\ \A c \in Callers : Stays(c)
<1>1. \A c \in Callers : Stays(c)
  BY MarksStay
<1>2. ASSUME NEW c \in Callers PROVE ReportOK(c)'
  <2>1. ASSUME job[c].pc # "idle", ~job'[c].late, NEW g \in Asked(c)
        PROVE  /\ ram'[job[c].type][g] = ram[job[c].type][g]
               /\ g \in unseen[job[c].type] => g \in unseen'[job[c].type]
    <3>1. job[c].type \in site /\ g \in Touched(c) /\ g \in Fields(job[c].type)
      BY <2>1, AskedFields
    <3>2. job[c].type # t \/ {f} \cap Touched(c) = {}
      BY <2>1, MarksStay
    <3>3. job[c].type # t \/ g # f
      BY <3>1, <3>2
    <3> QED BY <3>1, <3>3 DEF ElseKept
  <2> QED BY <1>1, <2>1, ReportStays DEF SeenInv
<1> QED BY <1>1, <1>2

LEMMA PutSeen ==
    ASSUME Shape, SeenInv, Put
    PROVE  SeenInv'
<1>1. PICK t, f : t = upd.type /\ f = upd.field
  OBVIOUS
<1>2. /\ upd.pc = "put" /\ Marks(t, {f}) /\ UNCHANGED <<site, seen, unseen, hushed>>
      /\ UpdTo("tell")
  BY <1>1, PutIs
<1>3. PICK vals : PutSays(vals) /\ Written(t, vals)
  BY <1>1, PutIs
<1>4. t \in site
  BY <1>1, <1>2, UpdIs
<1>5. DOMAIN vals \subseteq {f, "count"} /\ "count" \notin Fields(t)
  BY <1>1, <1>3 DEF PutSays
<1>6. ASSUME NEW u \in site, NEW g \in Fields(u), u # t \/ g # f
      PROVE  ram'[u][g] = ram[u][g]
  <2>1. u # t \/ g \notin DOMAIN vals
    BY <1>5, <1>6
  <2> QED BY <1>3, <1>4, <2>1, WrittenFields
<1>7. (\A c \in Callers : ReportOK(c)') /\ (\A c \in Callers : Stays(c))
  <2>1. ElseKept(t, f)
    BY <1>2, <1>6 DEF ElseKept
  <2> QED BY <1>2, <1>4, <2>1, MarkedReports
<1>8. ASSUME NEW u \in site, NEW g \in Fields(u) PROVE SeenOK(u, g)'
  <2>1. CASE u = t /\ g = f
    <3>1. Telling(u, g)'
      BY <1>1, <1>2, <2>1 DEF UpdTo, Telling
    <3> QED BY <3>1 DEF SeenOK
  <2>2. CASE u # t \/ g # f
    <3>1. Still(u, g) /\ SeenOK(u, g)
      BY <1>2, <1>6, <2>2 DEF Still, Telling, SeenInv
    <3>2. \A c \in Callers : Reports(c, u, g) => Reports(c, u, g)'
      BY <1>6, <1>7, <2>2, ReportsStay
    <3> QED BY <3>1, <3>2, SeenStill
  <2> QED BY <2>1, <2>2
<1> QED BY <1>2, <1>7, <1>8 DEF SeenInv

LEMMA NotifiedSeen ==
    ASSUME Shape, SeenInv, Notified
    PROVE  SeenInv'
<1>1. PICK f, v : f = events[1].field /\ v = events[1].val
  OBVIOUS
<1>2. PICK t : t = "sonos"
  OBVIOUS
<1>3. /\ t \in site /\ f \in Fields(t) /\ UNCHANGED <<site, upd, seen, hushed>>
      /\ Marks(t, {f})
      /\ unseen' = [unseen EXCEPT ![t] = IF ram[t][f] # v THEN @ \cup {f} ELSE @]
  <2>1. /\ "sonos" \in site /\ f \in Fields("sonos") /\ UNCHANGED <<site, upd, seen, hushed>>
        /\ Marks("sonos", {f})
    BY <1>1, NotifiedIs
  <2>2. unseen' = [unseen EXCEPT !["sonos"] =
                    IF ram["sonos"][f] # v THEN @ \cup {f} ELSE @]
    BY <1>1, NotifiedIs
  <2> QED BY <1>2, <2>1, <2>2
<1>4. PICK w : DOMAIN w = {f} /\ w[f] = v /\ Written(t, w)
  BY <1>1, <1>2, NotifiedIs
<1>5. DOMAIN unseen = site
  BY DEF Shape, DevicesOK, FieldsOf
<1>6. ram'[t][f] = v /\ (ram[t][f] # v => f \in unseen'[t])
      /\ \A u \in site : unseen[u] \subseteq unseen'[u]
  BY <1>3, <1>4, <1>5 DEF Written
<1>7. ASSUME NEW u \in site, NEW g \in Fields(u), u # t \/ g # f
      PROVE  ram'[u][g] = ram[u][g]
  <2>1. u # t \/ g \notin DOMAIN w
    BY <1>4, <1>7
  <2>2. t \in site /\ Written(t, w)
    BY <1>3, <1>4
  <2> QED BY <2>1, <2>2, WrittenFields
<1>8. (\A c \in Callers : ReportOK(c)') /\ (\A c \in Callers : Stays(c))
  <2>1. ElseKept(t, f)
    BY <1>6, <1>7 DEF ElseKept
  <2>2. t \in site /\ Marks(t, {f})
    BY <1>3
  <2> QED BY <2>1, <2>2, MarkedReports
<1>9. ASSUME NEW u \in site, NEW g \in Fields(u) PROVE SeenOK(u, g)'
  <2>1. CASE u = t /\ g = f /\ ram[t][f] # v
    BY <1>6, <2>1 DEF SeenOK
  <2>2. CASE ~(u = t /\ g = f /\ ram[t][f] # v)
    <3>1. ram'[u][g] = ram[u][g]
      BY <1>6, <1>7, <2>2
    <3>2. Still(u, g) /\ SeenOK(u, g)
      BY <1>3, <1>6, <3>1 DEF Still, Telling, SeenInv
    <3>3. \A c \in Callers : Reports(c, u, g) => Reports(c, u, g)'
      BY <1>8, <3>1, ReportsStay
    <3> QED BY <3>2, <3>3, SeenStill
  <2> QED BY <2>1, <2>2
<1> QED BY <1>3, <1>8, <1>9 DEF SeenInv

\* What is limited before it is written is nothing that an event is about.
LEMMA Unlimited ==
    ASSUME Shape, upd.pc # "idle", NEW c \in Callers, job[c].pc # "idle",
           job[c].type = upd.type, upd.field \in DOMAIN job[c].vals
    PROVE  Recorded(c)[upd.field] = job[c].vals[upd.field]
<1>1. SUFFICES "record" \notin Setting(c).limits
  BY RecordedIs
<1>2. SUFFICES ASSUME "record" \in Setting(c).limits PROVE FALSE
  OBVIOUS
<1>3. upd.type # "sonos"
  BY UpdIs
<1>4. upd.type = "light" /\ upd.field = "ct"
  BY <1>2, <1>3, JobSetter DEF SetterOK
<1>5. Cluster("light", "ct") \notin DOMAIN SearchOrder
  BY DEF Cluster, SearchOrder
<1>6. FirstOf(site, Cluster("light", "ct"), Endpoint("light")) = {}
  BY <1>5 DEF FirstOf
<1> QED BY <1>4, <1>6, UpdIs

LEMMA TellSeen ==
    ASSUME Shape, SeenInv, Tell
    PROVE  SeenInv'
<1>1. PICK t, f : t = upd.type /\ f = upd.field
  OBVIOUS
<1>2. /\ upd.pc = "tell" /\ upd'.pc = "idle" /\ UNCHANGED <<site, ram, job>>
      /\ \/ /\ \E w : DOMAIN w = {f} /\ w[f] = ram[t][f]
                      /\ seen' = [seen EXCEPT ![t] = Over(w, @)]
            /\ unseen' = [unseen EXCEPT ![t] = @ \ {f}]
            /\ hushed' = [hushed EXCEPT ![t] = @ \ {f}]
         \/ /\ unseen' = [unseen EXCEPT ![t] = @ \cup {f}]
            /\ UNCHANGED <<seen, hushed>>
  BY <1>1, TellIs
<1>3. t \in site /\ f \in Fields(t)
  BY <1>1, <1>2, UpdIs
<1>4. /\ DOMAIN unseen = site /\ DOMAIN hushed = site /\ DOMAIN seen = site
      /\ \A u \in site : DOMAIN seen[u] = Fields(u)
  BY DEF Shape, DevicesOK, StatesOf, FieldsOf
<1>5. f \in unseen'[t] \/ seen'[t][f] = ram'[t][f]
  <2>1. CASE unseen' = [unseen EXCEPT ![t] = @ \cup {f}]
    BY <1>3, <1>4, <2>1
  <2>2. ASSUME NEW w, DOMAIN w = {f}, w[f] = ram[t][f], seen' = [seen EXCEPT ![t] = Over(w, @)]
        PROVE  seen'[t][f] = ram'[t][f]
    <3>1. seen'[t] = Over(w, seen[t])
      BY <1>3, <1>4, <2>2
    <3> QED BY <1>2, <2>2, <3>1 DEF Over
  <2> QED BY <1>2, <2>1, <2>2
<1>6. ASSUME NEW u \in site, NEW g \in Fields(u), u # t \/ g # f
      PROVE  /\ seen'[u][g] = seen[u][g] /\ (g \in unseen[u] => g \in unseen'[u])
             /\ (g \in hushed[u] => g \in hushed'[u])
  <2>1. CASE unseen' = [unseen EXCEPT ![t] = @ \cup {f}] /\ UNCHANGED <<seen, hushed>>
    BY <1>3, <1>4, <2>1
  <2>2. ASSUME NEW w, DOMAIN w = {f}, seen' = [seen EXCEPT ![t] = Over(w, @)],
               unseen' = [unseen EXCEPT ![t] = @ \ {f}],
               hushed' = [hushed EXCEPT ![t] = @ \ {f}]
        PROVE  /\ seen'[u][g] = seen[u][g] /\ (g \in unseen[u] => g \in unseen'[u])
               /\ (g \in hushed[u] => g \in hushed'[u])
    <3>1. CASE u # t
      BY <1>3, <1>4, <2>2, <3>1
    <3>2. CASE u = t
      <4>1. /\ seen'[t] = Over(w, seen[t]) /\ unseen'[t] = unseen[t] \ {f}
            /\ hushed'[t] = hushed[t] \ {f}
        BY <1>3, <1>4, <2>2
      <4>2. g # f /\ g \in DOMAIN seen[t]
        BY <1>4, <1>6, <3>2
      <4>3. seen'[t][g] = seen[t][g]
        BY <2>2, <4>1, <4>2 DEF Over
      <4> QED BY <3>2, <4>1, <4>2, <4>3
    <3> QED BY <3>1, <3>2
  <2> QED BY <1>2, <2>1, <2>2
<1>7. \A c \in Callers : Stays(c)
  BY <1>2, SameStay
<1>8. ASSUME NEW u \in site, NEW g \in Fields(u) PROVE SeenOK(u, g)'
  <2>1. CASE u = t /\ g = f
    BY <1>5, <2>1 DEF SeenOK
  <2>2. CASE u # t \/ g # f
    <3>1. ~Telling(u, g)
      BY <1>1, <2>2 DEF Telling
    <3>2. Still(u, g) /\ SeenOK(u, g)
      BY <1>2, <1>6, <2>2, <3>1 DEF Still, SeenInv
    <3>3. \A c \in Callers : Reports(c, u, g) => Reports(c, u, g)'
      BY <1>2, <1>7, ReportsStay
    <3> QED BY <3>2, <3>3, SeenStill
  <2> QED BY <2>1, <2>2
<1>9. ASSUME NEW c \in Callers PROVE ReportOK(c)'
  <2> SUFFICES ASSUME job[c].pc \in {"drive", "report"}, job[c].report, ~job[c].late,
                      NEW g \in Asked(c)
               PROVE  /\ ram[job[c].type][g] = Recorded(c)[g]
                      /\ Recorded(c)[g] = job[c].vals[g] \/ g \in unseen'[job[c].type]
    <3>1. Asked(c)' = Asked(c) /\ Recorded(c)' = Recorded(c)
      BY <1>2 DEF Asked, Recorded, Setting
    <3> QED BY <1>2, <3>1 DEF ReportOK
  <2>1. /\ ram[job[c].type][g] = Recorded(c)[g]
        /\ Recorded(c)[g] = job[c].vals[g] \/ g \in unseen[job[c].type]
    BY DEF SeenInv, ReportOK
  <2>2. job[c].type \in site /\ g \in DOMAIN job[c].vals /\ g \in Fields(job[c].type)
    BY AskedFields
  <2>3. CASE job[c].type = t /\ g = f
    <3>1. Recorded(c)[upd.field] = job[c].vals[upd.field]
      BY <1>1, <1>2, <2>2, <2>3, Unlimited
    <3> QED BY <1>1, <2>1, <2>3, <3>1
  <2>4. CASE job[c].type # t \/ g # f
    BY <1>6, <2>1, <2>2, <2>4
  <2> QED BY <2>3, <2>4
<1> QED BY <1>2, <1>8, <1>9 DEF SeenInv

LEMMA InitSeen == Init => SeenInv
<1> SUFFICES ASSUME Init PROVE SeenInv
  OBVIOUS
<1>1. ASSUME NEW t \in site, NEW f \in Fields(t) PROVE SeenOK(t, f)
  <2>1. seen = [u \in site |-> [g \in Fields(u) |-> ram[u][g]]]
    BY DEF Init
  <2>2. seen[t] = [g \in Fields(t) |-> ram[t][g]]
    BY <2>1
  <2> QED BY <2>2 DEF SeenOK
<1>2. ASSUME NEW c \in Callers PROVE ReportOK(c)
  <2>1. job = [d \in Callers |-> [pc |-> "idle"]]
    BY DEF Init
  <2>2. job[c].pc = "idle"
    BY <2>1
  <2> QED BY <2>2 DEF ReportOK
<1> QED BY <1>1, <1>2 DEF SeenInv

LEMMA NextSeen ==
    ASSUME Shape, Late, SeenInv, [Next]_vars
    PROVE  SeenInv'
<1>1. ASSUME NEW c \in Callers, Begin(c) \/ Queue(c) \/ Drive(c) PROVE SeenInv'
  BY <1>1, CallerSeen
<1>2. ASSUME NEW c \in Callers, WriteRecord(c) PROVE SeenInv'
  BY <1>2, WriteSeen
<1>3. ASSUME NEW c \in Callers, ReportSet(c) PROVE SeenInv'
  BY <1>3, ReportSeen
<1>4. CASE \/ Answered \/ Unanswered \/ GiveUp \/ Change \/ Receive \/ Compare
           \/ (\E d \in Callers : SetChangeRpt(d)) \/ UNCHANGED vars
  BY <1>4, SpareSeen
<1>5. CASE Put
  BY <1>5, PutSeen
<1>6. CASE Tell
  BY <1>6, TellSeen
<1>7. CASE Notified
  BY <1>7, NotifiedSeen
<1> QED BY <1>1, <1>2, <1>3, <1>4, <1>5, <1>6, <1>7 DEF Next

LEMMA SeenMeans == ASSUME SeenInv PROVE SeenTrue
<1> SUFFICES ASSUME Quiet, NEW t \in site, NEW f \in Fields(t) \ (unseen[t] \cup hushed[t])
             PROVE  seen[t][f] = ram[t][f]
  BY DEF SeenTrue
<1>1. SeenOK(t, f)
  BY DEF SeenInv
<1>2. ~Telling(t, f) /\ \A c \in Callers : ~Reports(c, t, f)
  BY DEF Quiet, Telling, Reports
<1> QED BY <1>1, <1>2 DEF SeenOK

\* For every site and any number of callers: when nothing is under way, clients were
\* last told what is on record, except what they may rightly see wrong.
THEOREM DevStateSeen == Spec => []SeenTrue
<1> DEFINE Inv == Shape /\ Late /\ SeenInv
<1>1. Init => Inv
  BY InitShape, InitLate, InitSeen
<1>2. Inv /\ [Next]_vars => Inv'
  BY NextShape, NextLate, NextSeen
<1>3. Inv => SeenTrue
  BY SeenMeans
<1> QED BY <1>1, <1>2, <1>3, PTL DEF Spec

-----------------------------------------------------------------------------
(* What devices tell of themselves. *)

\* Of the devices S it is t that is found for event e, which is about f.
For(S, e, t, f) ==
    e.field = f /\ IF t = "sonos" THEN e.ep = "sonos" ELSE t \in FirstOf(S, e.cluster, e.ep)

Says(es, n, S, t, f) == \E k \in 1..n : For(S, es[k], t, f)
LastSays(es, n, S, t, f, v) ==
    \A k \in 1..n :
        For(S, es[k], t, f) /\ (\A l \in 1..n : l > k => ~For(S, es[l], t, f)) => es[k].val = v

\* Nothing is added for t.
LEMMA SaysNoMore ==
    ASSUME NEW es, NEW n \in Nat, NEW S, NEW t, NEW f, NEW fs, \A k \in 1..n : fs[k] = es[k],
           NEW m \in Nat, \A k \in 1..m : ~For(S, fs[n + k], t, f)
    PROVE  /\ Says(fs, n + m, S, t, f) <=> Says(es, n, S, t, f)
           /\ \A v : LastSays(es, n, S, t, f, v) => LastSays(fs, n + m, S, t, f, v)
<1>1. ASSUME NEW k \in 1..(n + m), For(S, fs[k], t, f)
      PROVE  k \in 1..n /\ fs[k] = es[k]
  <2>1. CASE k \in 1..n
    BY <2>1
  <2>2. CASE k \notin 1..n
    <3>1. k - n \in 1..m /\ n + (k - n) = k
      BY <2>2
    <3>2. ~For(S, fs[n + (k - n)], t, f)
      BY <3>1
    <3> QED BY <1>1, <3>1, <3>2
  <2> QED BY <2>1, <2>2
<1>2. \A k \in 1..n : k \in 1..(n + m) /\ fs[k] = es[k]
  OBVIOUS
<1>3. Says(fs, n + m, S, t, f) <=> Says(es, n, S, t, f)
  BY <1>1, <1>2 DEF Says
<1>4. ASSUME NEW v, LastSays(es, n, S, t, f, v) PROVE LastSays(fs, n + m, S, t, f, v)
  BY <1>1, <1>2, <1>4 DEF LastSays
<1> QED BY <1>3, <1>4

\* Something is, and all of it says v.
LEMMA SaysMore ==
    ASSUME NEW n \in Nat, NEW S, NEW t, NEW f, NEW fs, NEW m \in Nat, NEW v,
           NEW j \in 1..m, For(S, fs[n + j], t, f),
           \A k \in 1..m : For(S, fs[n + k], t, f) => fs[n + k].val = v
    PROVE  Says(fs, n + m, S, t, f) /\ LastSays(fs, n + m, S, t, f, v)
<1>1. n + j \in 1..(n + m)
  OBVIOUS
<1>2. ASSUME NEW k \in 1..(n + m), For(S, fs[k], t, f),
             \A l \in 1..(n + m) : l > k => ~For(S, fs[l], t, f)
      PROVE  fs[k].val = v
  <2>1. ~(n + j > k)
    BY <1>1, <1>2
  <2>2. k - n \in 1..m /\ n + (k - n) = k
    BY <2>1
  <2> QED BY <1>2, <2>2
<1> QED BY <1>1, <1>2 DEF Says, LastSays

\* The first is taken.
LEMMA SaysLess ==
    ASSUME NEW es, NEW n \in Nat \ {0}, NEW S, NEW t, NEW f, NEW v, LastSays(es, n, S, t, f, v),
           NEW fs, \A k \in 1..(n - 1) : fs[k] = es[k + 1]
    PROVE  /\ LastSays(fs, n - 1, S, t, f, v)
           /\ Says(es, n, S, t, f) <=> For(S, es[1], t, f) \/ Says(fs, n - 1, S, t, f)
           /\ For(S, es[1], t, f) /\ ~Says(fs, n - 1, S, t, f) => es[1].val = v
<1>1. \A k \in 1..n : k = 1 \/ (k - 1 \in 1..(n - 1) /\ fs[k - 1] = es[k])
  <2> TAKE k \in 1..n
  <2>1. k = 1 \/ k - 1 \in 1..(n - 1)
    OBVIOUS
  <2>2. (k - 1) + 1 = k
    OBVIOUS
  <2> QED BY <2>1, <2>2
<1>2. \A k \in 1..(n - 1) : k + 1 \in 1..n /\ fs[k] = es[k + 1]
  OBVIOUS
<1>3. LastSays(fs, n - 1, S, t, f, v)
  <2>1. ASSUME NEW k \in 1..(n - 1), For(S, fs[k], t, f),
               \A l \in 1..(n - 1) : l > k => ~For(S, fs[l], t, f)
        PROVE  fs[k].val = v
    <3>1. k + 1 \in 1..n /\ For(S, es[k + 1], t, f)
      BY <1>2, <2>1
    <3>2. ASSUME NEW l \in 1..n, l > k + 1 PROVE ~For(S, es[l], t, f)
      <4>1. l - 1 \in 1..(n - 1) /\ fs[l - 1] = es[l] /\ l - 1 > k
        BY <1>1, <3>2
      <4> QED BY <2>1, <4>1
    <3>3. es[k + 1].val = v
      BY <3>1, <3>2 DEF LastSays
    <3> QED BY <1>2, <3>3
  <2> QED BY <2>1 DEF LastSays
<1>4. 1 \in 1..n
  OBVIOUS
<1>5. Says(es, n, S, t, f) <=> For(S, es[1], t, f) \/ Says(fs, n - 1, S, t, f)
  BY <1>1, <1>2, <1>4 DEF Says
<1>6. ASSUME For(S, es[1], t, f), ~Says(fs, n - 1, S, t, f) PROVE es[1].val = v
  <2>1. ASSUME NEW l \in 1..n, l > 1 PROVE ~For(S, es[l], t, f)
    <3>1. l - 1 \in 1..(n - 1) /\ fs[l - 1] = es[l]
      BY <1>1, <2>1
    <3> QED BY <1>6, <3>1 DEF Says
  <2> QED BY <1>4, <1>6, <2>1 DEF LastSays
<1> QED BY <1>3, <1>5, <1>6

InHand(t, f) == upd.pc \in {"compare", "put"} /\ upd.type = t /\ upd.field = f
Due(t, f) == Says(events, Len(events), site, t, f)
Pend(t, f) == InHand(t, f) \/ Due(t, f)

\* The last that is heard of f of t is what it does.
HeardOK(t, f) ==
    /\ LastSays(events, Len(events), site, t, f, At(t, f))
    /\ InHand(t, f) /\ ~Due(t, f) => upd.val = At(t, f)
HeardInv == \A t \in site : \A f \in WorkingIn(t, ModeOf[t]) : Heard(t, f) => HeardOK(t, f)

LEMMA WorkingFields ==
    ASSUME Shape, NEW t \in site, NEW f \in WorkingIn(t, ModeOf[t])
    PROVE  /\ t \in DevTypes /\ f \in Fields(t) /\ At(t, f) \in Values
           /\ Mode(t) \in Modes(t) /\ f \in WorkingIn(t, Mode(t))
<1>1. DevicesOK
  BY DEF Shape
<1>2. f \in Fields(t)
  BY DEF WorkingIn
<1>3. ModeOf[t] = Mode(t)
  BY DEF ModeOf
<1> QED BY <1>1, <1>2, <1>3, SiteTypes, AtType, Modal

\* Who is found for what u tells of f hears of f, and has it in common with u.
LEMMA ForSaid ==
    ASSUME Shape, NEW u \in site, NEW g \in Fields(u), NEW t \in site, NEW f \in Fields(t), NEW e,
           e.cluster = Cluster(u, g), e.ep = Endpoint(u), e.field = g, For(site, e, t, f)
    PROVE  f = g /\ t \in Sharing(u, f)
<1>1. f = g /\ u \in DevTypes /\ t \in DevTypes
  BY SiteTypes DEF For, Shape
<1>2. CASE t = "sonos"
  <2>1. Endpoint(u) = "sonos"
    BY <1>2 DEF For
  <2>2. u = t
    BY <1>2, <2>1 DEF Endpoint
  <2> QED BY <1>1, <2>2 DEF Sharing
<1>3. CASE t # "sonos"
  <2>1. t \in FirstOf(site, Cluster(u, g), Endpoint(u))
    BY <1>3 DEF For
  <2>2. t \in Receivers(Cluster(u, g), Endpoint(u))
    BY <2>1, FirstIs
  <2>3. Endpoint(t) = Endpoint(u) /\ (t = u \/ g = "power")
    BY <1>1, <2>2, Receiving
  <2> QED BY <1>1, <2>3 DEF Sharing
<1> QED BY <1>2, <1>3

\* Who hears of f is found for what others tell who have it in common.
LEMMA SaidFor ==
    ASSUME Shape, NEW u \in site, NEW t \in site, NEW f \in WorkingIn(t, ModeOf[t]), Heard(t, f),
           f \in Fields(u), t \in Sharing(u, f), NEW e,
           e.cluster = Cluster(u, f), e.ep = Endpoint(u), e.field = f
    PROVE  For(site, e, t, f) /\ Tells(u, f)
<1>1. /\ u \in DevTypes /\ t \in DevTypes /\ f \in Fields(t) /\ Mode(t) \in Modes(t)
      /\ f \in WorkingIn(t, Mode(t))
  BY SiteTypes, WorkingFields DEF Shape
<1>2. t = u \/ (f = "power" /\ Endpoint(t) = Endpoint(u))
  BY DEF Sharing
<1>3. Tells(u, f)
  BY <1>1, <1>2, HeardTells, SharedTold
<1>4. Cluster(u, f) = Cluster(t, f) /\ Endpoint(u) = Endpoint(t)
  BY <1>1, <1>2, SharedTold
<1>5. CASE t = "sonos"
  <2>1. e.ep = "sonos"
    BY <1>4, <1>5 DEF Endpoint
  <2> QED BY <1>3, <1>5, <2>1 DEF For
<1>6. CASE t # "sonos"
  <2>1. Cluster(t, f) # "sonos"
    BY <1>1, <1>6, Clusters
  <2>2. t \in FirstOf(site, Cluster(t, f), Endpoint(t))
    BY <2>1, HearsIs DEF Hears
  <2> QED BY <1>3, <1>4, <1>6, <2>2 DEF For
<1> QED BY <1>5, <1>6

LEMMA SaidFields ==
    ASSUME NEW u, NEW vals, NEW e \in Said(u, vals)
    PROVE  \E g \in DOMAIN vals \cap Fields(u) :
              /\ e.cluster = Cluster(u, g) /\ e.ep = Endpoint(u) /\ e.field = g /\ e.val = vals[g]
              /\ vals[g] # At(u, g) /\ Tells(u, g)
BY DEF Said

LEMMA SayFields ==
    ASSUME NEW u, NEW vals, NEW g \in DOMAIN vals \cap Fields(u), vals[g] # At(u, g), Tells(u, g)
    PROVE  \E e \in Said(u, vals) :
              e.cluster = Cluster(u, g) /\ e.ep = Endpoint(u) /\ e.field = g /\ e.val = vals[g]
<1>1. [cluster |-> Cluster(u, g), ep |-> Endpoint(u), field |-> g, val |-> vals[g]] \in Said(u, vals)
  BY DEF Said
<1> QED BY <1>1

\* What a device becomes it tells those who hear of it.
LEMMA BecameHeard ==
    ASSUME Shape, site' = site, upd' = upd, NEW u \in site, NEW vals, Became(u, vals),
           NEW t \in site, NEW f \in WorkingIn(t, ModeOf[t]), Heard(t, f), HeardOK(t, f)
    PROVE  /\ HeardOK(t, f)' /\ (At(t, f)' # At(t, f) => Due(t, f)')
           /\ Pend(t, f) => Pend(t, f)'
<1>0. f \in Fields(t) /\ IsSeq(events)
  BY WorkingFields DEF Shape, EventsOK
<1>1. PICK m \in Nat : \E q \in [1..m -> Said(u, vals)] :
        /\ events' = events \o q
        /\ \A e \in Said(u, vals) : \E k \in 1..m : q[k] = e
        /\ \A k, l \in 1..m : q[k] = q[l] => k = l
  BY DEF Became
<1>2. PICK q \in [1..m -> Said(u, vals)] :
        events' = events \o q /\ \A e \in Said(u, vals) : \E k \in 1..m : q[k] = e
  BY <1>1
<1>3. PICK n, es, fs : n = Len(events) /\ es = events /\ fs = events'
  OBVIOUS
<1>4. /\ n \in Nat /\ Len(fs) = n + m /\ \A k \in 1..n : fs[k] = es[k]
      /\ \A k \in 1..m : fs[n + k] = q[k]
  <2>1. PICK A : A = Said(u, vals)
    OBVIOUS
  <2>2. IsSeq(es) /\ q \in [1..m -> A] /\ fs = es \o q
    BY <1>0, <1>2, <1>3, <2>1
  <2>3. /\ Len(es) \in Nat /\ Len(es \o q) = Len(es) + m
        /\ \A k \in 1..Len(es) : (es \o q)[k] = es[k]
        /\ \A k \in 1..m : (es \o q)[Len(es) + k] = q[k]
    <3>1. IsSeq(es) /\ q \in [1..m -> A]
      BY <2>2
    <3>2. Len(es) \in Nat /\ Len(es \o q) = Len(es) + m
      BY <3>1, JoinIs
    <3>3. \A k \in 1..Len(es) : (es \o q)[k] = es[k]
      BY <3>1, JoinIs
    <3>4. \A k \in 1..m : (es \o q)[Len(es) + k] = q[k]
      BY <3>1, JoinIs
    <3> QED BY <3>2, <3>3, <3>4
  <2> QED BY <1>3, <2>2, <2>3
<1>5. PICK v, w : v = At(t, f) /\ w = At(t, f)'
  OBVIOUS
<1>6. w = IF f \in DOMAIN vals \cap Fields(u) /\ t \in Sharing(u, f) THEN vals[f] ELSE v
  BY <1>0, <1>5 DEF Became
<1>7. LastSays(es, n, site, t, f, v) /\ (Due(t, f) <=> Says(es, n, site, t, f))
  BY <1>3, <1>5 DEF HeardOK, Due
<1>8. Due(t, f)' <=> Says(fs, n + m, site, t, f)
  BY <1>3, <1>4 DEF Due
<1>9. InHand(t, f)' <=> InHand(t, f)
  BY DEF InHand
<1>10. ASSUME NEW k \in 1..m, For(site, fs[n + k], t, f)
       PROVE  /\ f \in DOMAIN vals \cap Fields(u) /\ t \in Sharing(u, f)
              /\ vals[f] # v /\ fs[n + k].val = vals[f]
  <2>1. PICK e : e = fs[n + k]
    OBVIOUS
  <2>2. e \in Said(u, vals)
    BY <1>2, <1>4, <2>1
  <2>3. PICK g \in DOMAIN vals \cap Fields(u) :
          /\ e.cluster = Cluster(u, g) /\ e.ep = Endpoint(u) /\ e.field = g /\ e.val = vals[g]
          /\ vals[g] # At(u, g)
    BY <2>2, SaidFields
  <2>4. f = g /\ t \in Sharing(u, f)
    BY <1>0, <1>10, <2>1, <2>3, ForSaid
  <2>5. At(t, f) = At(u, f)
    BY <1>0, <2>3, <2>4, AtShared DEF Shape
  <2> QED BY <1>5, <2>1, <2>3, <2>4, <2>5
<1>11. CASE w # v
  <2>1. f \in DOMAIN vals \cap Fields(u) /\ t \in Sharing(u, f) /\ w = vals[f]
    BY <1>6, <1>11
  <2>2. At(u, f) = v
    BY <1>5, <2>1, AtShared DEF Shape
  <2>3. PICK e0 : e0.cluster = Cluster(u, f) /\ e0.ep = Endpoint(u) /\ e0.field = f
    <3> DEFINE x == [cluster |-> Cluster(u, f), ep |-> Endpoint(u), field |-> f]
    <3>1. x.cluster = Cluster(u, f) /\ x.ep = Endpoint(u) /\ x.field = f
      OBVIOUS
    <3> QED BY <3>1
  <2>4. Tells(u, f)
    BY <2>1, <2>3, SaidFor
  <2>5. PICK e \in Said(u, vals) :
          e.cluster = Cluster(u, f) /\ e.ep = Endpoint(u) /\ e.field = f
    BY <1>11, <2>1, <2>2, <2>4, SayFields
  <2>6. For(site, e, t, f)
    BY <2>1, <2>5, SaidFor
  <2>7. PICK j \in 1..m : q[j] = e
    BY <1>2
  <2>8. For(site, fs[n + j], t, f)
    BY <1>4, <2>6, <2>7
  <2>9. \A k \in 1..m : For(site, fs[n + k], t, f) => fs[n + k].val = w
    BY <1>10, <2>1
  <2>10. Says(fs, n + m, site, t, f) /\ LastSays(fs, n + m, site, t, f, w)
    BY <1>4, <2>8, <2>9, SaysMore
  <2>11. LastSays(events, Len(events), site, t, f, At(t, f))'
    BY <1>3, <1>4, <1>5, <2>10
  <2> QED BY <1>8, <2>10, <2>11 DEF HeardOK, Pend
<1>12. CASE w = v
  <2>1. \A k \in 1..m : ~For(site, fs[n + k], t, f)
    BY <1>6, <1>10, <1>12
  <2>2. /\ Says(fs, n + m, site, t, f) <=> Says(es, n, site, t, f)
        /\ LastSays(fs, n + m, site, t, f, v)
    <3>1. n \in Nat /\ \A k \in 1..n : fs[k] = es[k]
      BY <1>4
    <3>2. Says(fs, n + m, site, t, f) <=> Says(es, n, site, t, f)
      BY <2>1, <3>1, SaysNoMore
    <3>3. \A x : LastSays(es, n, site, t, f, x) => LastSays(fs, n + m, site, t, f, x)
      BY <2>1, <3>1, SaysNoMore
    <3> QED BY <1>7, <3>2, <3>3
  <2>3. LastSays(events, Len(events), site, t, f, At(t, f))'
    BY <1>3, <1>4, <1>5, <1>12, <2>2
  <2>4. Due(t, f)' <=> Due(t, f)
    BY <1>7, <1>8, <2>2
  <2>5. InHand(t, f)' /\ ~Due(t, f)' => upd'.val = At(t, f)'
    BY <1>5, <1>9, <1>12, <2>4 DEF HeardOK
  <2> QED BY <1>5, <1>9, <1>12, <2>3, <2>4, <2>5 DEF HeardOK, Pend
<1> QED BY <1>11, <1>12

LEMMA Revived ==
    ASSUME NEW t \in DevTypes, NEW f \in Fields(t), t # "sonos", Heard(t, f), t \notin Sensors
    PROVE  UpdateState[t][f].revives
<1>1. (t \in {"light", "plug"} /\ f = "on") \/ (t = "switch" /\ f \in {"on", "level"})
  BY HeardFields DEF Sensors
<1>2. CASE t = "light" /\ f = "on"
  BY <1>2 DEF UpdateState, LightUpdate, Update
<1>3. CASE t = "plug" /\ f = "on"
  BY <1>3 DEF UpdateState, PlugUpdate, Update
<1>4. CASE t = "switch" /\ f \in {"on", "level"}
  BY <1>4 DEF UpdateState, SwitchUpdate, SwitchUpdateOn, SwitchUpdateLevel, Update
<1> QED BY <1>1, <1>2, <1>3, <1>4

\* What a player tells is for nobody else.
LEMMA SonosFor ==
    ASSUME Shape, NEW e, IsEvent(site, e), NEW t \in site, NEW f \in Fields(t), For(site, e, t, f)
    PROVE  t = "sonos" <=> e.ep = "sonos"
<1>1. CASE t = "sonos"
  BY <1>1 DEF For
<1>2. CASE t # "sonos"
  <2>1. PICK u \in site, v \in Values : \E g \in Fields(u) :
          e = [cluster |-> Cluster(u, g), ep |-> Endpoint(u), field |-> g, val |-> v]
    BY DEF IsEvent
  <2>2. PICK g \in Fields(u) : e.cluster = Cluster(u, g) /\ e.ep = Endpoint(u) /\ e.field = g
    BY <2>1
  <2>3. t \in Sharing(u, f)
    BY <2>2, ForSaid
  <2>4. ASSUME e.ep = "sonos" PROVE FALSE
    <3>1. u = "sonos"
      BY <2>2, <2>4 DEF Endpoint
    <3>2. Endpoint(t) = "sonos"
      BY <1>2, <2>3, <3>1 DEF Sharing, Endpoint
    <3> QED BY <1>2, <3>2 DEF Endpoint
  <2> QED BY <1>2, <2>4
<1> QED BY <1>1, <1>2

LEMMA AtSame ==
    ASSUME UNCHANGED <<site, phys>>, NEW t, NEW f
    PROVE  At(t, f)' = At(t, f)
BY DEF At

LEMMA StillHeard ==
    ASSUME NEW t, NEW f, site' = site
    PROVE  Heard(t, f)' <=> Heard(t, f)
BY DEF Heard, Receivers

\* The first event is taken.
LEMMA TailHeard ==
    ASSUME Shape, UNCHANGED <<site, phys>>, events # <<>>, events' = Tail(events),
           NEW t, NEW f, HeardOK(t, f), NEW e, e = events[1]
    PROVE  /\ LastSays(events', Len(events'), site', t, f, At(t, f)')
           /\ Due(t, f) <=> For(site, e, t, f) \/ Due(t, f)'
           /\ For(site, e, t, f) /\ ~Due(t, f)' => e.val = At(t, f)
<1>1. IsSeq(events)
  BY DEF Shape, EventsOK
<1>2. PICK n, es, fs : n = Len(events) /\ es = events /\ fs = events'
  OBVIOUS
<1>3. n \in Nat \ {0} /\ Len(fs) = n - 1 /\ \A k \in 1..(n - 1) : fs[k] = es[k + 1]
  BY <1>1, <1>2, TailIs
<1>4. PICK v : v = At(t, f)
  OBVIOUS
<1>5. LastSays(es, n, site, t, f, v)
  BY <1>2, <1>4 DEF HeardOK
<1>6. LastSays(fs, n - 1, site, t, f, v)
  BY <1>3, <1>5, SaysLess
<1>7. Says(es, n, site, t, f) <=> For(site, es[1], t, f) \/ Says(fs, n - 1, site, t, f)
  BY <1>3, <1>5, SaysLess
<1>8. For(site, es[1], t, f) /\ ~Says(fs, n - 1, site, t, f) => es[1].val = v
  BY <1>3, <1>5, SaysLess
<1>9. Due(t, f)' <=> Says(fs, n - 1, site, t, f)
  BY <1>2, <1>3 DEF Due
<1>10. Due(t, f) <=> Says(es, n, site, t, f)
  BY <1>2 DEF Due
<1>11. LastSays(events', Len(events'), site', t, f, At(t, f)')
  BY <1>2, <1>3, <1>4, <1>6, AtSame
<1> QED BY <1>2, <1>4, <1>7, <1>8, <1>9, <1>10, <1>11

LEMMA ReceiveHeard ==
    ASSUME Shape, Receive, NEW t \in site, NEW f \in Fields(t), HeardOK(t, f)
    PROVE  /\ HeardOK(t, f)'
           /\ Pend(t, f) => Pend(t, f)' \/ (t \in Sensors /\ f \in stray'[t])
<1>1. PICK e : e = events[1]
  OBVIOUS
<1>2. /\ events # <<>> /\ upd.pc = "idle" /\ events' = Tail(events)
      /\ e.ep # "sonos" /\ IsEvent(site, e)
      /\ UNCHANGED <<site, phys>>
      /\ \/ Receiver(e) = {} /\ UNCHANGED <<ram, file, upd, stray>>
         \/ \E u \in Receiver(e) : Received(u, e)
  BY <1>1, ReceiveIs
<1>3. /\ LastSays(events', Len(events'), site', t, f, At(t, f)')
      /\ Due(t, f) <=> For(site, e, t, f) \/ Due(t, f)'
      /\ For(site, e, t, f) /\ ~Due(t, f)' => e.val = At(t, f)
  BY <1>1, <1>2, TailHeard
<1>4. ~InHand(t, f)
  BY <1>2 DEF InHand
<1>5. At(t, f)' = At(t, f)
  BY <1>2, AtSame
<1>6. For(site, e, t, f) <=> t \in Receiver(e) /\ e.field = f
  <2>1. Receiver(e) = FirstOf(site, e.cluster, e.ep)
    BY FirstIs DEF Receiver
  <2>2. t \in Receiver(e) => t # "sonos"
    BY <1>2, ReceiverOf
  <2>3. For(site, e, t, f) => t # "sonos"
    BY <1>2 DEF For
  <2> QED BY <2>1, <2>2, <2>3 DEF For
<1>7. ASSUME InHand(t, f)' PROVE For(site, e, t, f) /\ upd'.val = e.val
  <2>1. upd' # upd
    BY <1>4, <1>7 DEF InHand
  <2>2. PICK u \in Receiver(e) : Taken(u, e)
    BY <1>2, <2>1 DEF Received
  <2>3. u = t /\ f = e.field /\ upd'.val = e.val
    BY <1>7, <2>2 DEF InHand, Taken
  <2> QED BY <1>6, <2>2, <2>3
<1>8. HeardOK(t, f)'
  <2>1. InHand(t, f)' /\ ~Due(t, f)' => upd'.val = At(t, f)'
    BY <1>3, <1>5, <1>7
  <2> QED BY <1>3, <2>1 DEF HeardOK
<1>9. ASSUME For(site, e, t, f) PROVE InHand(t, f)' \/ (t \in Sensors /\ f \in stray'[t])
  <2>1. t \in Receiver(e) /\ e.field = f
    BY <1>6, <1>9
  <2>2. t # "sonos" /\ Heard(t, f) /\ Receiver(e) = {t}
    BY <1>2, <2>1, ReceiverOf
  <2>3. Received(t, e)
    BY <1>2, <2>2
  <2>4. CASE Taken(t, e)
    BY <2>1, <2>4 DEF Taken, InHand
  <2>5. CASE ~UpdateState[t][e.field].revives /\ stray' = [stray EXCEPT ![t] = @ \cup {e.field}]
    <3>1. t \in DevTypes
      BY SiteTypes DEF Shape
    <3>2. t \in Sensors
      BY <2>1, <2>2, <2>5, <3>1, Revived
    <3>3. t \in DOMAIN stray
      BY DEF Shape, DevicesOK, FieldsOf
    <3> QED BY <2>1, <2>5, <3>2, <3>3
  <2> QED BY <2>3, <2>4, <2>5 DEF Received
<1> QED BY <1>3, <1>4, <1>8, <1>9 DEF Pend

LEMMA NotifiedHeard ==
    ASSUME Shape, Notified, NEW t \in site, NEW f \in Fields(t), HeardOK(t, f)
    PROVE  /\ HeardOK(t, f)'
           /\ Pend(t, f) => Pend(t, f)' \/ (t = "sonos" /\ f = events[1].field)
           /\ t = "sonos" /\ f = events[1].field /\ ~Pend(t, f)' => events[1].val = At(t, f)
<1>1. PICK e : e = events[1]
  OBVIOUS
<1>2. events # <<>> /\ events' = Tail(events) /\ e.ep = "sonos" /\ UNCHANGED <<site, phys, upd>>
  BY <1>1, NotifiedIs
<1>3. /\ LastSays(events', Len(events'), site', t, f, At(t, f)')
      /\ Due(t, f) <=> For(site, e, t, f) \/ Due(t, f)'
      /\ For(site, e, t, f) /\ ~Due(t, f)' => e.val = At(t, f)
  BY <1>1, <1>2, TailHeard
<1>4. IsEvent(site, e)
  BY <1>1, <1>2, HeadEvent
<1>5. For(site, e, t, f) <=> t = "sonos" /\ f = e.field
  BY <1>2, <1>4, SonosFor DEF For
<1>6. InHand(t, f)' <=> InHand(t, f)
  BY <1>2 DEF InHand
<1>7. InHand(t, f) => t # "sonos"
  BY UpdIs DEF InHand
<1>8. At(t, f)' = At(t, f)
  BY <1>2, AtSame
<1>9. InHand(t, f)' /\ ~Due(t, f)' => upd'.val = At(t, f)'
  <2>1. InHand(t, f) => ~For(site, e, t, f)
    BY <1>5, <1>7
  <2>2. InHand(t, f) /\ ~Due(t, f) => upd.val = At(t, f)
    BY DEF HeardOK
  <2> QED BY <1>2, <1>3, <1>6, <1>8, <2>1, <2>2
<1>10. HeardOK(t, f)'
  BY <1>3, <1>9 DEF HeardOK
<1> QED BY <1>1, <1>3, <1>5, <1>6, <1>10 DEF Pend

LEMMA FurtherHeard ==
    ASSUME UNCHANGED <<site, events, phys>>, NEW t, NEW f, HeardOK(t, f),
           InHand(t, f)' => InHand(t, f) /\ upd'.val = upd.val
    PROVE  HeardOK(t, f)' /\ (Due(t, f)' <=> Due(t, f))
<1>1. At(t, f)' = At(t, f)
  BY AtSame
<1>2. Due(t, f)' <=> Due(t, f)
  BY DEF Due
<1>3. LastSays(events', Len(events'), site', t, f, At(t, f)')
  BY <1>1 DEF HeardOK
<1>4. InHand(t, f)' /\ ~Due(t, f)' => upd'.val = At(t, f)'
  BY <1>1, <1>2 DEF HeardOK
<1> QED BY <1>2, <1>3, <1>4 DEF HeardOK

LEMMA InitHeard == Init => HeardInv
<1> SUFFICES ASSUME Init, NEW t \in site, NEW f PROVE HeardOK(t, f)
  BY DEF HeardInv
<1>1. events = <<>> /\ upd = [pc |-> "idle"]
  BY DEF Init
<1>2. Len(events) = 0 /\ 1..Len(events) = {}
  BY <1>1
<1>3. LastSays(events, Len(events), site, t, f, At(t, f))
  BY <1>2 DEF LastSays
<1>4. ~InHand(t, f)
  BY <1>1 DEF InHand
<1> QED BY <1>3, <1>4 DEF HeardOK

\* What each f of each t says is enough.
LEMMA EachHeard ==
    ASSUME Shape, Steady, HeardInv,
           \A t \in site : \A f \in WorkingIn(t, ModeOf[t]) :
              Heard(t, f) /\ HeardOK(t, f) => HeardOK(t, f)'
    PROVE  HeardInv'
<1>1. ASSUME NEW t \in site', NEW f \in WorkingIn(t, ModeOf'[t]), Heard(t, f)'
      PROVE  HeardOK(t, f)'
  <2>1. t \in site /\ f \in WorkingIn(t, ModeOf[t])
    BY <1>1 DEF Steady
  <2>2. Heard(t, f)
    BY <1>1, StillHeard DEF Steady
  <2>3. HeardOK(t, f)
    BY <2>1, <2>2 DEF HeardInv
  <2> QED BY <2>1, <2>2, <2>3
<1> QED BY <1>1 DEF HeardInv

LEMMA SameHeard ==
    ASSUME Shape, Steady, HeardInv, UNCHANGED <<events, phys>>,
           upd' = upd \/ UpdTo("put") \/ upd'.pc \in {"idle", "tell"},
           upd' # upd /\ upd'.pc = "put" => upd.pc = "compare"
    PROVE  HeardInv'
<1>1. ASSUME NEW t \in site, NEW f, HeardOK(t, f) PROVE HeardOK(t, f)'
  <2>1. InHand(t, f)' => InHand(t, f) /\ upd'.val = upd.val
    BY DEF InHand, UpdTo
  <2> QED BY <1>1, <2>1, FurtherHeard DEF Steady
<1> QED BY <1>1, EachHeard

LEMMA ToldHeard ==
    ASSUME Shape, Steady, HeardInv, upd' = upd, NEW u \in site, NEW vals, Became(u, vals)
    PROVE  HeardInv'
<1>1. ASSUME NEW t \in site, NEW f \in WorkingIn(t, ModeOf[t]), Heard(t, f), HeardOK(t, f)
      PROVE  HeardOK(t, f)'
  BY <1>1, BecameHeard DEF Steady
<1> QED BY <1>1, EachHeard

LEMMA CallersHeard ==
    ASSUME Shape, HeardInv, NEW c \in Callers,
           Begin(c) \/ Queue(c) \/ WriteRecord(c) \/ Drive(c) \/ ReportSet(c) \/ SetChangeRpt(c)
    PROVE  HeardInv'
<1>1. Steady
  BY BeginShape, QueueShape, WriteRecordShape, DriveShape, ReportShape, SetChangeRptShape
<1>2. upd' = upd
  BY Zenon DEF Begin, Queue, WriteRecord, Drive, ReportSet, SetChangeRpt
<1>3. CASE Drive(c)
  <2>1. /\ "sonos" \in site
        /\ Became("sonos", Command(c)) \/ UNCHANGED <<phys, events>>
    BY <1>3, DriveJob
  <2> QED BY <1>1, <1>2, <2>1, SameHeard, ToldHeard
<1>4. CASE ~Drive(c)
  <2>1. UNCHANGED <<events, phys>>
    BY <1>4, Zenon DEF Begin, Queue, WriteRecord, ReportSet, SetChangeRpt
  <2> QED BY <1>1, <1>2, <2>1, SameHeard
<1> QED BY <1>3, <1>4

LEMMA CommandsHeard ==
    ASSUME Shape, HeardInv, Answered \/ Unanswered \/ GiveUp \/ Change
    PROVE  HeardInv'
<1>1. Steady
  BY AnsweredShape, UnansweredShape, GiveUpShape, ChangeShape
<1>2. upd' = upd
  BY DEF Answered, Unanswered, GiveUp, Change
<1>3. CASE Answered
  <2>1. \/ cmds[1].to \in site /\ Became(cmds[1].to, cmds[1].vals)
        \/ UNCHANGED <<phys, events>>
    BY <1>3, AnsweredIs
  <2> QED BY <1>1, <1>2, <2>1, SameHeard, ToldHeard
<1>4. CASE Unanswered
  <2>1. cmds[1].to \in site /\ Unheeded(cmds[1])
    BY <1>4, UnansweredIs
  <2>2. Became(cmds[1].to, cmds[1].vals) \/ UNCHANGED <<phys, events>>
    BY <2>1 DEF Unheeded
  <2> QED BY <1>1, <1>2, <2>1, <2>2, SameHeard, ToldHeard
<1>5. CASE GiveUp
  <2>1. UNCHANGED <<phys, events>>
    BY <1>5 DEF GiveUp
  <2> QED BY <1>1, <1>2, <2>1, SameHeard
<1>6. CASE Change
  <2>1. PICK t \in site : \E f \in WorkingIn(t, ModeOf[t]), v \in {0, 1} : Changed(t, f, v)
    BY <1>6, ChangeIs
  <2>2. PICK f, v : Changed(t, f, v)
    BY <2>1
  <2>3. Became(t, [g \in {f} |-> v])
    BY <2>2 DEF Changed
  <2>4. PICK vals : vals = [g \in {f} |-> v]
    OBVIOUS
  <2> QED BY <1>1, <1>2, <2>3, <2>4, ToldHeard
<1> QED BY <1>3, <1>4, <1>5, <1>6

LEMMA TaskHeard ==
    ASSUME Shape, HeardInv, Receive \/ Compare \/ Put \/ Tell \/ Notified
    PROVE  HeardInv'
<1>1. Steady
  BY ReceiveShape, CompareShape, PutShape, TellShape, NotifiedShape
<1>2. ASSUME NEW t \in site, NEW f \in WorkingIn(t, ModeOf[t]) PROVE f \in Fields(t)
  BY <1>2 DEF WorkingIn
<1>3. CASE Receive
  <2>1. ASSUME NEW t \in site, NEW f \in WorkingIn(t, ModeOf[t]), HeardOK(t, f)
        PROVE  HeardOK(t, f)'
    BY <1>2, <1>3, <2>1, ReceiveHeard
  <2> QED BY <1>1, <2>1, EachHeard
<1>4. CASE Notified
  <2>1. ASSUME NEW t \in site, NEW f \in WorkingIn(t, ModeOf[t]), HeardOK(t, f)
        PROVE  HeardOK(t, f)'
    BY <1>2, <1>4, <2>1, NotifiedHeard
  <2> QED BY <1>1, <2>1, EachHeard
<1>5. CASE Compare
  <2>1. UNCHANGED <<events, phys>> /\ upd.pc = "compare"
    BY <1>5, CompareIs
  <2>2. PICK p \in {"put", "tell", "idle"} : UpdTo(p)
    BY <1>5, CompareIs
  <2>3. UpdTo("put") \/ upd'.pc \in {"idle", "tell"}
    BY <2>2 DEF UpdTo
  <2> QED BY <1>1, <2>1, <2>3, SameHeard
<1>6. CASE Put
  <2>1. UNCHANGED <<events, phys>> /\ UpdTo("tell")
    BY <1>6, PutIs
  <2>2. upd'.pc = "tell"
    BY <2>1 DEF UpdTo
  <2> QED BY <1>1, <2>1, <2>2, SameHeard
<1>7. CASE Tell
  <2>1. UNCHANGED <<events, phys>> /\ upd'.pc = "idle"
    BY <1>7, TellIs
  <2> QED BY <1>1, <2>1, SameHeard
<1> QED BY <1>3, <1>4, <1>5, <1>6, <1>7

LEMMA NextHeard ==
    ASSUME Shape, HeardInv, [Next]_vars
    PROVE  HeardInv'
<1>1. CASE UNCHANGED vars
  <2>1. Steady
    BY <1>1, SameShape
  <2>2. UNCHANGED <<events, phys, upd>>
    BY <1>1 DEF vars
  <2> QED BY <2>1, <2>2, SameHeard
<1> QED BY <1>1, CallersHeard, CommandsHeard, TaskHeard DEF Next

-----------------------------------------------------------------------------
(* What the commands queued will make of a device. *)

Asks(q, t, f) == q.to = t /\ f \in DOMAIN q.vals
Wrong(cs, n, t, f, a) == \E k \in 1..n : Asks(cs[k], t, f) /\ cs[k].vals[f] # a

\* f of t, now a, ends as v.
Ends(cs, n, t, f, a, v) ==
    /\ (\A k \in 1..n : ~Asks(cs[k], t, f)) => a = v
    /\ \A k \in 1..n :
        Asks(cs[k], t, f) /\ (\A l \in 1..n : l > k => ~Asks(cs[l], t, f)) => cs[k].vals[f] = v

\* One is queued.
LEMMA EndsMore ==
    ASSUME NEW cs, NEW n \in Nat, NEW t, NEW f, NEW a, NEW v, NEW fs,
           \A k \in 1..n : fs[k] = cs[k], ~Asks(fs[n + 1], t, f), Ends(cs, n, t, f, a, v)
    PROVE  Ends(fs, n + 1, t, f, a, v)
<1>1. \A k \in 1..n : k \in 1..(n + 1) /\ fs[k] = cs[k]
  OBVIOUS
<1>2. \A k \in 1..(n + 1) : k \in 1..n \/ k = n + 1
  OBVIOUS
<1>3. (\A k \in 1..(n + 1) : ~Asks(fs[k], t, f)) => a = v
  BY <1>1 DEF Ends
<1>4. ASSUME NEW k \in 1..(n + 1), Asks(fs[k], t, f),
             \A l \in 1..(n + 1) : l > k => ~Asks(fs[l], t, f)
      PROVE  fs[k].vals[f] = v
  <2>1. k \in 1..n /\ Asks(cs[k], t, f)
    BY <1>1, <1>2, <1>4
  <2>2. \A l \in 1..n : l > k => ~Asks(cs[l], t, f)
    BY <1>1, <1>4
  <2> QED BY <1>1, <2>1, <2>2 DEF Ends
<1> QED BY <1>3, <1>4 DEF Ends

LEMMA EndsAsked ==
    ASSUME NEW n \in Nat, NEW t, NEW f, NEW a, NEW fs, Asks(fs[n + 1], t, f)
    PROVE  Ends(fs, n + 1, t, f, a, fs[n + 1].vals[f])
<1>1. n + 1 \in 1..(n + 1)
  OBVIOUS
<1>2. ASSUME NEW k \in 1..(n + 1), \A l \in 1..(n + 1) : l > k => ~Asks(fs[l], t, f)
      PROVE  k = n + 1
  <2>1. ~(n + 1 > k)
    BY <1>1, <1>2
  <2> QED BY <2>1
<1> QED BY <1>1, <1>2 DEF Ends

\* The first is carried out.
LEMMA EndsLess ==
    ASSUME NEW cs, NEW n \in Nat \ {0}, NEW t, NEW f, NEW a, NEW v, NEW fs,
           \A k \in 1..(n - 1) : fs[k] = cs[k + 1], Ends(cs, n, t, f, a, v), NEW b,
           b = IF Asks(cs[1], t, f) THEN cs[1].vals[f] ELSE a
    PROVE  Ends(fs, n - 1, t, f, b, v)
<1>1. \A k \in 1..(n - 1) : k + 1 \in 1..n /\ fs[k] = cs[k + 1]
  OBVIOUS
<1>2. 1 \in 1..n /\ \A l \in 1..n : l # 1 => l - 1 \in 1..(n - 1) /\ fs[l - 1] = cs[l]
  <2>1. ASSUME NEW l \in 1..n, l # 1 PROVE l - 1 \in 1..(n - 1) /\ (l - 1) + 1 = l
    BY <2>1
  <2> QED BY <1>1, <2>1
<1>3. ASSUME \A k \in 1..(n - 1) : ~Asks(fs[k], t, f) PROVE b = v
  <2>1. \A l \in 1..n : l # 1 => ~Asks(cs[l], t, f)
    BY <1>2, <1>3
  <2>2. CASE Asks(cs[1], t, f)
    <3>1. \A l \in 1..n : l > 1 => ~Asks(cs[l], t, f)
      BY <2>1
    <3> QED BY <1>2, <2>2, <3>1 DEF Ends
  <2>3. CASE ~Asks(cs[1], t, f)
    BY <2>1, <2>3 DEF Ends
  <2> QED BY <2>2, <2>3
<1>4. ASSUME NEW k \in 1..(n - 1), Asks(fs[k], t, f),
             \A l \in 1..(n - 1) : l > k => ~Asks(fs[l], t, f)
      PROVE  fs[k].vals[f] = v
  <2>1. ASSUME NEW l \in 1..n, l > k + 1 PROVE ~Asks(cs[l], t, f)
    <3>1. l # 1 /\ l - 1 > k
      BY <2>1
    <3> QED BY <1>2, <1>4, <3>1
  <2> QED BY <1>1, <1>4, <2>1 DEF Ends
<1> QED BY <1>3, <1>4 DEF Ends

-----------------------------------------------------------------------------
(* A device will do v: as soon as what it tells has been dealt with, if it is
   heard; when the commands queued are carried out, if it is not. *)
Will(t, f, v) ==
    IF Heard(t, f)
    THEN Pend(t, f) \/ Wrong(cmds, Len(cmds), t, f, At(t, f)) \/ At(t, f) = v
    ELSE Ends(cmds, Len(cmds), t, f, At(t, f), v)

\* What it does, it tells.
Fares(t, f) ==
    Heard(t, f) => /\ At(t, f)' # At(t, f) => Pend(t, f)'
                   /\ Pend(t, f) => Pend(t, f)'

LEMMA WillOn ==
    ASSUME site' = site, cmds' = cmds, NEW t, NEW f, Fares(t, f),
           ~Heard(t, f) => At(t, f)' = At(t, f), NEW v, Will(t, f, v)
    PROVE  Will(t, f, v)'
<1>1. Heard(t, f)' <=> Heard(t, f)
  BY StillHeard
<1>2. PICK a, b : a = At(t, f) /\ b = At(t, f)'
  OBVIOUS
<1>3. CASE Heard(t, f)
  <2>1. Pend(t, f) \/ Wrong(cmds, Len(cmds), t, f, a) \/ a = v
    BY <1>2, <1>3 DEF Will
  <2>2. Pend(t, f)' \/ (b = a /\ ~Pend(t, f))
    BY <1>2, <1>3 DEF Fares
  <2>3. Pend(t, f)' \/ Wrong(cmds', Len(cmds'), t, f, b) \/ b = v
    BY <2>1, <2>2
  <2> QED BY <1>1, <1>2, <1>3, <2>3 DEF Will
<1>4. CASE ~Heard(t, f)
  <2>1. Ends(cmds, Len(cmds), t, f, a, v)
    BY <1>2, <1>4 DEF Will
  <2>2. Ends(cmds', Len(cmds'), t, f, b, v)
    BY <1>2, <1>4, <2>1
  <2> QED BY <1>1, <1>2, <1>4, <2>2 DEF Will
<1> QED BY <1>3, <1>4

LEMMA WillQueued ==
    ASSUME Shape, UNCHANGED <<site, phys, events, upd>>, NEW q, cmds' = Append(cmds, q),
           NEW t, NEW f
    PROVE  /\ \A v : Will(t, f, v) /\ ~Asks(q, t, f) => Will(t, f, v)'
           /\ Asks(q, t, f) => Will(t, f, q.vals[f])'
<1>1. Heard(t, f)' <=> Heard(t, f)
  BY StillHeard
<1>2. PICK a : a = At(t, f) /\ a = At(t, f)'
  BY AtSame
<1>3. Pend(t, f)' <=> Pend(t, f)
  BY DEF Pend, InHand, Due
<1>4. PICK n, cs, fs : n = Len(cmds) /\ cs = cmds /\ fs = cmds'
  OBVIOUS
<1>5. /\ n \in Nat /\ Len(fs) = n + 1 /\ \A k \in 1..n : fs[k] = cs[k]
      /\ fs[n + 1] = q
  <2>1. IsSeq(cmds)
    BY DEF Shape, CmdsOK
  <2> QED BY <1>4, <2>1, AppendIs
<1>6. \A k \in 1..n : k \in 1..(n + 1)
  BY <1>5
<1>7. n + 1 \in 1..(n + 1)
  BY <1>5
<1>8. CASE Heard(t, f)
  <2>1. Wrong(cs, n, t, f, a) => Wrong(fs, n + 1, t, f, a)
    BY <1>5, <1>6 DEF Wrong
  <2>2. Asks(q, t, f) => Wrong(fs, n + 1, t, f, a) \/ a = q.vals[f]
    BY <1>5, <1>7 DEF Wrong
  <2>3. \A v : Will(t, f, v) <=> Pend(t, f) \/ Wrong(cs, n, t, f, a) \/ a = v
    BY <1>2, <1>4, <1>8 DEF Will
  <2>4. ASSUME NEW v, Pend(t, f) \/ Wrong(fs, n + 1, t, f, a) \/ a = v PROVE Will(t, f, v)'
    <3>1. Pend(t, f)' \/ Wrong(cmds', Len(cmds'), t, f, At(t, f)') \/ At(t, f)' = v
      BY <1>2, <1>3, <1>4, <1>5, <2>4
    <3> QED BY <1>1, <1>8, <3>1 DEF Will
  <2> QED BY <2>1, <2>2, <2>3, <2>4
<1>9. CASE ~Heard(t, f)
  <2>1. ASSUME NEW v, Ends(fs, n + 1, t, f, a, v) PROVE Will(t, f, v)'
    <3>1. Ends(cmds', Len(cmds'), t, f, At(t, f)', v)
      BY <1>2, <1>4, <1>5, <2>1
    <3> QED BY <1>1, <1>9, <3>1 DEF Will
  <2>2. ASSUME NEW v, Will(t, f, v), ~Asks(q, t, f) PROVE Will(t, f, v)'
    <3>1. Ends(cs, n, t, f, a, v)
      BY <1>2, <1>4, <1>9, <2>2 DEF Will
    <3>2. ~Asks(fs[n + 1], t, f)
      BY <1>5, <2>2
    <3>3. Ends(fs, n + 1, t, f, a, v)
      BY <1>5, <3>1, <3>2, EndsMore
    <3> QED BY <2>1, <3>3
  <2>3. ASSUME Asks(q, t, f) PROVE Will(t, f, q.vals[f])'
    <3>1. Asks(fs[n + 1], t, f)
      BY <1>5, <2>3
    <3>2. Ends(fs, n + 1, t, f, a, fs[n + 1].vals[f])
      BY <1>5, <3>1, EndsAsked
    <3>3. PICK v : v = q.vals[f]
      OBVIOUS
    <3>4. Will(t, f, v)'
      BY <1>5, <2>1, <3>2, <3>3
    <3> QED BY <3>3, <3>4
  <2> QED BY <2>2, <2>3
<1> QED BY <1>8, <1>9

\* The first command is dealt with.
LEMMA WillTaken ==
    ASSUME Shape, site' = site, cmds # <<>>, cmds' = Tail(cmds), NEW q, q = cmds[1],
           NEW t, NEW f, Fares(t, f), Asks(q, t, f) => At(t, f)' = q.vals[f],
           ~Asks(q, t, f) /\ ~Heard(t, f) => At(t, f)' = At(t, f), NEW v, Will(t, f, v)
    PROVE  Will(t, f, v)'
<1>1. Heard(t, f)' <=> Heard(t, f)
  BY StillHeard
<1>2. PICK a, b : a = At(t, f) /\ b = At(t, f)'
  OBVIOUS
<1>4. PICK n, cs, fs : n = Len(cmds) /\ cs = cmds /\ fs = cmds'
  OBVIOUS
<1>5. n \in Nat \ {0} /\ Len(fs) = n - 1 /\ \A k \in 1..(n - 1) : fs[k] = cs[k + 1]
  <2>1. IsSeq(cmds)
    BY DEF Shape, CmdsOK
  <2> QED BY <1>4, <2>1, TailIs
<1>6. q = cs[1]
  BY <1>4
<1>7. CASE Heard(t, f)
  <2>1. Pend(t, f) \/ Wrong(cs, n, t, f, a) \/ a = v
    BY <1>2, <1>4, <1>7 DEF Will
  <2>2. Pend(t, f)' \/ (b = a /\ ~Pend(t, f))
    BY <1>2, <1>7 DEF Fares
  <2>3. ASSUME Wrong(cs, n, t, f, a), b = a PROVE Wrong(fs, n - 1, t, f, b)
    <3>1. PICK k \in 1..n : Asks(cs[k], t, f) /\ cs[k].vals[f] # a
      BY <2>3 DEF Wrong
    <3>2. k # 1
      BY <1>2, <1>6, <2>3, <3>1
    <3>3. k - 1 \in 1..(n - 1) /\ (k - 1) + 1 = k
      BY <1>5, <3>2
    <3>4. fs[k - 1] = cs[k]
      BY <1>5, <3>3
    <3> QED BY <2>3, <3>1, <3>3, <3>4 DEF Wrong
  <2>4. Pend(t, f)' \/ Wrong(cmds', Len(cmds'), t, f, b) \/ b = v
    BY <1>4, <1>5, <2>1, <2>2, <2>3
  <2> QED BY <1>1, <1>2, <1>7, <2>4 DEF Will
<1>8. CASE ~Heard(t, f)
  <2>1. Ends(cs, n, t, f, a, v)
    BY <1>2, <1>4, <1>8 DEF Will
  <2>2. b = IF Asks(cs[1], t, f) THEN cs[1].vals[f] ELSE a
    BY <1>2, <1>6, <1>8
  <2>3. Ends(fs, n - 1, t, f, b, v)
    BY <1>5, <2>1, <2>2, EndsLess
  <2>4. Ends(cmds', Len(cmds'), t, f, b, v)
    BY <1>4, <1>5, <2>3
  <2> QED BY <1>1, <1>2, <1>8, <2>4 DEF Will
<1> QED BY <1>7, <1>8

-----------------------------------------------------------------------------
(* The record, for devices that are sent commands. *)

Writing(t, f) == \E c \in Callers : job[c].pc = "write" /\ job[c].type = t /\ f \in Touched(c)
Held(t, f) ==
    \E v : Will(t, f, v) /\ (v = ram[t][f] \/ (f = "level" /\ v = Limited(ram[t][f])))
RecOK(t, f) == f \in stray[t] \/ Writing(t, f) \/ Held(t, f)

\* Who is about to write a record has queued the command.
WriteOK(c) ==
    job[c].pc = "write" /\ ~job[c].late /\ job[c].type # "sonos" =>
        \A t, f, v : t = job[c].type /\ f \in Touched(c) /\ v = Command(c)[f] => Will(t, f, v)

\* And what the command carries besides is on record.
CarryOK(c) ==
    job[c].pc \in {"queue", "write"} /\ ~job[c].late =>
        \A t, g : t = job[c].type /\ g \in job[c].carried => ram[t][g] = job[c].cmd[g]
RecordInv ==
    /\ \A t \in site \ {"sonos"} : \A f \in WorkingIn(t, ModeOf[t]) : RecOK(t, f)
    /\ \A c \in Callers : WriteOK(c) /\ CarryOK(c)

Sound(t, f) ==
    /\ \A v : Will(t, f, v) => Will(t, f, v)'
    /\ ram'[t][f] = ram[t][f] /\ (f \in stray[t] => f \in stray'[t])

\* Callers meet on f of t.
Met(t, f) ==
    \A c \in Callers :
        Stays(c) /\ job[c].pc # "idle" /\ job[c].type = t /\ f \in Touched(c) => job'[c].late
Passes(t, f) ==
    \/ Sound(t, f) /\ (Writing(t, f) => Writing(t, f)')
    \/ RecOK(t, f)' /\ Met(t, f)

LEMMA EachRecord ==
    ASSUME Shape, Steady, RecordInv,
           \A c \in Callers : Stays(c) \/ (WriteOK(c)' /\ CarryOK(c)'),
           \A t \in site \ {"sonos"} : \A f \in WorkingIn(t, ModeOf[t]) : Passes(t, f)
    PROVE  RecordInv'
<1>1. ASSUME NEW t \in site' \ {"sonos"}, NEW f \in WorkingIn(t, ModeOf'[t])
      PROVE  RecOK(t, f)'
  <2>1. t \in site \ {"sonos"} /\ f \in WorkingIn(t, ModeOf[t])
    BY DEF Steady
  <2>2. RecOK(t, f) /\ Passes(t, f)
    BY <2>1 DEF RecordInv
  <2>3. CASE Sound(t, f) /\ (Writing(t, f) => Writing(t, f)')
    <3>1. f \in stray[t] => f \in stray'[t]
      BY <2>3 DEF Sound
    <3>2. Held(t, f) => Held(t, f)'
      BY <2>3 DEF Sound, Held
    <3> QED BY <2>2, <2>3, <3>1, <3>2 DEF RecOK
  <2> QED BY <2>2, <2>3 DEF Passes
<1>2. ASSUME NEW c \in Callers, Stays(c), job'[c].pc # "idle", ~job'[c].late,
             NEW t, t = job[c].type, t # "sonos", NEW f \in Touched(c)
      PROVE  Sound(t, f)
  <2>1. job[c].pc # "idle"
    BY <1>2 DEF Stays, SameJob
  <2>2. t \in site \ {"sonos"} /\ f \in WorkingIn(t, ModeOf[t])
    BY <1>2, <2>1, JobSetter
  <2>3. ~Met(t, f)
    BY <1>2, <2>1 DEF Met
  <2> QED BY <2>2, <2>3 DEF Passes
<1>3. ASSUME NEW c \in Callers, Stays(c) PROVE WriteOK(c)'
  <2>1. SUFFICES ASSUME job'[c].pc = "write", ~job'[c].late, job'[c].type # "sonos",
                        NEW t, NEW f, NEW v, t = job'[c].type, f \in Touched(c)', v = Command(c)'[f]
                 PROVE  Will(t, f, v)'
    BY DEF WriteOK
  <2>2. /\ SameJob(c) /\ job[c].pc = "write" /\ ~job[c].late
    BY <1>3, <2>1 DEF Stays
  <2>3. t = job[c].type /\ t # "sonos" /\ f \in Touched(c) /\ v = Command(c)[f]
    BY <2>1, <2>2, SameJobIs DEF SameJob
  <2>4. Will(t, f, v)
    BY <2>2, <2>3 DEF RecordInv, WriteOK
  <2>5. Sound(t, f)
    BY <1>2, <1>3, <2>1, <2>3
  <2> QED BY <2>4, <2>5 DEF Sound
<1>4. ASSUME NEW c \in Callers, Stays(c) PROVE CarryOK(c)'
  <2>1. SUFFICES ASSUME job'[c].pc \in {"queue", "write"}, ~job'[c].late,
                        NEW t, NEW g, t = job'[c].type, g \in job'[c].carried
                 PROVE  ram'[t][g] = job'[c].cmd[g]
    BY DEF CarryOK
  <2>2. SameJob(c) /\ job[c].pc \in {"queue", "write"} /\ ~job[c].late
    BY <1>4, <2>1 DEF Stays
  <2>3. t = job[c].type /\ g \in job[c].carried /\ job'[c].cmd = job[c].cmd
    BY <2>1, <2>2 DEF SameJob
  <2>4. ram[t][g] = job[c].cmd[g]
    BY <2>2, <2>3 DEF RecordInv, CarryOK
  <2>5. g \in Touched(c)
    BY <2>3 DEF Touched
  <2>6. t # "sonos"
    <3>1. job[c].pc # "idle"
      BY <2>2
    <3>2. SetterOK(job[c].type, job[c].field) /\ job[c].carried = Setting(c).carries
          /\ Setting(c) = SetState[job[c].type][job[c].field]
      BY <3>1, JobSetter
    <3> QED BY <2>3, <3>2, Zenon DEF SetterOK
  <2>7. Sound(t, g)
    BY <1>2, <1>4, <2>1, <2>3, <2>5, <2>6
  <2> QED BY <2>3, <2>4, <2>7 DEF Sound
<1> QED BY <1>1, <1>3, <1>4 DEF RecordInv

LEMMA FaresStill ==
    ASSUME UNCHANGED <<site, phys>>, NEW t, NEW f, Pend(t, f) => Pend(t, f)'
    PROVE  Fares(t, f) /\ At(t, f)' = At(t, f)
BY AtSame DEF Fares

LEMMA SoundOn ==
    ASSUME UNCHANGED <<site, cmds>>, NEW t, NEW f, Fares(t, f), ~Heard(t, f) => At(t, f)' = At(t, f),
           ram'[t][f] = ram[t][f], f \in stray[t] => f \in stray'[t]
    PROVE  Sound(t, f)
<1>1. ASSUME NEW v, Will(t, f, v) PROVE Will(t, f, v)'
  BY <1>1, WillOn
<1> QED BY <1>1 DEF Sound

LEMMA SoundStill ==
    ASSUME UNCHANGED <<site, cmds, phys, events>>, NEW t, NEW f, InHand(t, f) => InHand(t, f)',
           ram'[t][f] = ram[t][f], f \in stray[t] => f \in stray'[t]
    PROVE  Sound(t, f)
<1>1. Pend(t, f) => Pend(t, f)'
  BY DEF Pend, Due
<1>2. Fares(t, f) /\ At(t, f)' = At(t, f)
  BY <1>1, FaresStill
<1> QED BY <1>2, SoundOn

LEMMA BecameFares ==
    ASSUME Shape, HeardInv, site' = site, upd' = upd, NEW u \in site, NEW vals, Became(u, vals),
           NEW t \in site, NEW f \in WorkingIn(t, ModeOf[t])
    PROVE  /\ Fares(t, f)
           /\ At(t, f)' = IF f \in DOMAIN vals \cap Fields(u) /\ t \in Sharing(u, f)
                          THEN vals[f] ELSE At(t, f)
<1>1. Heard(t, f) => HeardOK(t, f)
  BY DEF HeardInv
<1>2. ASSUME Heard(t, f)
      PROVE  (At(t, f)' # At(t, f) => Due(t, f)') /\ (Pend(t, f) => Pend(t, f)')
  BY <1>1, <1>2, BecameHeard
<1>3. Fares(t, f)
  BY <1>2 DEF Fares, Pend
<1>4. f \in Fields(t)
  BY DEF WorkingIn
<1>5. At(t, f)' = IF f \in DOMAIN vals \cap Fields(u) /\ t \in Sharing(u, f)
                  THEN vals[f] ELSE At(t, f)
  BY <1>4 DEF Became
<1> QED BY <1>3, <1>5

\* Callers go on writing.
LEMMA WritingStays ==
    ASSUME NEW t, NEW f, Writing(t, f), \A c \in Callers : job[c].pc = "write" => Stays(c)
    PROVE  Writing(t, f)'
<1>1. PICK c \in Callers : job[c].pc = "write" /\ job[c].type = t /\ f \in Touched(c)
  BY DEF Writing
<1>2. SameJob(c) /\ job'[c].pc = "write"
  BY <1>1 DEF Stays
<1>3. job'[c].type = t /\ f \in Touched(c)'
  BY <1>1, <1>2, SameJobIs DEF SameJob
<1> QED BY <1>2, <1>3 DEF Writing

LEMMA SonosAlone ==
    ASSUME NEW t, t # "sonos", NEW f
    PROVE  t \notin Sharing("sonos", f) /\ "sonos" \notin Sharing(t, f)
BY DEF Sharing, Endpoint

LEMMA StillRecord ==
    ASSUME Shape, Steady, RecordInv, UNCHANGED <<cmds, phys, events, stray>>, StatesKept,
           upd.pc = "tell" \/ upd' = upd,
           \A c \in Callers : Stays(c) \/ (job[c].pc # "write" /\ WriteOK(c)' /\ CarryOK(c)')
    PROVE  RecordInv'
<1>1. ASSUME NEW t \in site \ {"sonos"}, NEW f \in WorkingIn(t, ModeOf[t]) PROVE Passes(t, f)
  <2>1. InHand(t, f) => InHand(t, f)'
    BY DEF InHand
  <2>2. f \in Fields(t)
    BY DEF WorkingIn
  <2>3. ram'[t][f] = ram[t][f]
    BY <2>2 DEF StatesKept
  <2>4. Sound(t, f)
    BY <2>1, <2>3, SoundStill DEF Steady
  <2>5. Writing(t, f) => Writing(t, f)'
    BY WritingStays
  <2> QED BY <2>4, <2>5 DEF Passes
<1> QED BY <1>1, EachRecord

LEMMA BeginRecord ==
    ASSUME Shape, RecordInv, NEW c \in Callers, Begin(c)
    PROVE  RecordInv'
<1>1. Steady /\ StatesKept
  BY BeginShape, KeptStates
<1>2. UNCHANGED <<site, ram, phys, cmds, events, upd, stray>> /\ job[c].pc = "idle"
  BY DEF Begin
<1>3. PICK j : BeginSays(c, j) /\ Begun(c, j)
  BY BeginJob
<1>4. \A d \in Callers \ {c} : Stays(d)
  BY <1>3, BegunStay
<1>5. job'[c] = j
  BY <1>3 DEF Begun
<1>6. j.pc = "write" => j.type = "sonos"
  BY <1>3 DEF BeginSays
<1>7. WriteOK(c)'
  BY <1>5, <1>6 DEF WriteOK
<1>8. \A g \in j.carried : j.cmd[g] = ram[j.type][g]
  BY <1>3 DEF BeginSays
<1>9. CarryOK(c)'
  BY <1>2, <1>5, <1>8 DEF CarryOK
<1> QED BY <1>1, <1>2, <1>4, <1>7, <1>9, StillRecord

LEMMA QueueRecord ==
    ASSUME Shape, Late, RecordInv, NEW c \in Callers, Queue(c)
    PROVE  RecordInv'
<1>1. Steady /\ StatesKept /\ Late'
  BY QueueShape, KeptStates, NextLate DEF Next
<1>2. UNCHANGED <<site, ram, phys, events, upd, stray>> /\ job[c].pc = "queue"
  BY DEF Queue
<1>3. PICK l \in BOOLEAN :
        /\ Continues(c, "write", l)
        /\ \/ l = job[c].late /\ \E q : Queued(c, q)
           \/ l = TRUE /\ cmds' = cmds
  <2>1. job[c].late \in BOOLEAN
    BY <1>2, JobIs DEF IsJob
  <2> QED BY <2>1, QueueJob
<1>4. /\ \A d \in Callers \ {c} : Stays(d)
      /\ SameJob(c) /\ job'[c].pc = "write" /\ job'[c].late = l
  BY <1>2, <1>3, ContinuesStay
<1>5. PICK u : u = job[c].type
  OBVIOUS
<1>6. u \in site /\ u # "sonos"
  BY <1>2, <1>5, JobIs DEF IsJob
<1>7. Touched(c)' = Touched(c) /\ Command(c)' = Command(c) /\ job'[c].type = u
  BY <1>4, <1>5, SameJobIs DEF SameJob
<1>8. ASSUME NEW t \in site \ {"sonos"}, NEW f \in WorkingIn(t, ModeOf[t]) PROVE Passes(t, f)
  <2>1. CASE t = u /\ f \in Touched(c)
    <3>1. Writing(t, f)'
      BY <1>4, <1>7, <2>1 DEF Writing
    <3>2. ASSUME NEW d \in Callers, Stays(d), job[d].pc # "idle", job[d].type = t, f \in Touched(d)
          PROVE  job'[d].late
      <4>1. SameJob(d) /\ job'[d].pc # "idle"
        BY <3>2 DEF Stays, SameJob
      <4>2. d # c
        BY <1>2, <1>4, <3>2 DEF Stays
      <4>3. job'[d].type = t /\ f \in Touched(d)'
        BY <3>2, <4>1, SameJobIs DEF SameJob
      <4>4. job'[c].pc # "idle" /\ job'[c].type = t /\ f \in Touched(c)'
        BY <1>4, <1>7, <2>1
      <4> QED BY <1>1, <4>1, <4>2, <4>3, <4>4 DEF Late
    <3>3. RecOK(t, f)'
      BY <3>1 DEF RecOK
    <3> QED BY <3>2, <3>3 DEF Passes, Met
  <2>2. CASE ~(t = u /\ f \in Touched(c))
    <3>1. f \in Fields(t)
      BY DEF WorkingIn
    <3>2. ram'[t][f] = ram[t][f]
      BY <1>2
    <3>3. \A v : Will(t, f, v) => Will(t, f, v)'
      <4>1. CASE cmds' = cmds
        <5>1. InHand(t, f) => InHand(t, f)'
          BY <1>2 DEF InHand
        <5>2. Sound(t, f)
          BY <1>2, <3>2, <4>1, <5>1, SoundStill
        <5> QED BY <5>2 DEF Sound
      <4>2. CASE \E q : Queued(c, q)
        <5>1. PICK q : Queued(c, q)
          BY <4>2
        <5>2. cmds' = Append(cmds, q) /\ ~Asks(q, t, f)
          <6>1. q.to = u /\ q.vals = Command(c) /\ cmds' = Append(cmds, q)
            BY <1>5, <5>1 DEF Queued
          <6>2. DOMAIN Command(c) = Touched(c)
            BY <1>2, CommandIs
          <6> QED BY <2>2, <6>1, <6>2 DEF Asks
        <5> QED BY <1>2, <5>2, WillQueued
      <4> QED BY <1>3, <4>1, <4>2
    <3>4. Sound(t, f)
      BY <1>2, <3>2, <3>3 DEF Sound
    <3>5. Writing(t, f) => Writing(t, f)'
      BY <1>2, <1>4, WritingStays
    <3> QED BY <3>4, <3>5 DEF Passes
  <2> QED BY <2>1, <2>2
<1>9. WriteOK(c)'
  <2>1. SUFFICES ASSUME ~job'[c].late, NEW t, NEW f, NEW v, t = job'[c].type,
                        f \in Touched(c)', v = Command(c)'[f]
                 PROVE  Will(t, f, v)'
    BY DEF WriteOK
  <2>2. PICK q : Queued(c, q)
    BY <1>3, <1>4, <2>1
  <2>3. /\ q.to = u /\ q.vals = Command(c) /\ cmds' = Append(cmds, q)
        /\ DOMAIN Command(c) = Touched(c)
    BY <1>2, <1>5, <2>2, CommandIs DEF Queued
  <2>4. Asks(q, t, f) /\ v = q.vals[f]
    BY <1>7, <2>1, <2>3 DEF Asks
  <2>5. Will(t, f, q.vals[f])'
    BY <1>2, <2>3, <2>4, WillQueued
  <2>6. PICK w : w = q.vals[f]
    OBVIOUS
  <2> QED BY <2>4, <2>5, <2>6
<1>10. CarryOK(c)'
  <2>1. SUFFICES ASSUME ~job'[c].late, NEW t, NEW g, t = job'[c].type, g \in job'[c].carried
                 PROVE  ram'[t][g] = job'[c].cmd[g]
    BY DEF CarryOK
  <2>2. ~job[c].late
    BY <1>3, <1>4, <2>1
  <2>3. t = job[c].type /\ g \in job[c].carried /\ job'[c].cmd = job[c].cmd
    BY <1>4, <2>1 DEF SameJob
  <2>4. ram[t][g] = job[c].cmd[g]
    BY <1>2, <2>2, <2>3 DEF RecordInv, CarryOK
  <2> QED BY <1>2, <2>3, <2>4
<1> QED BY <1>1, <1>4, <1>8, <1>9, <1>10, EachRecord

\* What is recorded is what the command says: but a level may have been limited.
LEMMA RecordedSent ==
    ASSUME Shape, NEW c \in Callers, job[c].pc # "idle", NEW f \in DOMAIN job[c].vals
    PROVE  \/ Recorded(c)[f] = Command(c)[f]
           \/ f = "level" /\ Command(c)[f] = Limited(Recorded(c)[f])
<1>1. SetterOK(job[c].type, job[c].field) /\ Setting(c) = SetState[job[c].type][job[c].field]
      /\ DOMAIN job[c].vals = Setting(c).fields
  BY JobSetter
<1>2. /\ "record" \in Setting(c).limits => "command" \in Setting(c).limits
      /\ "command" \in Setting(c).limits /\ "record" \notin Setting(c).limits =>
            DOMAIN job[c].vals = {"level"}
  BY <1>1, Zenon DEF SetterOK
<1>3. Command(c)[f] = IF "command" \in Setting(c).limits
                      THEN Limited(job[c].vals[f]) ELSE job[c].vals[f]
  BY CommandIs
<1>4. Recorded(c)[f] = IF "record" \in Setting(c).limits
                       THEN Limited(job[c].vals[f]) ELSE job[c].vals[f]
  BY RecordedIs
<1> QED BY <1>2, <1>3, <1>4

\* Who is late leaves a record that may be wrong.
LEMMA WriteStrays ==
    ASSUME Shape, NEW c \in Callers, WriteRecord(c), NEW t \in site, NEW f
    PROVE  /\ job[c].late /\ t = job[c].type /\ f \in Touched(c) => f \in stray'[t]
           /\ ~(t = job[c].type /\ f \in DOMAIN job[c].vals) /\ f \in stray[t] => f \in stray'[t]
<1>1. PICK u : u = job[c].type
  OBVIOUS
<1>2. stray' = [stray EXCEPT ![u] =
         IF job[c].late THEN @ \cup DOMAIN job[c].vals \cup job[c].carried
         ELSE @ \ DOMAIN job[c].vals]
  BY <1>1 DEF WriteRecord
<1>3. t \in DOMAIN stray
  BY DEF Shape, DevicesOK, FieldsOf
<1> QED BY <1>1, <1>2, <1>3 DEF Touched

LEMMA WriteRecordRecord ==
    ASSUME Shape, Late, RecordInv, NEW c \in Callers, WriteRecord(c)
    PROVE  RecordInv'
<1>1. UNCHANGED <<site, cmds, phys, events, upd>> /\ job[c].pc = "write"
  BY DEF WriteRecord
<1>2. PICK u : u = job[c].type
  OBVIOUS
<1>3. u \in site /\ Written(u, Recorded(c)) /\ Steady
  BY <1>2, WriteRecordJob
<1>4. PICK p \in {"idle", "drive", "report"} : Continues(c, p, job[c].late)
  BY WriteRecordJob
<1>5. (\A d \in Callers \ {c} : Stays(d)) /\ job'[c].pc = p
  BY <1>1, <1>4, ContinuesStay
<1>6. WriteOK(c)' /\ CarryOK(c)'
  BY <1>5 DEF WriteOK, CarryOK
<1>7. DOMAIN Recorded(c) = DOMAIN job[c].vals
      /\ \A g \in DOMAIN job[c].vals : ram'[u][g] = Recorded(c)[g]
  BY <1>1, <1>3, RecordedIs DEF Written
<1>8. ASSUME NEW t \in site \ {"sonos"}, NEW f \in WorkingIn(t, ModeOf[t]) PROVE Passes(t, f)
  <2>1. f \in Fields(t)
    BY DEF WorkingIn
  <2>2. InHand(t, f) => InHand(t, f)'
    BY <1>1 DEF InHand
  <2>3. Fares(t, f) /\ At(t, f)' = At(t, f)
    <3>1. Pend(t, f) => Pend(t, f)'
      BY <1>1, <2>2 DEF Pend, Due
    <3> QED BY <1>1, <3>1, FaresStill
  <2>4. \A v : Will(t, f, v) => Will(t, f, v)'
    BY <1>1, <2>3, WillOn
  <2>5. ~(t = u /\ f \in DOMAIN job[c].vals) => ram'[t][f] = ram[t][f]
    BY <1>3, <1>7, <2>1, WrittenFields
  <2>6. CASE t = u /\ f \in Touched(c)
    <3>1. ASSUME NEW d \in Callers, Stays(d), job[d].pc # "idle", job[d].type = t, f \in Touched(d)
          PROVE  job'[d].late
      <4>1. d # c
        BY <1>1, <1>5, <3>1 DEF Stays
      <4>2. job[d].late
        BY <1>1, <1>2, <2>6, <3>1, <4>1 DEF Late
      <4> QED BY <3>1, <4>2 DEF Stays
    <3>2. RecOK(t, f)'
      <4>1. CASE job[c].late
        <5>1. f \in stray'[t]
          BY <1>2, <2>6, <4>1, WriteStrays
        <5> QED BY <5>1 DEF RecOK
      <4>2. CASE ~job[c].late
        <5>1. PICK v : v = Command(c)[f]
          OBVIOUS
        <5>2. Will(t, f, v)
          BY <1>1, <1>2, <2>6, <4>2, <5>1 DEF RecordInv, WriteOK
        <5>3. v = ram'[t][f] \/ (f = "level" /\ v = Limited(ram'[t][f]))
          <6>1. CASE f \in DOMAIN job[c].vals
            <7>1. \/ Recorded(c)[f] = Command(c)[f]
                  \/ f = "level" /\ Command(c)[f] = Limited(Recorded(c)[f])
              BY <1>1, <6>1, RecordedSent
            <7> QED BY <1>7, <2>6, <5>1, <6>1, <7>1
          <6>2. CASE f \notin DOMAIN job[c].vals
            <7>1. f \in job[c].carried
              BY <2>6, <6>2 DEF Touched
            <7>2. ram[t][f] = job[c].cmd[f]
              BY <1>1, <1>2, <2>6, <4>2, <7>1 DEF RecordInv, CarryOK
            <7>3. Command(c)[f] = job[c].cmd[f]
              BY <1>1, <7>1, CommandIs
            <7> QED BY <2>5, <5>1, <6>2, <7>2, <7>3
          <6> QED BY <6>1, <6>2
        <5>4. Held(t, f)'
          BY <2>4, <5>2, <5>3 DEF Held
        <5> QED BY <5>4 DEF RecOK
      <4> QED BY <4>1, <4>2
    <3> QED BY <3>1, <3>2 DEF Passes, Met
  <2>7. CASE ~(t = u /\ f \in Touched(c))
    <3>1. ~(t = u /\ f \in DOMAIN job[c].vals)
      BY <2>7 DEF Touched
    <3>2. f \in stray[t] => f \in stray'[t]
      BY <1>2, <3>1, WriteStrays
    <3>3. Sound(t, f)
      BY <2>4, <2>5, <3>1, <3>2 DEF Sound
    <3>4. ASSUME Writing(t, f) PROVE Writing(t, f)'
      <4>1. PICK d \in Callers : job[d].pc = "write" /\ job[d].type = t /\ f \in Touched(d)
        BY <3>4 DEF Writing
      <4>2. d # c
        BY <1>2, <2>7, <4>1
      <4>3. SameJob(d) /\ job'[d].pc = "write"
        BY <1>5, <4>1, <4>2 DEF Stays
      <4>4. job'[d].type = t /\ f \in Touched(d)'
        BY <4>1, <4>3, SameJobIs DEF SameJob
      <4> QED BY <4>3, <4>4 DEF Writing
    <3> QED BY <3>3, <3>4 DEF Passes
  <2> QED BY <2>6, <2>7
<1> QED BY <1>3, <1>5, <1>6, <1>8, EachRecord

LEMMA DriveRecord ==
    ASSUME Shape, HeardInv, RecordInv, NEW c \in Callers, Drive(c)
    PROVE  RecordInv'
<1>1. Steady /\ StatesKept
  BY DriveShape, KeptStates
<1>2. UNCHANGED <<site, ram, cmds, upd>> /\ job[c].pc = "drive"
  BY DEF Drive
<1>3. PICK p \in {"idle", "report"} : Continues(c, p, job[c].late)
  BY DriveJob
<1>4. (\A d \in Callers \ {c} : Stays(d)) /\ job'[c].pc = p
  BY <1>2, <1>3, ContinuesStay
<1>5. WriteOK(c)' /\ CarryOK(c)'
  BY <1>4 DEF WriteOK, CarryOK
<1>6. /\ "sonos" \in site
      /\ \/ Became("sonos", Command(c)) /\ stray' = stray
         \/ /\ UNCHANGED <<phys, events>>
            /\ stray' = [stray EXCEPT !["sonos"] = @ \cup DOMAIN job[c].vals]
  BY DriveJob
<1>7. ASSUME NEW t \in site \ {"sonos"}, NEW f \in WorkingIn(t, ModeOf[t]) PROVE Passes(t, f)
  <2>1. f \in stray[t] => f \in stray'[t]
    <3>1. t \in DOMAIN stray /\ t # "sonos"
      BY DEF Shape, DevicesOK, FieldsOf
    <3> QED BY <1>6, <3>1
  <2>2. ram'[t][f] = ram[t][f]
    BY <1>2
  <2>3. CASE Became("sonos", Command(c))
    <3>1. t \notin Sharing("sonos", f)
      BY SonosAlone
    <3>2. PICK vals : vals = Command(c)
      OBVIOUS
    <3>3. Fares(t, f) /\ At(t, f)' = At(t, f)
      BY <1>2, <1>6, <2>3, <3>1, <3>2, BecameFares
    <3> QED BY <1>2, <2>1, <2>2, <3>3, SoundOn, <1>4, WritingStays DEF Passes
  <2>4. CASE UNCHANGED <<phys, events>>
    <3>1. InHand(t, f) => InHand(t, f)'
      BY <1>2 DEF InHand
    <3>2. Sound(t, f)
      BY <1>2, <2>1, <2>2, <2>4, <3>1, SoundStill
    <3> QED BY <3>2, <1>2, <1>4, WritingStays DEF Passes
  <2> QED BY <1>6, <2>3, <2>4
<1> QED BY <1>1, <1>4, <1>5, <1>7, EachRecord

LEMMA CallersRecord ==
    ASSUME Shape, Late, HeardInv, RecordInv, NEW c \in Callers,
           \/ Begin(c) \/ Queue(c) \/ WriteRecord(c) \/ Drive(c) \/ ReportSet(c)
           \/ SetChangeRpt(c)
    PROVE  RecordInv'
<1>1. CASE ReportSet(c)
  <2>1. Steady /\ StatesKept
    BY <1>1, ReportShape, KeptStates
  <2>2. UNCHANGED <<cmds, phys, events, stray, upd>> /\ job[c].pc = "report"
        /\ job' = [job EXCEPT ![c] = [pc |-> "idle"]]
    BY <1>1 DEF ReportSet
  <2>3. job'[c].pc = "idle" /\ \A d \in Callers \ {c} : Stays(d)
    BY <2>2, DoneStay
  <2>4. WriteOK(c)' /\ CarryOK(c)'
    BY <2>3 DEF WriteOK, CarryOK
  <2> QED BY <2>1, <2>2, <2>3, <2>4, StillRecord
<1>2. CASE SetChangeRpt(c)
  <2>1. Steady /\ StatesKept
    BY <1>2, SetChangeRptShape, KeptStates
  <2>2. UNCHANGED <<cmds, phys, events, stray, upd, job>>
    BY <1>2 DEF SetChangeRpt
  <2>3. \A d \in Callers : Stays(d)
    BY <2>2, SameStay
  <2> QED BY <2>1, <2>2, <2>3, StillRecord
<1> QED BY <1>1, <1>2, BeginRecord, QueueRecord, WriteRecordRecord, DriveRecord

\* A command that is carried out makes of the device what was expected.
LEMMA Obeyed ==
    ASSUME Shape, HeardInv, UNCHANGED <<site, upd>>, cmds # <<>>, cmds' = Tail(cmds),
           NEW q, q = cmds[1], q.to \in site, Became(q.to, q.vals),
           NEW t \in site, NEW f \in WorkingIn(t, ModeOf[t])
    PROVE  \A v : Will(t, f, v) => Will(t, f, v)'
<1>1. IsCmd(site, ModeOf, q)
  BY HeadCmd
<1>2. /\ q.to \notin Sensors /\ q.to \in DevTypes
      /\ DOMAIN q.vals \subseteq Fields(q.to)
  BY <1>1, SiteTypes DEF IsCmd, WorkingIn, Shape
<1>3. PICK u, vals : u = q.to /\ vals = q.vals
  OBVIOUS
<1>4. /\ Fares(t, f)
      /\ At(t, f)' = IF f \in DOMAIN vals \cap Fields(u) /\ t \in Sharing(u, f)
                     THEN vals[f] ELSE At(t, f)
  BY <1>3, BecameFares
<1>5. Asks(q, t, f) => At(t, f)' = q.vals[f]
  BY <1>2, <1>3, <1>4 DEF Asks, Sharing
<1>6. "power" \notin Fields(u)
  BY <1>2, <1>3, FieldsAre DEF DevTypes, Sensors
<1>7. ~Asks(q, t, f) => At(t, f)' = At(t, f)
  BY <1>3, <1>4, <1>6 DEF Asks, Sharing
<1> QED BY <1>4, <1>5, <1>7, WillTaken

LEMMA AnsweredRecord ==
    ASSUME Shape, HeardInv, RecordInv, Answered \/ Unanswered
    PROVE  RecordInv'
<1>1. Steady /\ StatesKept /\ \A c \in Callers : Stays(c)
  BY AnsweredShape, UnansweredShape, KeptStates, AllStay
<1>2. UNCHANGED <<site, upd>> /\ cmds # <<>> /\ cmds' = Tail(cmds)
  BY DEF Answered, Unanswered
<1>3. PICK q : q = cmds[1]
  OBVIOUS
<1>4. \/ q.to \in site /\ Became(q.to, q.vals) /\ stray' = stray
      \/ q.to \notin site /\ UNCHANGED <<phys, events, stray>>
      \/ /\ q.to \in site /\ UNCHANGED <<phys, events>> /\ Marks(q.to, DOMAIN q.vals)
         /\ stray' = [stray EXCEPT ![q.to] = @ \cup DOMAIN q.vals]
  <2>1. CASE Answered
    <3>1. stray' = stray
      BY <2>1 DEF Answered
    <3> QED BY <1>3, <2>1, <3>1, AnsweredIs
  <2>2. CASE Unanswered
    <3>1. q.to \in site /\ Unheeded(q)
      BY <1>3, <2>2, UnansweredIs
    <3> QED BY <3>1 DEF Unheeded
  <2> QED BY <2>1, <2>2
<1>5. ASSUME NEW t \in site \ {"sonos"}, NEW f \in WorkingIn(t, ModeOf[t]) PROVE Passes(t, f)
  <2>1. ram'[t][f] = ram[t][f]
    BY <1>1 DEF StatesKept, WorkingIn
  <2>2. f \in stray[t] => f \in stray'[t]
    <3>1. t \in DOMAIN stray
      BY DEF Shape, DevicesOK, FieldsOf
    <3> QED BY <1>4, <3>1
  <2>3. Writing(t, f) => Writing(t, f)'
    BY <1>1, WritingStays
  <2>4. CASE q.to \in site /\ Became(q.to, q.vals)
    <3>1. \A v : Will(t, f, v) => Will(t, f, v)'
      BY <1>2, <1>3, <2>4, Obeyed
    <3> QED BY <2>1, <2>2, <2>3, <3>1 DEF Passes, Sound
  <2>5. CASE UNCHANGED <<phys, events>> /\ ~Asks(q, t, f)
    <3>1. Pend(t, f) => Pend(t, f)'
      BY <1>2, <2>5 DEF Pend, InHand, Due
    <3>2. Fares(t, f) /\ At(t, f)' = At(t, f)
      BY <1>2, <2>5, <3>1, FaresStill
    <3>3. ASSUME NEW v, Will(t, f, v) PROVE Will(t, f, v)'
      BY <1>2, <1>3, <2>5, <3>2, <3>3, WillTaken
    <3> QED BY <2>1, <2>2, <2>3, <3>3 DEF Passes, Sound
  <2>6. CASE /\ q.to \in site /\ Asks(q, t, f) /\ Marks(q.to, DOMAIN q.vals)
             /\ stray' = [stray EXCEPT ![q.to] = @ \cup DOMAIN q.vals]
    <3>1. q.to = t /\ f \in DOMAIN q.vals
      BY <2>6 DEF Asks
    <3>2. t \in DOMAIN stray
      BY DEF Shape, DevicesOK, FieldsOf
    <3>3. f \in stray'[t]
      BY <2>6, <3>1, <3>2
    <3>4. PICK fields : fields = DOMAIN q.vals
      OBVIOUS
    <3>5. Marks(t, fields) /\ f \in fields
      BY <2>6, <3>1, <3>4
    <3>6. Met(t, f)
      BY <3>5, MarksStay DEF Met
    <3> QED BY <3>3, <3>6 DEF Passes, RecOK
  <2>7. Asks(q, t, f) => q.to \in site
    BY DEF Asks
  <2> QED BY <1>4, <2>4, <2>5, <2>6, <2>7
<1> QED BY <1>1, <1>5, EachRecord

LEMMA GiveUpRecord ==
    ASSUME Shape, RecordInv, GiveUp
    PROVE  RecordInv'
<1>1. Steady /\ StatesKept /\ \A c \in Callers : Stays(c)
  BY GiveUpShape, KeptStates, AllStay
<1>2. UNCHANGED <<site, phys, events, upd, stray>>
  BY DEF GiveUp
<1>3. PICK q : q.to = "all" /\ cmds' = Append(cmds, q)
  BY GiveUpShape
<1>4. ASSUME NEW t \in site \ {"sonos"}, NEW f \in WorkingIn(t, ModeOf[t]) PROVE Passes(t, f)
  <2>1. ram'[t][f] = ram[t][f]
    BY <1>1 DEF StatesKept, WorkingIn
  <2>2. t # "all"
    BY SiteTypes DEF Shape, DevTypes
  <2>3. ~Asks(q, t, f)
    BY <1>3, <2>2 DEF Asks
  <2>4. \A v : Will(t, f, v) => Will(t, f, v)'
    BY <1>2, <1>3, <2>3, WillQueued
  <2>5. Writing(t, f) => Writing(t, f)'
    BY <1>1, WritingStays
  <2> QED BY <1>2, <2>1, <2>4, <2>5 DEF Passes, Sound
<1> QED BY <1>1, <1>4, EachRecord

LEMMA NoSetter ==
    ASSUME Shape, NEW t \in Sensors, NEW f
    PROVE  Met(t, f)
<1>1. ASSUME NEW c \in Callers, job[c].pc # "idle" PROVE job[c].type # t
  BY <1>1, JobSetter DEF SetterOK
<1> QED BY <1>1 DEF Met

LEMMA ChangeRecord ==
    ASSUME Shape, HeardInv, RecordInv, Change
    PROVE  RecordInv'
<1>1. Steady /\ StatesKept /\ \A c \in Callers : Stays(c)
  BY ChangeShape, KeptStates, AllStay
<1>2. UNCHANGED <<site, ram, cmds, upd>>
  BY ChangeIs
<1>3. PICK u \in site : \E g \in WorkingIn(u, ModeOf[u]), v \in {0, 1} : Changed(u, g, v)
  BY ChangeIs
<1>4. PICK g, v : Changed(u, g, v)
  BY <1>3
<1>5. PICK vals : vals = [x \in {g} |-> v]
  OBVIOUS
<1>6. Became(u, vals) /\ DOMAIN vals = {g}
  BY <1>4, <1>5 DEF Changed
<1>7. ASSUME NEW t \in site \ {"sonos"}, NEW f \in WorkingIn(t, ModeOf[t]) PROVE Passes(t, f)
  <2>1. /\ Fares(t, f)
        /\ At(t, f)' = IF f \in DOMAIN vals \cap Fields(u) /\ t \in Sharing(u, f)
                       THEN vals[f] ELSE At(t, f)
    BY <1>2, <1>6, BecameFares
  <2>2. f \in stray[t] => f \in stray'[t]
    BY <1>4 DEF Changed
  <2>3. CASE ~Heard(t, f) => At(t, f)' = At(t, f)
    <3>1. Sound(t, f)
      BY <1>2, <2>1, <2>2, <2>3, SoundOn
    <3> QED BY <1>1, <3>1, WritingStays DEF Passes
  <2>4. CASE ~Heard(t, f) /\ At(t, f)' # At(t, f)
    <3>1. f = g /\ t \in Sharing(u, g)
      BY <1>6, <2>1, <2>4
    <3>2. f \in stray'[t]
      BY <1>4, <2>4, <3>1 DEF Changed
    <3>3. Met(t, f)
      <4>1. CASE t = u
        <5>1. Marks(t, {f})
          BY <1>4, <2>4, <3>1, <4>1 DEF Changed
        <5>2. PICK fields : fields = {f}
          OBVIOUS
        <5> QED BY <5>1, <5>2, MarksStay DEF Met
      <4>2. CASE t # u
        <5>1. Endpoint(t) = Endpoint(u) /\ t \in DevTypes /\ u \in DevTypes
          BY <3>1, <4>2, SiteTypes DEF Sharing, Shape
        <5>2. t \in Sensors
          BY <4>2, <5>1, Endpoints DEF Sensors
        <5> QED BY <5>2, NoSetter
      <4> QED BY <4>1, <4>2
    <3> QED BY <3>2, <3>3 DEF Passes, RecOK
  <2> QED BY <2>3, <2>4
<1> QED BY <1>1, <1>7, EachRecord

LEMMA ReceiveRecord ==
    ASSUME Shape, HeardInv, RecordInv, Receive
    PROVE  RecordInv'
<1>1. Steady /\ StatesKept /\ \A c \in Callers : Stays(c)
  BY ReceiveShape, KeptStates, AllStay
<1>2. UNCHANGED <<site, phys, cmds>>
  BY ReceiveIs
<1>3. ASSUME NEW t \in site \ {"sonos"}, NEW f \in WorkingIn(t, ModeOf[t]) PROVE Passes(t, f)
  <2>1. ram'[t][f] = ram[t][f]
    BY <1>1 DEF StatesKept, WorkingIn
  <2>2. f \in stray[t] => f \in stray'[t]
    <3>1. t \in DOMAIN stray
      BY DEF Shape, DevicesOK, FieldsOf
    <3>2. PICK e : e = events[1]
      OBVIOUS
    <3>3. stray' = stray \/ \E u : stray' = [stray EXCEPT ![u] = @ \cup {e.field}]
      BY <3>2, ReceiveIs DEF Received, Taken
    <3> QED BY <3>1, <3>3
  <2>3. CASE t \in Sensors /\ f \in stray'[t]
    BY <2>3, NoSetter DEF Passes, RecOK
  <2>4. CASE ~(t \in Sensors /\ f \in stray'[t])
    <3>1. ASSUME Heard(t, f) PROVE Pend(t, f) => Pend(t, f)'
      <4>1. HeardOK(t, f) /\ f \in Fields(t)
        BY <3>1 DEF HeardInv, WorkingIn
      <4> QED BY <2>4, <4>1, ReceiveHeard
    <3>2. At(t, f)' = At(t, f)
      BY <1>2, AtSame
    <3>3. Fares(t, f)
      BY <3>1, <3>2 DEF Fares
    <3>4. Sound(t, f)
      BY <1>2, <2>1, <2>2, <3>2, <3>3, SoundOn
    <3> QED BY <1>1, <3>4, WritingStays DEF Passes
  <2> QED BY <2>3, <2>4
<1> QED BY <1>1, <1>3, EachRecord

\* What is taken from the hands of the event task is on record.
LEMMA Taking ==
    ASSUME Shape, HeardInv, RecordInv, Steady, UNCHANGED <<phys, cmds, events>>,
           upd.pc \in {"compare", "put"}, Marks(upd.type, {upd.field}),
           \A u \in site : \A g \in Fields(u) : ~(u = upd.type /\ g = upd.field) =>
              ram'[u][g] = ram[u][g] /\ (g \in stray[u] => g \in stray'[u]),
           (UNCHANGED ram /\ UpdTo("put")) \/ ram'[upd.type][upd.field] = upd.val
    PROVE  RecordInv'
<1>1. PICK b, h, w : b = upd.type /\ h = upd.field /\ w = upd.val
  OBVIOUS
<1>2. b \in site /\ h \in Fields(b) /\ Heard(b, h)
  BY <1>1, UpdIs
<1>3. \A c \in Callers : Stays(c)
  BY MarksStay
<1>4. site' = site
  BY DEF Steady
<1>5. ASSUME NEW t \in site \ {"sonos"}, NEW f \in WorkingIn(t, ModeOf[t]) PROVE Passes(t, f)
  <2>1. At(t, f)' = At(t, f)
    BY <1>4, AtSame
  <2>2. Due(t, f)' <=> Due(t, f)
    BY <1>4 DEF Due
  <2>3. CASE t = b /\ f = h
    <3>1. Met(t, f)
      <4>1. PICK fields : fields = {h}
        OBVIOUS
      <4> QED BY <1>1, <2>3, <4>1, MarksStay DEF Met
    <3>2. HeardOK(t, f)
      BY <1>2, <2>3 DEF HeardInv
    <3>3. InHand(t, f)
      BY <1>1, <2>3 DEF InHand
    <3>4. Pend(t, f)' \/ (At(t, f)' = w /\ ram'[t][f] = w)
      <4>1. CASE UpdTo("put")
        BY <1>1, <2>3, <4>1 DEF Pend, InHand, UpdTo
      <4>2. CASE ram'[b][h] = w
        BY <1>1, <2>1, <2>2, <2>3, <3>2, <3>3, <4>2 DEF Pend, HeardOK
      <4> QED BY <1>1, <4>1, <4>2
    <3>5. Heard(t, f)'
      BY <1>2, <1>4, <2>3, StillHeard
    <3>6. PICK x : x = ram'[t][f]
      OBVIOUS
    <3>7. Will(t, f, x)'
      BY <3>4, <3>5, <3>6 DEF Will
    <3>8. RecOK(t, f)'
      BY <3>6, <3>7 DEF RecOK, Held
    <3> QED BY <3>1, <3>8 DEF Passes
  <2>4. CASE ~(t = b /\ f = h)
    <3>1. f \in Fields(t)
      BY DEF WorkingIn
    <3>2. ram'[t][f] = ram[t][f] /\ (f \in stray[t] => f \in stray'[t])
      BY <1>1, <2>4, <3>1
    <3>3. Pend(t, f) => Pend(t, f)'
      BY <1>1, <2>2, <2>4 DEF Pend, InHand
    <3>4. Fares(t, f)
      BY <1>4, <3>3, FaresStill
    <3>5. Sound(t, f)
      BY <1>4, <2>1, <3>2, <3>4, SoundOn
    <3> QED BY <1>3, <3>5, WritingStays DEF Passes
  <2> QED BY <2>3, <2>4
<1> QED BY <1>3, <1>5, EachRecord

LEMMA CompareRecord ==
    ASSUME Shape, HeardInv, RecordInv, Compare
    PROVE  RecordInv'
<1>1. /\ upd.pc = "compare" /\ Marks(upd.type, {upd.field})
      /\ stray' = [stray EXCEPT ![upd.type] = @ \ {upd.field}]
      /\ UNCHANGED <<ram, phys, cmds, events>>
  BY CompareIs
<1>2. PICK p \in {"put", "tell", "idle"} :
        UpdTo(p) /\ (p = "put" <=> ram[upd.type][upd.field] # upd.val)
  BY CompareIs
<1>3. (UNCHANGED ram /\ UpdTo("put")) \/ ram'[upd.type][upd.field] = upd.val
  BY <1>1, <1>2
<1>4. Steady
  BY CompareShape
<1>5. DOMAIN stray = site
  BY DEF Shape, DevicesOK, FieldsOf
<1>6. ASSUME NEW u \in site, NEW g \in Fields(u), ~(u = upd.type /\ g = upd.field)
      PROVE  ram'[u][g] = ram[u][g] /\ (g \in stray[u] => g \in stray'[u])
  BY <1>1, <1>5, <1>6
<1> QED BY <1>1, <1>3, <1>4, <1>6, Taking

LEMMA PutRecord ==
    ASSUME Shape, HeardInv, RecordInv, Put
    PROVE  RecordInv'
<1>1. /\ upd.pc = "put" /\ Marks(upd.type, {upd.field}) /\ Steady
      /\ UNCHANGED <<phys, cmds, events, stray>>
  BY PutIs
<1>2. PICK vals : PutSays(vals) /\ Written(upd.type, vals)
  BY PutIs
<1>3. upd.type \in site /\ upd.type \in DevTypes
  BY <1>1, UpdIs
<1>4. /\ DOMAIN vals \subseteq {upd.field, "count"} /\ upd.field \in DOMAIN vals
      /\ vals[upd.field] = upd.val
  BY <1>2 DEF PutSays
<1>5. ram'[upd.type][upd.field] = upd.val
  BY <1>2, <1>4 DEF Written
<1>6. ASSUME NEW u \in site, NEW g \in Fields(u), ~(u = upd.type /\ g = upd.field)
      PROVE  ram'[u][g] = ram[u][g] /\ (g \in stray[u] => g \in stray'[u])
  <2>1. u \in DevTypes
    BY SiteTypes DEF Shape
  <2>2. g # "count"
    BY <2>1, KeptFields
  <2>3. u # upd.type \/ g \notin DOMAIN vals
    BY <1>4, <1>6, <2>2
  <2>4. ram'[u][g] = ram[u][g]
    BY <1>2, <1>3, <2>3, WrittenFields
  <2> QED BY <1>1, <2>4
<1> QED BY <1>1, <1>5, <1>6, Taking

LEMMA NotifiedRecord ==
    ASSUME Shape, HeardInv, RecordInv, Notified
    PROVE  RecordInv'
<1>1. PICK e : e = events[1]
  OBVIOUS
<1>2. /\ "sonos" \in site /\ UNCHANGED <<site, phys, cmds>> /\ Steady
      /\ stray' = [stray EXCEPT !["sonos"] = @ \ {e.field}]
  BY <1>1, NotifiedIs
<1>3. PICK w : Written("sonos", w)
  BY NotifiedIs
<1>4. \A c \in Callers : Stays(c)
  BY AllStay
<1>5. ASSUME NEW t \in site \ {"sonos"}, NEW f \in WorkingIn(t, ModeOf[t]) PROVE Passes(t, f)
  <2>1. f \in Fields(t)
    BY DEF WorkingIn
  <2>2. ram'[t][f] = ram[t][f]
    BY <1>2, <1>3, <2>1, WrittenFields
  <2>3. f \in stray[t] => f \in stray'[t]
    <3>1. t \in DOMAIN stray
      BY DEF Shape, DevicesOK, FieldsOf
    <3> QED BY <1>2, <3>1
  <2>4. ASSUME Heard(t, f) PROVE Pend(t, f) => Pend(t, f)'
    <3>1. HeardOK(t, f)
      BY <2>4 DEF HeardInv
    <3> QED BY <2>1, <3>1, NotifiedHeard
  <2>5. At(t, f)' = At(t, f)
    BY <1>2, AtSame
  <2>6. Fares(t, f)
    BY <2>4, <2>5 DEF Fares
  <2>7. Sound(t, f)
    BY <1>2, <2>2, <2>3, <2>5, <2>6, SoundOn
  <2> QED BY <1>4, <2>7, WritingStays DEF Passes
<1> QED BY <1>2, <1>4, <1>5, EachRecord

LEMMA NextRecord ==
    ASSUME Shape, Late, HeardInv, RecordInv, [Next]_vars
    PROVE  RecordInv'
<1>1. CASE Tell \/ UNCHANGED vars
  <2>1. Steady /\ \A c \in Callers : Stays(c)
    BY <1>1, TellShape, SameShape, AllStay
  <2>2. StatesKept
    BY <1>1, KeptStates DEF StatesKept, vars
  <2>3. UNCHANGED <<cmds, phys, events, stray>>
    BY <1>1, TellIs DEF vars
  <2>4. upd.pc = "tell" \/ upd' = upd
    BY <1>1, TellIs DEF vars
  <2> QED BY <2>1, <2>2, <2>3, <2>4, StillRecord
<1> QED BY <1>1, CallersRecord, AnsweredRecord, GiveUpRecord, ChangeRecord, ReceiveRecord,
           CompareRecord, PutRecord, NotifiedRecord DEF Next

-----------------------------------------------------------------------------
(* The record of a player, which is told at once. *)

Driving(c, f) == job[c].pc = "drive" /\ f \in DOMAIN job[c].vals

\* A player tells what it plays, and how loud.
PlayerOK(f) ==
    \/ f \in stray["sonos"] \/ Pend("sonos", f) \/ ram["sonos"][f] = At("sonos", f)
    \/ \E c \in Callers : Driving(c, f) /\ Command(c)[f] = ram["sonos"][f]

\* It does not tell its track, which only callers write.
UrlOK ==
    \/ "url_id" \in stray["sonos"]
    \/ /\ \A c \in Callers :
            Driving(c, "url_id") => Command(c)["url_id"] = ram["sonos"]["url_id"]
       /\ (\A c \in Callers : ~Driving(c, "url_id")) =>
            ram["sonos"]["url_id"] = At("sonos", "url_id")
UrlUnsaid ==
    \A k \in 1..Len(events) : events[k].ep = "sonos" => events[k].field # "url_id"
PlayerInv ==
    /\ UrlUnsaid
    /\ "sonos" \in site => UrlOK /\ \A f \in {"play", "volume"} : PlayerOK(f)

LEMMA PlayerOn ==
    ASSUME NEW f \in {"play", "volume"}, PlayerOK(f), Fares("sonos", f),
           ram'["sonos"][f] = ram["sonos"][f], f \in stray["sonos"] => f \in stray'["sonos"],
           \A c \in Callers : Driving(c, f) => Stays(c)
    PROVE  PlayerOK(f)'
<1>1. Heard("sonos", f)
  BY DEF Heard, Cluster
<1>2. CASE f \in stray["sonos"]
  BY <1>2 DEF PlayerOK
<1>3. CASE Pend("sonos", f)
  BY <1>1, <1>3 DEF PlayerOK, Fares
<1>4. CASE ram["sonos"][f] = At("sonos", f)
  <2>1. Pend("sonos", f)' \/ At("sonos", f)' = At("sonos", f)
    BY <1>1 DEF Fares
  <2>2. Pend("sonos", f)' \/ ram'["sonos"][f] = At("sonos", f)'
    BY <1>4, <2>1
  <2> QED BY <2>2 DEF PlayerOK
<1>5. CASE \E c \in Callers : Driving(c, f) /\ Command(c)[f] = ram["sonos"][f]
  <2>1. PICK c \in Callers : Driving(c, f) /\ Command(c)[f] = ram["sonos"][f]
    BY <1>5
  <2>2. SameJob(c) /\ job'[c].pc = "drive"
    BY <2>1 DEF Driving, Stays
  <2>3. Driving(c, f)' /\ Command(c)' = Command(c)
    BY <2>1, <2>2, SameJobIs DEF SameJob, Driving
  <2>4. Driving(c, f)' /\ Command(c)'[f] = ram'["sonos"][f]
    BY <2>1, <2>3
  <2> QED BY <2>4 DEF PlayerOK
<1> QED BY <1>2, <1>3, <1>4, <1>5 DEF PlayerOK

LEMMA UrlOn ==
    ASSUME UrlOK, ram'["sonos"]["url_id"] = ram["sonos"]["url_id"],
           "url_id" \in stray["sonos"] => "url_id" \in stray'["sonos"],
           At("sonos", "url_id")' = At("sonos", "url_id") \/ "url_id" \in stray'["sonos"],
           \A c \in Callers :
              Stays(c) \/ (~Driving(c, "url_id") /\ ~Driving(c, "url_id")')
    PROVE  UrlOK'
<1>1. CASE "url_id" \in stray'["sonos"]
  BY <1>1 DEF UrlOK
<1>2. CASE "url_id" \notin stray'["sonos"]
  <2>1. "url_id" \notin stray["sonos"]
    BY <1>2
  <2>2. ASSUME NEW c \in Callers
        PROVE  /\ Driving(c, "url_id")' <=> Driving(c, "url_id")
               /\ Driving(c, "url_id") => Command(c)' = Command(c)
    <3>1. CASE Stays(c)
      <4>1. CASE job[c].pc = "idle" /\ job'[c].pc = "idle"
        BY <4>1 DEF Driving
      <4>2. CASE SameJob(c) /\ job'[c].pc = job[c].pc
        <5>1. Command(c)' = Command(c)
          BY <4>2, SameJobIs
        <5> QED BY <4>2, <5>1 DEF Driving, SameJob
      <4> QED BY <3>1, <4>1, <4>2 DEF Stays
    <3> QED BY <3>1
  <2>3. \A c \in Callers : Driving(c, "url_id") => Command(c)["url_id"] = ram["sonos"]["url_id"]
    BY <2>1 DEF UrlOK
  <2>4. (\A c \in Callers : ~Driving(c, "url_id")) => ram["sonos"]["url_id"] = At("sonos", "url_id")
    BY <2>1 DEF UrlOK
  <2>5. ASSUME NEW c \in Callers, Driving(c, "url_id")'
        PROVE  Command(c)'["url_id"] = ram'["sonos"]["url_id"]
    BY <2>2, <2>3, <2>5
  <2>6. ASSUME \A c \in Callers : ~Driving(c, "url_id")'
        PROVE  ram'["sonos"]["url_id"] = At("sonos", "url_id")'
    BY <1>2, <2>2, <2>4, <2>6
  <2> QED BY <2>5, <2>6 DEF UrlOK
<1> QED BY <1>1, <1>2

LEMMA UrlTold ==
    ASSUME NEW u, NEW vals, NEW e \in Said(u, vals), e.ep = "sonos"
    PROVE  e.field # "url_id"
<1>1. PICK g : e.ep = Endpoint(u) /\ e.field = g /\ Tells(u, g)
  BY SaidFields
<1>2. u = "sonos"
  BY <1>1 DEF Endpoint
<1>3. ASSUME g = "url_id" PROVE FALSE
  <2>1. Cluster(u, g) = "none"
    BY <1>3 DEF Cluster
  <2>2. Bound("sonos", Mode(u)) = {}
    BY DEF Bound, SonosBound
  <2> QED BY <1>1, <1>2, <2>1, <2>2 DEF Tells
<1> QED BY <1>1, <1>3

LEMMA UnsaidOn ==
    ASSUME Shape, UrlUnsaid,
           \/ events' = events
           \/ events # <<>> /\ events' = Tail(events)
           \/ \E u, vals : Became(u, vals)
    PROVE  UrlUnsaid'
<1>0. IsSeq(events)
  BY DEF Shape, EventsOK
<1>1. CASE events' = events
  BY <1>1 DEF UrlUnsaid
<1>2. CASE events # <<>> /\ events' = Tail(events)
  <2>1. PICK n, es, fs : n = Len(events) /\ es = events /\ fs = events'
    OBVIOUS
  <2>2. n \in Nat \ {0} /\ Len(fs) = n - 1 /\ \A k \in 1..(n - 1) : fs[k] = es[k + 1]
    BY <1>0, <1>2, <2>1, TailIs
  <2>3. \A k \in 1..n : es[k].ep = "sonos" => es[k].field # "url_id"
    BY <2>1 DEF UrlUnsaid
  <2>4. \A k \in 1..(n - 1) : fs[k].ep = "sonos" => fs[k].field # "url_id"
    <3>1. \A k \in 1..(n - 1) : k + 1 \in 1..n
      BY <2>2
    <3> QED BY <2>2, <2>3, <3>1
  <2> QED BY <2>1, <2>2, <2>4 DEF UrlUnsaid
<1>3. CASE \E u, vals : Became(u, vals)
  <2>1. PICK u, vals : Became(u, vals)
    BY <1>3
  <2>2. PICK m \in Nat : \E q \in [1..m -> Said(u, vals)] : events' = events \o q
    BY <2>1 DEF Became
  <2>3. PICK q \in [1..m -> Said(u, vals)] : events' = events \o q
    BY <2>2
  <2>4. PICK A : A = Said(u, vals)
    OBVIOUS
  <2>5. PICK n, es, fs : n = Len(events) /\ es = events /\ fs = es \o q
    OBVIOUS
  <2>6. n \in Nat /\ Len(fs) = n + m /\ (\A k \in 1..n : fs[k] = es[k])
        /\ \A k \in 1..m : fs[n + k] = q[k]
    <3>1. IsSeq(es) /\ q \in [1..m -> A]
      BY <1>0, <2>4, <2>5
    <3>2. Len(es) \in Nat /\ Len(es \o q) = Len(es) + m
      BY <3>1, JoinIs
    <3>3. \A k \in 1..Len(es) : (es \o q)[k] = es[k]
      BY <3>1, JoinIs
    <3>4. \A k \in 1..m : (es \o q)[Len(es) + k] = q[k]
      BY <3>1, JoinIs
    <3> QED BY <2>5, <3>2, <3>3, <3>4
  <2>7. ASSUME NEW k \in 1..(n + m), fs[k].ep = "sonos" PROVE fs[k].field # "url_id"
    <3>1. CASE k \in 1..n
      BY <2>5, <2>6, <2>7, <3>1 DEF UrlUnsaid
    <3>2. CASE k \notin 1..n
      <4>1. k - n \in 1..m /\ n + (k - n) = k
        BY <2>6, <3>2
      <4>2. fs[k] \in Said(u, vals)
        BY <2>3, <2>6, <4>1
      <4> QED BY <2>7, <4>2, UrlTold
    <3> QED BY <3>1, <3>2
  <2> QED BY <2>3, <2>5, <2>6, <2>7 DEF UrlUnsaid
<1> QED BY <1>1, <1>2, <1>3

LEMMA NextUnsaid ==
    ASSUME Shape, UrlUnsaid, [Next]_vars
    PROVE  UrlUnsaid'
<1>1. CASE Receive \/ Notified
  BY <1>1, UnsaidOn DEF Receive, Notified
<1>2. CASE Answered \/ Unanswered
  BY <1>2, AnsweredIs, UnansweredIs, UnsaidOn DEF Unheeded
<1>3. CASE Change
  <2>1. PICK u \in site : \E g \in WorkingIn(u, ModeOf[u]), v \in {0, 1} : Changed(u, g, v)
    BY <1>3, ChangeIs
  <2>2. \E vals : Became(u, vals)
    BY <2>1 DEF Changed
  <2> QED BY <2>2, UnsaidOn
<1>4. ASSUME NEW c \in Callers, Drive(c) PROVE UrlUnsaid'
  BY <1>4, DriveJob, UnsaidOn
<1>5. CASE \/ GiveUp \/ Compare \/ Put \/ Tell \/ UNCHANGED vars
           \/ \E c \in Callers :
                Begin(c) \/ Queue(c) \/ WriteRecord(c) \/ ReportSet(c) \/ SetChangeRpt(c)
  <2>1. events' = events
    BY <1>5, Zenon DEF GiveUp, Compare, Put, Tell, vars, Begin, Queue, WriteRecord, ReportSet,
                SetChangeRpt
  <2> QED BY <2>1, UnsaidOn
<1> QED BY <1>1, <1>2, <1>3, <1>4, <1>5 DEF Next

LEMMA PlayerFields ==
    ASSUME Shape, "sonos" \in site
    PROVE  /\ Fields("sonos") = {"play", "volume", "url_id"}
           /\ \A f \in {"play", "volume", "url_id"} : f \in WorkingIn("sonos", ModeOf["sonos"])
           /\ ~Heard("sonos", "url_id")
<1>1. Fields("sonos") = {"play", "volume", "url_id"}
  BY FieldsAre
<1>2. ~Heard("sonos", "url_id")
  BY <1>1, HeardFields DEF DevTypes
<1> QED BY <1>1, <1>2 DEF WorkingIn

LEMMA PlayerFares ==
    ASSUME Shape, UNCHANGED <<site, phys, events>>, NEW f
    PROVE  Fares("sonos", f) /\ At("sonos", f)' = At("sonos", f)
<1>1. ~InHand("sonos", f)
  BY UpdIs DEF InHand
<1>2. Pend("sonos", f) => Pend("sonos", f)'
  BY <1>1 DEF Pend, Due
<1> QED BY <1>2, FaresStill

\* What becomes of others is none of its business.
LEMMA OthersFare ==
    ASSUME Shape, HeardInv, UNCHANGED <<site, upd>>, "sonos" \in site,
           NEW u \in site, u # "sonos", NEW vals, Became(u, vals),
           NEW f \in {"play", "volume", "url_id"}
    PROVE  Fares("sonos", f) /\ At("sonos", f)' = At("sonos", f)
<1>1. f \in WorkingIn("sonos", ModeOf["sonos"])
  BY PlayerFields
<1>2. "sonos" \notin Sharing(u, f)
  BY SonosAlone
<1> QED BY <1>1, <1>2, BecameFares

Untouched(f) ==
    /\ ram'["sonos"][f] = ram["sonos"][f]
    /\ f \in stray["sonos"] => f \in stray'["sonos"]
    /\ Fares("sonos", f)

LEMMA StillPlayer ==
    ASSUME PlayerInv, UrlUnsaid', site' = site, 
           "sonos" \in site =>
              /\ \A f \in {"play", "volume", "url_id"} : Untouched(f)
              /\ At("sonos", "url_id")' = At("sonos", "url_id") \/ "url_id" \in stray'["sonos"],
           \A c \in Callers : Stays(c) \/ (job[c].pc # "drive" /\ job'[c].pc # "drive")
    PROVE  PlayerInv'
<1> SUFFICES ASSUME "sonos" \in site
             PROVE  UrlOK' /\ \A f \in {"play", "volume"} : PlayerOK(f)'
  BY DEF PlayerInv
<1>1. UrlOK'
  <2>1. Untouched("url_id")
    OBVIOUS
  <2>2. \A c \in Callers : Stays(c) \/ (~Driving(c, "url_id") /\ ~Driving(c, "url_id")')
    BY DEF Driving
  <2> QED BY <2>1, <2>2, UrlOn DEF PlayerInv, Untouched
<1>2. ASSUME NEW f \in {"play", "volume"} PROVE PlayerOK(f)'
  <2>1. Untouched(f)
    OBVIOUS
  <2>2. \A c \in Callers : Driving(c, f) => Stays(c)
    BY DEF Driving
  <2> QED BY <2>1, <2>2, PlayerOn DEF PlayerInv, Untouched
<1> QED BY <1>1, <1>2

LEMMA StrayPlayer ==
    ASSUME Shape, "sonos" \in site,
           \/ stray' = stray
           \/ \E u : \E x : stray' = [stray EXCEPT ![u] = @ \cup x]
           \/ \E u : \E x : u # "sonos" /\ stray' = [stray EXCEPT ![u] = @ \ x],
           NEW f
    PROVE  f \in stray["sonos"] => f \in stray'["sonos"]
BY DEF Shape, DevicesOK, FieldsOf

LEMMA QuietPlayer ==
    ASSUME Shape, PlayerInv, UrlUnsaid',
           UNCHANGED <<site, phys, events>>,
           \/ stray' = stray
           \/ \E u : \E x : u # "sonos" /\ stray' = [stray EXCEPT ![u] = @ \ x],
           "sonos" \in site =>
              \A f \in Fields("sonos") : ram'["sonos"][f] = ram["sonos"][f],
           \A c \in Callers : Stays(c) \/ (job[c].pc # "drive" /\ job'[c].pc # "drive")
    PROVE  PlayerInv'
<1>1. ASSUME "sonos" \in site
      PROVE  /\ \A f \in {"play", "volume", "url_id"} : Untouched(f)
             /\ At("sonos", "url_id")' = At("sonos", "url_id")
  <2>1. ASSUME NEW f \in {"play", "volume", "url_id"} PROVE Untouched(f)
    <3>1. ram'["sonos"][f] = ram["sonos"][f]
      BY <1>1, PlayerFields
    <3>2. f \in stray["sonos"] => f \in stray'["sonos"]
      BY <1>1, StrayPlayer
    <3>3. Fares("sonos", f)
      BY PlayerFares
    <3> QED BY <3>1, <3>2, <3>3 DEF Untouched
  <2> QED BY <2>1, PlayerFares
<1> QED BY <1>1, StillPlayer

LEMMA SparePlayer ==
    ASSUME Shape, PlayerInv,
           \/ GiveUp \/ Compare \/ Put \/ Tell \/ UNCHANGED vars
           \/ \E c \in Callers : Begin(c) \/ Queue(c) \/ ReportSet(c) \/ SetChangeRpt(c)
    PROVE  PlayerInv'
<1>1. UrlUnsaid'
  BY NextUnsaid DEF PlayerInv, Next
<1>2. UNCHANGED <<site, phys, events>>
  BY Zenon DEF GiveUp, Compare, Put, Tell, vars, Begin, Queue, ReportSet, SetChangeRpt
<1>3. \/ stray' = stray
      \/ \E u : \E x : u # "sonos" /\ stray' = [stray EXCEPT ![u] = @ \ x]
  <2>1. CASE Compare
    <3>1. upd.type # "sonos" /\ stray' = [stray EXCEPT ![upd.type] = @ \ {upd.field}]
      BY <2>1, CompareIs, UpdIs
    <3> QED BY <3>1
  <2>2. CASE ~Compare
    BY <2>2, Zenon DEF GiveUp, Put, Tell, vars, Begin, Queue, ReportSet, SetChangeRpt
  <2> QED BY <2>1, <2>2
<1>4. ASSUME "sonos" \in site, NEW f \in Fields("sonos")
      PROVE  ram'["sonos"][f] = ram["sonos"][f]
  <2>1. CASE Put
    <3>1. PICK vals : Written(upd.type, vals)
      BY <2>1, PutIs
    <3>2. upd.type \in site /\ upd.type # "sonos"
      BY <2>1, PutIs, UpdIs
    <3> QED BY <1>4, <3>1, <3>2, WrittenFields
  <2>2. CASE ~Put
    BY <1>4, <2>2, KeptStates DEF StatesKept, vars
  <2> QED BY <2>1, <2>2
<1>5. \A c \in Callers : Stays(c) \/ (job[c].pc # "drive" /\ job'[c].pc # "drive")
  <2>1. ASSUME NEW d \in Callers, Begin(d)
        PROVE  \A c \in Callers : Stays(c) \/ (job[c].pc # "drive" /\ job'[c].pc # "drive")
    <3>1. job[d].pc = "idle"
      BY <2>1, Zenon DEF Begin
    <3>2. PICK j : BeginSays(d, j) /\ Begun(d, j)
      BY <2>1, BeginJob
    <3>3. \A c \in Callers \ {d} : Stays(c)
      BY <3>2, BegunStay
    <3>4. job'[d].pc # "drive"
      BY <3>2 DEF Begun, BeginSays
    <3> QED BY <3>1, <3>3, <3>4
  <2>2. ASSUME NEW d \in Callers, Queue(d) \/ ReportSet(d)
        PROVE  \A c \in Callers : Stays(c) \/ (job[c].pc # "drive" /\ job'[c].pc # "drive")
    <3>1. job[d].pc \in {"queue", "report"}
      BY <2>2 DEF Queue, ReportSet
    <3>2. \A c \in Callers \ {d} : Stays(c)
      BY <2>2, CallerGoes
    <3>3. job'[d].pc \in {"write", "idle"}
      <4>1. CASE Queue(d)
        BY <4>1, QueueJob DEF Continues
      <4>2. CASE ReportSet(d)
        <5>1. job' = [job EXCEPT ![d] = [pc |-> "idle"]]
          BY <4>2 DEF ReportSet
        <5> QED BY <5>1, DoneStay
      <4> QED BY <2>2, <4>1, <4>2
    <3> QED BY <3>1, <3>2, <3>3
  <2> QED BY <2>1, <2>2, AllStay
<1> QED BY <1>1, <1>2, <1>3, <1>4, <1>5, QuietPlayer

LEMMA ObeyedPlayer ==
    ASSUME Shape, HeardInv, PlayerInv, Answered \/ Unanswered
    PROVE  PlayerInv'
<1>1. UrlUnsaid'
  BY NextUnsaid DEF PlayerInv, Next
<1>2. StatesKept /\ \A c \in Callers : Stays(c)
  BY KeptStates, AllStay
<1>3. UNCHANGED <<site, upd>> /\ cmds # <<>>
  BY DEF Answered, Unanswered
<1>4. PICK q : q = cmds[1]
  OBVIOUS
<1>5. /\ \/ q.to \in site /\ Became(q.to, q.vals)
         \/ UNCHANGED <<phys, events>>
      /\ stray' = stray \/ \E u : \E x : stray' = [stray EXCEPT ![u] = @ \cup x]
  <2>1. CASE Answered
    <3>1. stray' = stray
      BY <2>1 DEF Answered
    <3> QED BY <1>4, <2>1, <3>1, AnsweredIs
  <2>2. CASE Unanswered
    <3>1. q.to \in site /\ Unheeded(q)
      BY <1>4, <2>2, UnansweredIs
    <3>2. stray' = stray \/ \E u : \E x : stray' = [stray EXCEPT ![u] = @ \cup x]
      BY <3>1 DEF Unheeded
    <3> QED BY <3>1, <3>2 DEF Unheeded
  <2> QED BY <2>1, <2>2
<1>6. q.to \in site => q.to # "sonos"
  BY <1>3, <1>4, HeadCmd DEF IsCmd
<1>7. ASSUME "sonos" \in site, NEW f \in {"play", "volume", "url_id"}
      PROVE  Untouched(f) /\ At("sonos", f)' = At("sonos", f)
  <2>1. ram'["sonos"][f] = ram["sonos"][f]
    BY <1>2, <1>7, PlayerFields DEF StatesKept
  <2>2. f \in stray["sonos"] => f \in stray'["sonos"]
    BY <1>5, <1>7, StrayPlayer
  <2>3. Fares("sonos", f) /\ At("sonos", f)' = At("sonos", f)
    <3>1. CASE q.to \in site /\ Became(q.to, q.vals)
      <4>1. PICK u, vals : u = q.to /\ vals = q.vals
        OBVIOUS
      <4> QED BY <1>3, <1>6, <1>7, <3>1, <4>1, OthersFare
    <3>2. CASE UNCHANGED <<phys, events>>
      BY <1>3, <3>2, PlayerFares
    <3> QED BY <1>5, <3>1, <3>2
  <2> QED BY <2>1, <2>2, <2>3 DEF Untouched
<1> QED BY <1>1, <1>2, <1>3, <1>7, StillPlayer

LEMMA ChangePlayer ==
    ASSUME Shape, HeardInv, PlayerInv, Change
    PROVE  PlayerInv'
<1>1. UrlUnsaid'
  BY NextUnsaid DEF PlayerInv, Next
<1>2. StatesKept /\ \A c \in Callers : Stays(c)
  BY KeptStates, AllStay
<1>3. UNCHANGED <<site, upd>>
  BY ChangeIs
<1>4. PICK u \in site : \E g \in WorkingIn(u, ModeOf[u]), v \in {0, 1} : Changed(u, g, v)
  BY ChangeIs
<1>5. PICK g, v : Changed(u, g, v)
  BY <1>4
<1>6. PICK vals : vals = [x \in {g} |-> v]
  OBVIOUS
<1>7. Became(u, vals) /\ DOMAIN vals = {g}
  BY <1>5, <1>6 DEF Changed
<1>8. ASSUME "sonos" \in site, NEW f \in {"play", "volume", "url_id"}
      PROVE  /\ Untouched(f)
             /\ f = "url_id" => At("sonos", f)' = At("sonos", f) \/ f \in stray'["sonos"]
  <2>1. ram'["sonos"][f] = ram["sonos"][f]
    BY <1>2, <1>8, PlayerFields DEF StatesKept
  <2>2. f \in WorkingIn("sonos", ModeOf["sonos"]) /\ ~Heard("sonos", "url_id")
    BY <1>8, PlayerFields
  <2>3. PICK t : t = "sonos"
    OBVIOUS
  <2>4. /\ Fares(t, f)
        /\ At(t, f)' = IF f \in DOMAIN vals \cap Fields(u) /\ t \in Sharing(u, f)
                       THEN vals[f] ELSE At(t, f)
    BY <1>3, <1>7, <1>8, <2>2, <2>3, BecameFares
  <2>5. f \in stray["sonos"] => f \in stray'["sonos"]
    BY <1>5, <1>8 DEF Changed
  <2>6. ASSUME f = "url_id", At("sonos", f)' # At("sonos", f) PROVE f \in stray'["sonos"]
    <3>1. f = g /\ "sonos" \in Sharing(u, f)
      BY <1>7, <2>3, <2>4, <2>6
    <3> QED BY <1>5, <1>8, <2>2, <2>6, <3>1 DEF Changed
  <2> QED BY <2>1, <2>3, <2>4, <2>5, <2>6 DEF Untouched
<1> QED BY <1>1, <1>2, <1>3, <1>8, StillPlayer

LEMMA ReceivePlayer ==
    ASSUME Shape, HeardInv, PlayerInv, Receive
    PROVE  PlayerInv'
<1>1. UrlUnsaid'
  BY NextUnsaid DEF PlayerInv, Next
<1>2. StatesKept /\ \A c \in Callers : Stays(c)
  BY KeptStates, AllStay
<1>3. UNCHANGED <<site, phys>>
  BY ReceiveIs
<1>4. stray' = stray \/ \E u : \E x : stray' = [stray EXCEPT ![u] = @ \cup x]
  BY ReceiveIs DEF Received, Taken
<1>5. ASSUME "sonos" \in site, NEW f \in {"play", "volume", "url_id"}
      PROVE  Untouched(f) /\ At("sonos", f)' = At("sonos", f)
  <2>1. ram'["sonos"][f] = ram["sonos"][f]
    BY <1>2, <1>5, PlayerFields DEF StatesKept
  <2>2. f \in stray["sonos"] => f \in stray'["sonos"]
    BY <1>4, <1>5, StrayPlayer
  <2>3. f \in WorkingIn("sonos", ModeOf["sonos"]) /\ f \in Fields("sonos")
    BY <1>5, PlayerFields
  <2>4. At("sonos", f)' = At("sonos", f)
    BY <1>3, AtSame
  <2>5. ASSUME Heard("sonos", f) PROVE Pend("sonos", f) => Pend("sonos", f)'
    <3>1. PICK t : t = "sonos"
      OBVIOUS
    <3>2. HeardOK(t, f)
      BY <1>5, <2>3, <2>5, <3>1 DEF HeardInv
    <3>3. Pend(t, f) => Pend(t, f)' \/ (t \in Sensors /\ f \in stray'[t])
      BY <1>5, <2>3, <3>1, <3>2, ReceiveHeard
    <3> QED BY <3>1, <3>3 DEF Sensors
  <2>6. Fares("sonos", f)
    BY <2>4, <2>5 DEF Fares
  <2> QED BY <2>1, <2>2, <2>4, <2>6 DEF Untouched
<1> QED BY <1>1, <1>2, <1>3, <1>5, StillPlayer

LEMMA NotifiedPlayer ==
    ASSUME Shape, HeardInv, PlayerInv, Notified
    PROVE  PlayerInv'
<1>1. UrlUnsaid'
  BY NextUnsaid DEF PlayerInv, Next
<1>2. PICK e : e = events[1]
  OBVIOUS
<1>3. /\ events # <<>> /\ "sonos" \in site /\ e.ep = "sonos" /\ e.field \in Fields("sonos")
      /\ UNCHANGED <<site, phys>>
      /\ stray' = [stray EXCEPT !["sonos"] = @ \ {e.field}]
  BY <1>2, NotifiedIs
<1>4. PICK w : DOMAIN w = {e.field} /\ w[e.field] = e.val /\ Written("sonos", w)
  BY <1>2, NotifiedIs
<1>5. e.field # "url_id"
  <2>1. 1 \in 1..Len(events)
    BY <1>3, HeadEvent
  <2> QED BY <1>2, <1>3, <2>1 DEF PlayerInv, UrlUnsaid
<1>6. \A c \in Callers : Stays(c)
  BY AllStay
<1>7. "sonos" \in DOMAIN stray
  BY <1>3 DEF Shape, DevicesOK, FieldsOf
<1>8. ASSUME NEW f \in {"play", "volume", "url_id"}, f # e.field PROVE Untouched(f)
  <2>1. f \in Fields("sonos") /\ f \in WorkingIn("sonos", ModeOf["sonos"])
    BY <1>3, PlayerFields
  <2>2. ram'["sonos"][f] = ram["sonos"][f]
    BY <1>3, <1>4, <1>8, <2>1, WrittenFields
  <2>3. f \in stray["sonos"] => f \in stray'["sonos"]
    BY <1>3, <1>7, <1>8
  <2>4. At("sonos", f)' = At("sonos", f)
    BY <1>3, AtSame
  <2>5. ASSUME Heard("sonos", f) PROVE Pend("sonos", f) => Pend("sonos", f)'
    <3>1. PICK t : t = "sonos"
      OBVIOUS
    <3>2. HeardOK(t, f)
      BY <1>3, <2>1, <2>5, <3>1 DEF HeardInv
    <3>3. Pend(t, f) => Pend(t, f)' \/ (t = "sonos" /\ f = events[1].field)
      BY <1>3, <2>1, <3>1, <3>2, NotifiedHeard
    <3> QED BY <1>2, <1>8, <3>1, <3>3
  <2>6. Fares("sonos", f)
    BY <2>4, <2>5 DEF Fares
  <2> QED BY <2>2, <2>3, <2>6 DEF Untouched
<1>9. UrlOK'
  <2>1. Untouched("url_id")
    BY <1>5, <1>8
  <2>2. At("sonos", "url_id")' = At("sonos", "url_id")
    BY <1>3, AtSame
  <2> QED BY <1>3, <1>6, <2>1, <2>2, UrlOn DEF PlayerInv, Untouched
<1>10. ASSUME NEW f \in {"play", "volume"} PROVE PlayerOK(f)'
  <2>1. CASE f # e.field
    <3>1. Untouched(f)
      BY <1>8, <2>1
    <3> QED BY <1>3, <1>6, <3>1, PlayerOn DEF PlayerInv, Untouched
  <2>2. CASE f = e.field
    <3>1. f \in Fields("sonos") /\ f \in WorkingIn("sonos", ModeOf["sonos"])
      BY <1>3, PlayerFields
    <3>2. Heard("sonos", f)
      BY DEF Heard, Cluster
    <3>3. PICK t : t = "sonos"
      OBVIOUS
    <3>4. HeardOK(t, f)
      BY <1>3, <3>1, <3>2, <3>3 DEF HeardInv
    <3>5. t = "sonos" /\ f = events[1].field /\ ~Pend(t, f)' => events[1].val = At(t, f)
      BY <1>3, <3>1, <3>3, <3>4, NotifiedHeard
    <3>6. Pend("sonos", f)' \/ e.val = At("sonos", f)
      BY <1>2, <2>2, <3>3, <3>5
    <3>7. At("sonos", f)' = At("sonos", f)
      BY <1>3, AtSame
    <3>8. ram'["sonos"][f] = e.val
      BY <1>4, <2>2 DEF Written
    <3>9. Pend("sonos", f)' \/ ram'["sonos"][f] = At("sonos", f)'
      BY <3>6, <3>7, <3>8
    <3> QED BY <3>9 DEF PlayerOK
  <2> QED BY <2>1, <2>2
<1> QED BY <1>1, <1>3, <1>9, <1>10 DEF PlayerInv

\* What a player is told is what is on record.
LEMMA PlayerTold ==
    ASSUME Shape, NEW c \in Callers, job[c].pc # "idle", job[c].type = "sonos"
    PROVE  /\ DOMAIN Command(c) = DOMAIN job[c].vals
           /\ DOMAIN job[c].vals \subseteq Fields("sonos")
           /\ \A f \in DOMAIN job[c].vals : Command(c)[f] = Recorded(c)[f]
<1>1. /\ SetterOK(job[c].type, job[c].field) /\ job[c].carried = Setting(c).carries
      /\ Setting(c) = SetState[job[c].type][job[c].field]
      /\ Touched(c) \subseteq Fields(job[c].type)
  BY JobSetter
<1>2. job[c].carried = {}
  BY <1>1 DEF SetterOK
<1>3. DOMAIN Command(c) = DOMAIN job[c].vals /\ DOMAIN job[c].vals \subseteq Fields("sonos")
  BY <1>1, <1>2, CommandIs DEF Touched
<1>4. ASSUME NEW f \in DOMAIN job[c].vals PROVE Command(c)[f] = Recorded(c)[f]
  <2>1. f # "level"
    BY <1>3, FieldsAre
  <2> QED BY <2>1, RecordedSent
<1> QED BY <1>3, <1>4

LEMMA WriteRecordPlayer ==
    ASSUME Shape, Late, PlayerInv, NEW c \in Callers, WriteRecord(c)
    PROVE  PlayerInv'
<1>1. UrlUnsaid'
  BY NextUnsaid DEF PlayerInv, Next
<1>2. UNCHANGED <<site, phys, events>> /\ job[c].pc = "write"
  BY DEF WriteRecord
<1>3. PICK u : u = job[c].type
  OBVIOUS
<1>4. u \in site /\ Written(u, Recorded(c))
  BY <1>3, WriteRecordJob
<1>5. PICK p \in {"idle", "drive", "report"} :
        Continues(c, p, job[c].late) /\ (p = "drive" <=> u = "sonos")
  BY <1>3, WriteRecordJob
<1>6. /\ \A d \in Callers \ {c} : Stays(d)
      /\ job'[c].pc = p /\ (p # "idle" => SameJob(c))
  BY <1>2, <1>5, ContinuesStay
<1>7. DOMAIN Recorded(c) = DOMAIN job[c].vals
  BY <1>2, RecordedIs
<1> SUFFICES ASSUME "sonos" \in site
             PROVE  UrlOK' /\ \A f \in {"play", "volume"} : PlayerOK(f)'
  BY <1>1, <1>2 DEF PlayerInv
<1>8. ASSUME NEW f \in {"play", "volume", "url_id"}, u # "sonos" \/ f \notin DOMAIN job[c].vals
      PROVE  /\ Untouched(f) /\ At("sonos", f)' = At("sonos", f)
             /\ ~Driving(c, f) /\ ~Driving(c, f)'
  <2>1. f \in Fields("sonos")
    BY PlayerFields
  <2>2. ram'["sonos"][f] = ram["sonos"][f]
    BY <1>4, <1>7, <1>8, <2>1, WrittenFields
  <2>3. f \in stray["sonos"] => f \in stray'["sonos"]
    BY <1>3, <1>8, WriteStrays
  <2>4. Fares("sonos", f) /\ At("sonos", f)' = At("sonos", f)
    BY <1>2, PlayerFares
  <2>5. ~Driving(c, f)'
    BY <1>5, <1>6, <1>8 DEF Driving, SameJob
  <2>6. ~Driving(c, f)
    BY <1>2 DEF Driving
  <2> QED BY <2>2, <2>3, <2>4, <2>5, <2>6 DEF Untouched
<1>9. ASSUME u = "sonos", NEW f \in DOMAIN job[c].vals
      PROVE  /\ Driving(c, f)' /\ Command(c)'[f] = ram'["sonos"][f]
             /\ SameJob(c) /\ ~Driving(c, f)
  <2>1. SameJob(c) /\ job'[c].pc = "drive"
    BY <1>5, <1>6, <1>9
  <2>2. Driving(c, f)' /\ Command(c)' = Command(c)
    BY <1>9, <2>1, SameJobIs DEF SameJob, Driving
  <2>3. Command(c)[f] = Recorded(c)[f]
    BY <1>2, <1>3, <1>9, PlayerTold
  <2>4. ram'["sonos"][f] = Recorded(c)[f]
    BY <1>4, <1>7, <1>9 DEF Written
  <2> QED BY <1>2, <2>1, <2>2, <2>3, <2>4 DEF Driving
<1>10. UrlOK'
  <2>1. CASE u # "sonos" \/ "url_id" \notin DOMAIN job[c].vals
    <3>1. /\ Untouched("url_id") /\ At("sonos", "url_id")' = At("sonos", "url_id")
          /\ ~Driving(c, "url_id") /\ ~Driving(c, "url_id")'
      BY <1>8, <2>1
    <3> QED BY <1>6, <3>1, UrlOn DEF PlayerInv, Untouched
  <2>2. CASE u = "sonos" /\ "url_id" \in DOMAIN job[c].vals
    <3>1. CASE job[c].late
      <4>1. "url_id" \in stray'["sonos"]
        BY <1>3, <2>2, <3>1, WriteStrays DEF Touched
      <4> QED BY <4>1 DEF UrlOK
    <3>2. CASE ~job[c].late
      <4>1. Driving(c, "url_id")' /\ Command(c)'["url_id"] = ram'["sonos"]["url_id"]
        BY <1>9, <2>2
      <4>2. ASSUME NEW d \in Callers, d # c, Driving(d, "url_id")' PROVE FALSE
        <5>1. SameJob(d) /\ job[d].pc = "drive"
          BY <1>6, <4>2 DEF Driving, Stays
        <5>2. "url_id" \in DOMAIN job[d].vals
          BY <4>2, <5>1 DEF Driving, SameJob
        <5>3. job[d].type = "sonos"
          BY <5>1, JobIs DEF IsJob
        <5>4. "url_id" \in Touched(c) \cap Touched(d)
          BY <2>2, <5>2 DEF Touched
        <5> QED BY <1>2, <1>3, <2>2, <3>2, <4>2, <5>1, <5>3, <5>4 DEF Late
      <4> QED BY <4>1, <4>2 DEF UrlOK
    <3> QED BY <3>1, <3>2
  <2> QED BY <2>1, <2>2
<1>11. ASSUME NEW f \in {"play", "volume"} PROVE PlayerOK(f)'
  <2>1. CASE u # "sonos" \/ f \notin DOMAIN job[c].vals
    <3>1. Untouched(f) /\ ~Driving(c, f)
      BY <1>8, <2>1
    <3>2. \A d \in Callers : Driving(d, f) => Stays(d)
      BY <1>6, <3>1
    <3>3. PlayerOK(f)
      BY DEF PlayerInv
    <3> QED BY <3>1, <3>2, <3>3, PlayerOn DEF Untouched
  <2>2. CASE u = "sonos" /\ f \in DOMAIN job[c].vals
    <3>1. Driving(c, f)' /\ Command(c)'[f] = ram'["sonos"][f]
      BY <1>9, <2>2
    <3> QED BY <3>1 DEF PlayerOK
  <2> QED BY <2>1, <2>2
<1> QED BY <1>10, <1>11

LEMMA DrivePlayer ==
    ASSUME Shape, HeardInv, PlayerInv, NEW c \in Callers, Drive(c)
    PROVE  PlayerInv'
<1>1. UrlUnsaid'
  BY NextUnsaid DEF PlayerInv, Next
<1>2. UNCHANGED <<site, ram, upd>> /\ job[c].pc = "drive"
  BY DEF Drive
<1>3. /\ job[c].type = "sonos" /\ "sonos" \in site
      /\ \/ Became("sonos", Command(c)) /\ stray' = stray
         \/ /\ UNCHANGED <<phys, events>>
            /\ stray' = [stray EXCEPT !["sonos"] = @ \cup DOMAIN job[c].vals]
  BY DriveJob
<1>4. PICK p \in {"idle", "report"} : Continues(c, p, job[c].late)
  BY DriveJob
<1>5. (\A d \in Callers \ {c} : Stays(d)) /\ job'[c].pc = p
  BY <1>2, <1>4, ContinuesStay
<1>6. DOMAIN Command(c) = DOMAIN job[c].vals
  BY <1>2, <1>3, PlayerTold
<1>7. "sonos" \in DOMAIN stray
  BY <1>3 DEF Shape, DevicesOK, FieldsOf
<1>8. ASSUME NEW f \in {"play", "volume", "url_id"}
      PROVE  /\ Fares("sonos", f)
             /\ At("sonos", f)' = IF stray' = stray /\ f \in DOMAIN job[c].vals /\ Became("sonos", Command(c))
                                  THEN Command(c)[f] ELSE At("sonos", f)
  <2>1. CASE Became("sonos", Command(c)) /\ stray' = stray
    <3>1. f \in WorkingIn("sonos", ModeOf["sonos"]) /\ f \in Fields("sonos")
      BY <1>3, PlayerFields
    <3>2. PICK t, vals : t = "sonos" /\ vals = Command(c)
      OBVIOUS
    <3>3. Became(t, vals) /\ t \in site /\ f \in WorkingIn(t, ModeOf[t])
      BY <1>3, <2>1, <3>1, <3>2
    <3>4. /\ Fares(t, f)
          /\ At(t, f)' = IF f \in DOMAIN vals \cap Fields(t) /\ t \in Sharing(t, f)
                         THEN vals[f] ELSE At(t, f)
      BY <1>2, <3>3, BecameFares
    <3>5. t \in Sharing(t, f)
      BY <3>3 DEF Sharing
    <3> QED BY <1>6, <2>1, <3>1, <3>2, <3>4, <3>5
  <2>2. CASE /\ UNCHANGED <<phys, events>> /\ ~(Became("sonos", Command(c)) /\ stray' = stray)
    BY <1>2, <2>2, PlayerFares
  <2> QED BY <1>3, <2>1, <2>2
<1>9. ASSUME NEW f \in {"play", "volume", "url_id"}
      PROVE  /\ f \in stray["sonos"] => f \in stray'["sonos"]
             /\ Driving(c, f) /\ f \notin stray'["sonos"] =>
                    At("sonos", f)' = Command(c)[f]
             /\ ~Driving(c, f) => At("sonos", f)' = At("sonos", f)
  <2>1. Driving(c, f) <=> f \in DOMAIN job[c].vals
    BY <1>2 DEF Driving
  <2>2. CASE Became("sonos", Command(c)) /\ stray' = stray
    BY <1>8, <2>1, <2>2
  <2>3. CASE stray' = [stray EXCEPT !["sonos"] = @ \cup DOMAIN job[c].vals]
    BY <1>7, <1>8, <2>1, <2>3
  <2> QED BY <1>3, <2>2, <2>3
<1>10. ASSUME NEW f \in {"play", "volume"} PROVE PlayerOK(f)'
  <2>1. PlayerOK(f)
    BY <1>3 DEF PlayerInv
  <2>2. CASE Driving(c, f) /\ Command(c)[f] = ram["sonos"][f] /\ f \notin stray'["sonos"]
    <3>1. At("sonos", f)' = Command(c)[f]
      BY <1>9, <2>2
    <3>2. ram'["sonos"][f] = At("sonos", f)'
      BY <1>2, <2>2, <3>1
    <3> QED BY <3>2 DEF PlayerOK
  <2>3. CASE f \in stray'["sonos"]
    BY <2>3 DEF PlayerOK
  <2>4. CASE \E d \in Callers \ {c} : Driving(d, f) /\ Command(d)[f] = ram["sonos"][f]
    <3>1. PICK d \in Callers \ {c} : Driving(d, f) /\ Command(d)[f] = ram["sonos"][f]
      BY <2>4
    <3>2. SameJob(d) /\ job'[d].pc = "drive"
      BY <1>5, <3>1 DEF Driving, Stays
    <3>3. Driving(d, f)' /\ Command(d)' = Command(d)
      BY <3>1, <3>2, SameJobIs DEF SameJob, Driving
    <3>4. Driving(d, f)' /\ Command(d)'[f] = ram'["sonos"][f]
      BY <1>2, <3>1, <3>3
    <3> QED BY <3>4 DEF PlayerOK
  <2>5. Heard("sonos", f)
    BY DEF Heard, Cluster
  <2>6. CASE Pend("sonos", f)
    BY <1>8, <2>5, <2>6 DEF PlayerOK, Fares
  <2>7. CASE ram["sonos"][f] = At("sonos", f)
    <3>1. Pend("sonos", f)' \/ At("sonos", f)' = At("sonos", f)
      BY <1>8, <2>5 DEF Fares
    <3>2. Pend("sonos", f)' \/ ram'["sonos"][f] = At("sonos", f)'
      BY <1>2, <2>7, <3>1
    <3> QED BY <3>2 DEF PlayerOK
  <2>8. f \in stray["sonos"] => f \in stray'["sonos"]
    BY <1>9
  <2> QED BY <2>1, <2>2, <2>3, <2>4, <2>6, <2>7, <2>8 DEF PlayerOK
<1>11. UrlOK'
  <2>1. CASE "url_id" \in stray'["sonos"]
    BY <2>1 DEF UrlOK
  <2>2. CASE "url_id" \notin stray'["sonos"]
    <3>1. "url_id" \notin stray["sonos"] /\ UrlOK
      BY <1>3, <1>9, <2>2 DEF PlayerInv
    <3>2. ASSUME NEW d \in Callers, Driving(d, "url_id")'
          PROVE  Driving(d, "url_id") /\ Command(d)' = Command(d)
      <4>1. d # c
        BY <1>5, <3>2 DEF Driving
      <4>2. SameJob(d) /\ job[d].pc = "drive"
        BY <1>5, <3>2, <4>1 DEF Driving, Stays
      <4> QED BY <3>2, <4>2, SameJobIs DEF SameJob, Driving
    <3>3. ASSUME NEW d \in Callers, d # c, Driving(d, "url_id") PROVE Driving(d, "url_id")'
      <4>1. SameJob(d) /\ job'[d].pc = "drive"
        BY <1>5, <3>3 DEF Driving, Stays
      <4> QED BY <3>3, <4>1 DEF SameJob, Driving
    <3>4. ASSUME NEW d \in Callers, Driving(d, "url_id")'
          PROVE  Command(d)'["url_id"] = ram'["sonos"]["url_id"]
      BY <1>2, <3>1, <3>2, <3>4 DEF UrlOK
    <3>5. ASSUME \A d \in Callers : ~Driving(d, "url_id")'
          PROVE  ram'["sonos"]["url_id"] = At("sonos", "url_id")'
      <4>1. CASE Driving(c, "url_id")
        <5>1. At("sonos", "url_id")' = Command(c)["url_id"]
          BY <1>9, <2>2, <4>1
        <5>2. Command(c)["url_id"] = ram["sonos"]["url_id"]
          BY <3>1, <4>1 DEF UrlOK
        <5> QED BY <1>2, <5>1, <5>2
      <4>2. CASE ~Driving(c, "url_id")
        <5>1. \A d \in Callers : ~Driving(d, "url_id")
          BY <3>3, <3>5, <4>2
        <5>2. ram["sonos"]["url_id"] = At("sonos", "url_id")
          BY <3>1, <5>1 DEF UrlOK
        <5>3. At("sonos", "url_id")' = At("sonos", "url_id")
          BY <1>9, <4>2
        <5> QED BY <1>2, <5>2, <5>3
      <4> QED BY <4>1, <4>2
    <3> QED BY <3>4, <3>5 DEF UrlOK
  <2> QED BY <2>1, <2>2
<1> QED BY <1>1, <1>10, <1>11 DEF PlayerInv

LEMMA NextPlayer ==
    ASSUME Shape, Late, HeardInv, PlayerInv, [Next]_vars
    PROVE  PlayerInv'
BY SparePlayer, ObeyedPlayer, ChangePlayer, ReceivePlayer, NotifiedPlayer, WriteRecordPlayer,
   DrivePlayer DEF Next

\* At first a device does what is on record or is known not to.
LEMMA InitAt ==
    ASSUME Init, NEW t \in site, NEW f \in Fields(t)
    PROVE  f \in stray[t] \/ ram[t][f] = At(t, f)
<1>1. Shape
  BY InitShape
<1>2. PICK m \in Sites, rubbish \in {ScanLimit - 2, ScanLimit - 1} :
        /\ site = DOMAIN m
        /\ ram = [u \in site |->
                    Over([at_err_tick |-> rubbish, reachable |-> Add(u, m[u]).reachable],
                         Default(u, m[u]))]
  BY DEF Init
<1>3. PICK other \in BOOLEAN :
        phys = [u \in site |-> [g \in Fields(u) |->
                    IF other THEN 1 - Limited(ram[u][g]) ELSE ram[u][g]]]
  BY DEF Init
<1>4. stray[t] = {g \in Fields(t) : phys[t][g] # ram[t][g]}
  BY DEF Init
<1>5. t \in DevTypes /\ ram[t][f] \in Values
  BY <1>1, SiteTypes DEF Shape, DevicesOK, RecordsOK, RecordOK
<1>6. CASE other
  <2>1. phys[t][f] = 1 - Limited(ram[t][f])
    BY <1>3, <1>6
  <2>2. phys[t][f] # ram[t][f]
    BY <1>5, <2>1 DEF Values, Limited
  <2> QED BY <1>4, <2>2
<1>7. CASE ~other
  <2>1. \A u \in site : \A g \in Fields(u) : phys[u][g] = ram[u][g]
    BY <1>3, <1>7
  <2>2. CASE f = "power" /\ Endpoint(t) \in site /\ Endpoint(t) # t
    <3>1. t = "hum_sensor" /\ Endpoint(t) = "temp_sensor" /\ "temp_sensor" \in site
      BY <2>2 DEF Endpoint
    <3>2. At(t, f) = phys["temp_sensor"]["power"]
      BY <2>2, <3>1 DEF At
    <3>3. "power" \in Fields("temp_sensor")
      BY FieldsAre
    <3>4. ASSUME NEW u \in site, u \in {"temp_sensor", "hum_sensor"} PROVE ram[u]["power"] = 2
      <4>1. PICK A : A = [at_err_tick |-> rubbish, reachable |-> Add(u, m[u]).reachable]
        OBVIOUS
      <4>2. PICK D : D = Default(u, m[u])
        OBVIOUS
      <4>3. "power" \in DOMAIN D /\ D["power"] = 2
        <5>1. CASE u = "temp_sensor"
          <6>1. D = TempSensorDefault(m[u])
            BY <4>2, <5>1 DEF Default
          <6> QED BY <6>1 DEF TempSensorDefault
        <5>2. CASE u = "hum_sensor"
          <6>1. D = HumSensorDefault(m[u])
            BY <4>2, <5>2 DEF Default
          <6> QED BY <6>1 DEF HumSensorDefault
        <5> QED BY <3>4, <5>1, <5>2
      <4>4. ram[u] = Over(A, D) /\ DOMAIN A = {"at_err_tick", "reachable"}
        BY <1>2, <4>1, <4>2
      <4> QED BY <4>3, <4>4 DEF Over
    <3> QED BY <2>1, <2>2, <3>1, <3>2, <3>3, <3>4
  <2>3. CASE ~(f = "power" /\ Endpoint(t) \in site /\ Endpoint(t) # t)
    <3>1. At(t, f) = phys[t][f]
      BY <2>3 DEF At
    <3> QED BY <2>1, <3>1
  <2> QED BY <2>2, <2>3
<1> QED BY <1>6, <1>7

LEMMA InitRecord == Init => RecordInv /\ PlayerInv
<1> SUFFICES ASSUME Init PROVE RecordInv /\ PlayerInv
  OBVIOUS
<1>1. Shape
  BY InitShape
<1>2. /\ \A c \in Callers : job[c].pc = "idle"
      /\ events = <<>> /\ cmds = <<>>
  BY DEF Init
<1>3. Len(cmds) = 0 /\ Len(events) = 0
  BY <1>2
<1>4. ASSUME NEW t \in site \ {"sonos"}, NEW f \in WorkingIn(t, ModeOf[t]) PROVE RecOK(t, f)
  <2>1. f \in stray[t] \/ ram[t][f] = At(t, f)
    BY <1>4, InitAt DEF WorkingIn
  <2>2. PICK a, v : a = At(t, f) /\ v = ram[t][f]
    OBVIOUS
  <2>3. a = v => Ends(cmds, Len(cmds), t, f, a, v)
    BY <1>3 DEF Ends
  <2>4. a = v => Will(t, f, v)
    BY <2>2, <2>3 DEF Will
  <2> QED BY <2>1, <2>2, <2>4 DEF RecOK, Held
<1>5. \A c \in Callers : WriteOK(c) /\ CarryOK(c)
  BY <1>2 DEF WriteOK, CarryOK
<1>6. UrlUnsaid
  BY <1>3 DEF UrlUnsaid
<1>7. ASSUME "sonos" \in site, NEW f \in {"play", "volume", "url_id"}
      PROVE  f \in stray["sonos"] \/ ram["sonos"][f] = At("sonos", f)
  BY <1>1, <1>7, InitAt, PlayerFields
<1>8. \A c \in Callers : ~Driving(c, "url_id")
  BY <1>2 DEF Driving
<1> QED BY <1>4, <1>5, <1>6, <1>7, <1>8 DEF RecordInv, PlayerInv, UrlOK, PlayerOK

LEMMA RecordMeans == ASSUME Shape, RecordInv, PlayerInv PROVE RecordTrue
<1> SUFFICES ASSUME Quiet, NEW t \in site, NEW f \in Working(t) \ stray[t] PROVE Same(t, f)
  BY DEF RecordTrue
<1>1. /\ \A c \in Callers : job[c].pc = "idle"
      /\ cmds = <<>> /\ events = <<>> /\ upd.pc = "idle"
  BY DEF Quiet
<1>2. Len(cmds) = 0 /\ Len(events) = 0
  BY <1>1
<1>3. ~Pend(t, f)
  BY <1>1, <1>2 DEF Pend, InHand, Due, Says
<1>4. f \in WorkingIn(t, ModeOf[t]) /\ f \in Fields(t)
  BY WorkingIs DEF ModeOf, WorkingIn
<1>5. CASE t = "sonos"
  <2>1. f \in {"play", "volume", "url_id"}
    BY <1>4, <1>5, FieldsAre
  <2>2. \A c \in Callers : ~Driving(c, f)
    BY <1>1 DEF Driving
  <2>3. UrlOK /\ \A g \in {"play", "volume"} : PlayerOK(g)
    BY <1>5 DEF PlayerInv
  <2>4. CASE f = "url_id"
    BY <1>5, <2>2, <2>3, <2>4 DEF UrlOK, Same
  <2>5. CASE f \in {"play", "volume"}
    <3>1. PlayerOK(f)
      BY <2>3, <2>5
    <3> QED BY <1>3, <1>5, <2>2, <3>1 DEF PlayerOK, Same
  <2> QED BY <2>1, <2>4, <2>5
<1>6. CASE t # "sonos"
  <2>1. RecOK(t, f)
    BY <1>4, <1>6 DEF RecordInv
  <2>2. ~Writing(t, f)
    BY <1>1 DEF Writing
  <2>3. PICK v : Will(t, f, v) /\ (v = ram[t][f] \/ (f = "level" /\ v = Limited(ram[t][f])))
    BY <2>1, <2>2 DEF RecOK, Held
  <2>4. At(t, f) = v
    BY <1>2, <1>3, <2>3 DEF Will, Wrong, Ends
  <2> QED BY <2>3, <2>4 DEF Same
<1> QED BY <1>5, <1>6

\* For every site and any number of callers: when nothing is under way, a device does
\* what is on record, except fields whose record may rightly be wrong.
THEOREM DevStateRecord == Spec => []RecordTrue
<1> DEFINE Inv == Shape /\ Late /\ HeardInv /\ RecordInv /\ PlayerInv
<1>1. Init => Inv
  BY InitShape, InitLate, InitHeard, InitRecord
<1>2. Inv /\ [Next]_vars => Inv'
  BY NextShape, NextLate, NextHeard, NextRecord, NextPlayer
<1>3. Inv => RecordTrue
  BY RecordMeans
<1> QED BY <1>1, <1>2, <1>3, PTL DEF Spec

=============================================================================
