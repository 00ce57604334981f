-------------------------------- MODULE DevIf --------------------------------
(***************************************************************************)
(* dev_if/dev_if.c: every function of the device interface is a switch     *)
(* over the type of the device, which may lead to "unsupported".           *)
(***************************************************************************)
EXTENDS DevLamps, DevActuators, DevSensors

DevTypes ==
    {"light", "occ_sensor", "bin_sensor", "temp_sensor", "hum_sensor", "bin_ctrl",
     "level_ctrl", "warn_dev", "plug", "switch", "shade", "sonos", "panel"}

-----------------------------------------------------------------------------
(* Reading and writing. *)

ReadAttr ==
    [light |-> LightReadAttr, occ_sensor |-> OccSensorReadAttr,
     bin_sensor |-> BinSensorReadAttr, temp_sensor |-> TempSensorReadAttr,
     hum_sensor |-> HumSensorReadAttr, bin_ctrl |-> BinCtrlReadAttr,
     level_ctrl |-> LevelCtrlReadAttr, warn_dev |-> WarnReadAttr,
     plug |-> PlugReadAttr, switch |-> SwitchReadAttr, shade |-> ShadeReadAttr,
     sonos |-> SonosReadAttr, panel |-> PanelReadAttr]

ReadState ==
    [light |-> LightReadState, occ_sensor |-> OccSensorReadState,
     bin_sensor |-> BinSensorReadState, temp_sensor |-> TempSensorReadState,
     hum_sensor |-> HumSensorReadState, bin_ctrl |-> BinCtrlReadState,
     level_ctrl |-> LevelCtrlReadState, warn_dev |-> WarnReadState,
     plug |-> PlugReadState, switch |-> SwitchReadState, shade |-> ShadeReadState,
     sonos |-> SonosReadState, panel |-> PanelReadState]

WriteAttr ==
    [light |-> LightWriteAttr, occ_sensor |-> OccSensorWriteAttr,
     bin_sensor |-> BinSensorWriteAttr, temp_sensor |-> TempSensorWriteAttr,
     hum_sensor |-> HumSensorWriteAttr, bin_ctrl |-> BinCtrlWriteAttr,
     level_ctrl |-> LevelCtrlWriteAttr, warn_dev |-> WarnWriteAttr,
     plug |-> PlugWriteAttr, switch |-> SwitchWriteAttr, shade |-> ShadeWriteAttr,
     sonos |-> SonosWriteAttr, panel |-> PanelWriteAttr]

WriteState ==
    [light |-> LightWriteState, occ_sensor |-> OccSensorWriteState,
     bin_sensor |-> BinSensorWriteState, temp_sensor |-> TempSensorWriteState,
     hum_sensor |-> HumSensorWriteState, bin_ctrl |-> BinCtrlWriteState,
     level_ctrl |-> LevelCtrlWriteState, warn_dev |-> WarnWriteState,
     plug |-> PlugWriteState, switch |-> SwitchWriteState, shade |-> ShadeWriteState,
     sonos |-> SonosWriteState, panel |-> PanelWriteState]

Default(t, mode) ==
    CASE t = "light" -> LightDefault(mode)
      [] t = "occ_sensor" -> OccSensorDefault(mode)
      [] t = "bin_sensor" -> BinSensorDefault(mode)
      [] t = "temp_sensor" -> TempSensorDefault(mode)
      [] t = "hum_sensor" -> HumSensorDefault(mode)
      [] t = "bin_ctrl" -> BinCtrlDefault(mode)
      [] t = "level_ctrl" -> LevelCtrlDefault(mode)
      [] t = "warn_dev" -> WarnDefault(mode)
      [] t = "plug" -> PlugDefault(mode)
      [] t = "switch" -> SwitchDefault(mode)
      [] t = "shade" -> ShadeDefault(mode)
      [] t = "sonos" -> SonosDefault(mode)
      [] t = "panel" -> PanelDefault(mode)

-----------------------------------------------------------------------------
(* set_dev_state_<field>: the types it is passed on for. *)

SettableOn == {"light", "bin_ctrl", "plug", "switch", "panel"}
SettableBri == {"light"}
SettableColour == [ct |-> {"light"}, xy |-> {"light"}]

\* Not shades, though set_shade_state_level is there.
SettableLevel == {"level_ctrl", "plug", "switch", "panel"}
SettableWarn == [f \in {"warn_mode", "duration", "warn_cfg"} |-> {"warn_dev"}]
SettableAction == {"shade"}
SettableSonos == [f \in {"play", "volume", "url_id"} |-> {"sonos"}]

Settable ==
    Over([on |-> SettableOn, bri |-> SettableBri, level |-> SettableLevel,
          action |-> SettableAction],
         Over(SettableColour, Over(SettableWarn, SettableSonos)))

\* The setters of each type.
SetState ==
    [light |-> LightSet, bin_ctrl |-> BinCtrlSet, level_ctrl |-> LevelCtrlSet,
     warn_dev |-> WarnSet, plug |-> PlugSet, switch |-> SwitchSet,
     shade |-> ShadeSet, sonos |-> SonosSet, panel |-> PanelSet]

\* Requests that reach a setter.
Requests ==
    {r \in (DOMAIN SetState) \X (DOMAIN Settable) :
        r[1] \in Settable[r[2]] /\ r[2] \in DOMAIN SetState[r[1]]}

-----------------------------------------------------------------------------
(* zigbee_report_deal calls the update functions of the types themselves.    *)

UpdateState ==
    [light |-> LightUpdate, switch |-> SwitchUpdate, plug |-> PlugUpdate,
     panel |-> PanelUpdate, bin_sensor |-> BinSensorUpdate,
     occ_sensor |-> OccSensorUpdate, temp_sensor |-> TempSensorUpdate,
     hum_sensor |-> HumSensorUpdate]

\* Per cluster, the types that are looked for at the address, in this order.
\* No update of a panel is ever called.
SearchOrder ==
    [power |-> <<"occ_sensor", "bin_sensor", "temp_sensor", "hum_sensor">>,
     onoff |-> <<"light", "plug", "switch">>,
     level |-> <<"switch">>,
     occ |-> <<"occ_sensor">>,
     bin |-> <<"bin_sensor">>,
     temp |-> <<"temp_sensor">>,
     hum |-> <<"hum_sensor">>]

-----------------------------------------------------------------------------
(* rebind_dev and add_dev. *)

Bound(t, mode) ==
    CASE t = "light" -> LightBound(mode)
      [] t = "occ_sensor" -> OccSensorBound(mode)
      [] t = "bin_sensor" -> BinSensorBound(mode)
      [] t = "temp_sensor" -> TempSensorBound(mode)
      [] t = "hum_sensor" -> HumSensorBound(mode)
      [] t = "bin_ctrl" -> BinCtrlBound(mode)
      [] t = "level_ctrl" -> LevelCtrlBound(mode)
      [] t = "warn_dev" -> WarnBound(mode)
      [] t = "plug" -> PlugBound(mode)
      [] t = "switch" -> SwitchBound(mode)
      [] t = "shade" -> ShadeBound(mode)
      [] t = "sonos" -> SonosBound(mode)
      [] t = "panel" -> PanelBound(mode)

Add(t, mode) ==
    CASE t = "light" -> LightAdd(mode)
      [] t = "occ_sensor" -> OccSensorAdd(mode)
      [] t = "bin_sensor" -> BinSensorAdd(mode)
      [] t = "temp_sensor" -> TempSensorAdd(mode)
      [] t = "hum_sensor" -> HumSensorAdd(mode)
      [] t = "bin_ctrl" -> BinCtrlAdd(mode)
      [] t = "level_ctrl" -> LevelCtrlAdd(mode)
      [] t = "warn_dev" -> WarnAdd(mode)
      [] t = "plug" -> PlugAdd(mode)
      [] t = "switch" -> SwitchAdd(mode)
      [] t = "shade" -> ShadeAdd(mode)
      [] t = "sonos" -> SonosAdd(mode)
      [] t = "panel" -> PanelAdd(mode)
=============================================================================
