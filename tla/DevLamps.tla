------------------------------ MODULE DevLamps ------------------------------
(***************************************************************************)
(* Lights, switches, plugs and panels: dev_if/light.c, switch.c, plug.c    *)
(* and panel.c.                                                            *)
(***************************************************************************)
EXTENDS DevKinds

-----------------------------------------------------------------------------
(* Lights. *)

LightFields ==
    {"on", "bri", "sat", "hue", "ct", "xy", "colormode", "alert", "effect"}

\* init_light_ram_data takes the mode from the file.
LightDefault(mode) ==
    [f \in LightFields \cup {"reachable"} |-> IF f = "colormode" THEN mode ELSE 1]

LightReadAttr == Over(ReadAttrs, [ext_colormode |-> "file"])
LightReadState == ReadStates(LightFields)
LightWriteAttr == Over(WriteAttrs, [ext_colormode |-> <<"file">>])
LightWriteState == Over([colormode |-> <<"ram", "file">>], WriteStates(LightFields))

LightSetOn == Setter("light", "on")
LightSetBri == Setter("light", "bri")
LightSetCt ==
    [Setter("light", "ct") EXCEPT !.modes = {"ct"}, !.limits = {"command", "record"}]
LightSetXy == [Setter("light", "xy") EXCEPT !.modes = {"xy"}]
LightSet ==
    [on |-> LightSetOn, bri |-> LightSetBri, ct |-> LightSetCt, xy |-> LightSetXy]

LightUpdate == [on |-> Update]
LightBound(mode) == {}
LightAdd(mode) == [Adding({}, {"all", "scene"}) EXCEPT !.changerpt = 0]

-----------------------------------------------------------------------------
(* Switches.  "colormode" is the control mode: on_off, level or multi. *)

SwitchFields == {"on", "level", "colormode"}
SwitchDefault(mode) == [on |-> 0, level |-> 1, colormode |-> mode, reachable |-> 1]

SwitchReadAttr == Over(ReadAttrs, [ext_colormode |-> "file"])
SwitchReadState == ReadStates(SwitchFields)
SwitchWriteAttr == Over(WriteAttrs, [ext_colormode |-> <<"file">>])
SwitchWriteState == Over([colormode |-> <<"ram", "file">>], WriteStates(SwitchFields))

SwitchSetOn == [Setter("switch", "on") EXCEPT !.modes = {"on_off", "multi"}]

\* The command is limited, the record is not.
SwitchSetLevel ==
    [Setter("switch", "level") EXCEPT
        !.modes = {"level", "multi"}, !.limits = {"command"}]
SwitchSet == [on |-> SwitchSetOn, level |-> SwitchSetLevel]

SwitchUpdateOn == Update
SwitchUpdateLevel == Update
SwitchUpdate == [on |-> SwitchUpdateOn, level |-> SwitchUpdateLevel]

\* Slip: a switch with both uses is only bound for one.
SwitchBoundOnce(mode) == IF mode = "level" THEN {"level"} ELSE {"onoff"}

SwitchBound(mode) ==
    {c \in {"onoff", "level"} :
        \/ mode = "multi"
        \/ c = "onoff" /\ mode = "on_off"
        \/ c = "level" /\ mode = "level"}
SwitchAdd(mode) == Adding(SwitchBound(mode), {"scene"})

-----------------------------------------------------------------------------
(* Plugs. *)

PlugFields == {"on", "consumption"}
PlugDefault(mode) == [on |-> 0, consumption |-> 0, reachable |-> 1]

PlugReadAttr == ReadAttrs
PlugReadState == ReadStates(PlugFields)
PlugWriteAttr == WriteAttrs
PlugWriteState == WriteStates(PlugFields)

PlugSetOn == Setter("plug", "on")
PlugSet == [on |-> PlugSetOn]
PlugUpdate == [on |-> Update]
PlugBound(mode) == {"onoff"}
PlugAdd(mode) == Adding({"onoff"}, {"scene"})

-----------------------------------------------------------------------------
(* Panels. *)

PanelFields == {"on", "level"}
PanelDefault(mode) == [on |-> 0, level |-> 0, reachable |-> 1]

PanelReadAttr == ReadAttrs
PanelReadState == ReadStates(PanelFields)
PanelWriteAttr == WriteAttrs
PanelWriteState == WriteStates(PanelFields)

PanelSetOn == Setter("panel", "on")

\* The command is charged to the switch with the panel's id.
PanelSetLevel ==
    [Setter("panel", "level") EXCEPT
        !.limits = {"command"}, !.charge = "switch"]
PanelSet == [on |-> PanelSetOn, level |-> PanelSetLevel]

PanelUpdateOn == Update
PanelUpdateLevel == Update
PanelUpdate == [on |-> PanelUpdateOn, level |-> PanelUpdateLevel]
PanelBound(mode) == {"onoff", "level"}
PanelAdd(mode) == Adding({"onoff", "level"}, {"scene"})
=============================================================================
