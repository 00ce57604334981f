---------------------------- MODULE DevActuators ----------------------------
(***************************************************************************)
(* Shades, binary and level controls, warning devices and Sonos players:   *)
(* dev_if/shade.c, bin_ctrl.c, level_ctrl.c, warn_dev.c and sonos.c.       *)
(***************************************************************************)
EXTENDS DevKinds

-----------------------------------------------------------------------------
(* Shades.  An action is 0 (close), 2 (open) or 1 (anything else: rest). *)

ShadeFields == {"level", "action"}
ShadeDefault(mode) == [level |-> 1, action |-> 1, reachable |-> 1]

ShadeReadAttr == ReadAttrs
ShadeReadState == ReadStates(ShadeFields)
ShadeWriteAttr == WriteAttrs
ShadeWriteState == WriteStates(ShadeFields)

ShadeSetLevel == Setter("shade", "level")
ShadeSetAction == [Setter("shade", "action") EXCEPT !.sent = {0, 2}]
ShadeSet == [level |-> ShadeSetLevel, action |-> ShadeSetAction]
ShadeBound(mode) == {}
ShadeAdd(mode) == Adding({"level"}, {"scene"})

-----------------------------------------------------------------------------
(* Binary controls. *)

BinCtrlFields == {"on"}
BinCtrlDefault(mode) == [on |-> 0, reachable |-> 0]

BinCtrlReadAttr == ReadAttrs
BinCtrlReadState == ReadStates(BinCtrlFields)
BinCtrlWriteAttr == WriteAttrs
BinCtrlWriteState == WriteStates(BinCtrlFields)

BinCtrlSetOn == Setter("bin_ctrl", "on")
BinCtrlSet == [on |-> BinCtrlSetOn]
BinCtrlBound(mode) == {}
BinCtrlAdd(mode) == Adding({}, {})

-----------------------------------------------------------------------------
(* Level controls. *)

LevelCtrlFields == {"level"}
LevelCtrlDefault(mode) == [level |-> 0, reachable |-> 1]

LevelCtrlReadAttr == ReadAttrs
LevelCtrlReadState == ReadStates(LevelCtrlFields)
LevelCtrlWriteAttr == WriteAttrs
LevelCtrlWriteState == WriteStates(LevelCtrlFields)

LevelCtrlSetLevel == Setter("level_ctrl", "level")
LevelCtrlSet == [level |-> LevelCtrlSetLevel]
LevelCtrlBound(mode) == {}
LevelCtrlAdd(mode) == Adding({}, {})

-----------------------------------------------------------------------------
(* Warning devices: one command has both mode and duration; a setter of one *)
(* takes the other from the record.                                         *)

WarnFields == {"warn_mode", "duration"}
WarnDefault(mode) == [warn_mode |-> 0, duration |-> 0, reachable |-> 1]

WarnReadAttr == ReadAttrs
WarnReadState == ReadStates(WarnFields)
WarnWriteAttr == WriteAttrs
WarnWriteState == WriteStates(WarnFields)

WarnSetMode == [Setter("warn_dev", "warn_mode") EXCEPT !.carries = {"duration"}]
WarnSetDuration == [Setter("warn_dev", "duration") EXCEPT !.carries = {"warn_mode"}]
WarnSetCfg == [Setter("warn_dev", "warn_mode") EXCEPT !.fields = WarnFields]
WarnSet ==
    [warn_mode |-> WarnSetMode, duration |-> WarnSetDuration, warn_cfg |-> WarnSetCfg]
WarnBound(mode) == {}
WarnAdd(mode) == Adding({}, {})

-----------------------------------------------------------------------------
(* Sonos players: the record is written first, then the player is told, and *)
(* what the player answers is not looked at.                                *)

SonosFields == {"play", "volume", "url_id"}
SonosDefault(mode) == [play |-> 0, volume |-> 1, url_id |-> 0, reachable |-> 1]

SonosReadAttr == ReadAttrs
SonosReadState == ReadStates(SonosFields)
SonosWriteAttr == WriteAttrs
SonosWriteState == WriteStates(SonosFields)

SonosSetPlay ==
    [Setter("sonos", "play") EXCEPT !.limits = {"command", "record"}, !.queued = FALSE]
SonosSetVolume ==
    [Setter("sonos", "volume") EXCEPT !.limits = {"command", "record"}, !.queued = FALSE]

\* A track that is set is also played: url_id and play (1) are written.
SonosSetUrl ==
    [Setter("sonos", "url_id") EXCEPT !.fields = {"url_id", "play"}, !.queued = FALSE]
SonosSet == [play |-> SonosSetPlay, volume |-> SonosSetVolume, url_id |-> SonosSetUrl]
SonosBound(mode) == {}
SonosAdd(mode) ==
    [Adding({}, {}) EXCEPT !.announced = FALSE, !.leaves = FALSE]
=============================================================================
