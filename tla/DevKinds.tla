------------------------------ MODULE DevKinds ------------------------------
(***************************************************************************)
(* The forms shared by the files of the device types (dev_if/light.c and   *)
(* the others).  Each file has the same functions with other contents; a   *)
(* type is described by                                                    *)
(*                                                                         *)
(*   Default    what <type>_default_state sets                             *)
(*   Read       where read_<type>_<field> takes a field from               *)
(*   Write      where write_<type>_<field> puts it, in order               *)
(*   Set        per field, what set_<type>_state_<field> does              *)
(*   Update     per field, what update_<type>_state_<field> does           *)
(*   Bound      the clusters rebind_<type> binds                           *)
(*   Add        what add_<type> asks of the device, and starts with        *)
(*                                                                         *)
(* Functions that only return DEV_IF_ERR_UNSUPPORT are fields missing from *)
(* the domains.                                                            *)
(*                                                                         *)
(* Values are 0, 1 and 2.  2 exceeds the limit of a field that has one,    *)
(* and stands for 255 where 0, 100 and 255 are told apart.                 *)
(***************************************************************************)
EXTENDS Naturals, Sequences, TLC

\* What f has, and what g has besides.
Over(f, g) ==
    [x \in DOMAIN f \cup DOMAIN g |-> IF x \in DOMAIN f THEN f[x] ELSE g[x]]

Values == 0..2
Limited(v) == IF v > 1 THEN 1 ELSE v

-----------------------------------------------------------------------------
(* Where fields are kept. *)

ApiAttrs == {"type", "name", "descr", "modelid", "swver", "changerpt", "autorpt"}
Links == {"nwkaddr", "ep"}                     \* zb_attr
Misc == {"new_dev", "not_added", "at_err_tick"}

From(place, fields) == [f \in fields |-> place]

\* read_<type>_attr*, _ext_attr*: the file; _zb_attr*: the record.
ReadAttrs == Over(From("file", ApiAttrs \cup {"ext_attr"}), From("ram", Links))

\* read_<type>_state*, _misc*: the record.
ReadStates(fields) == From("ram", fields \cup {"reachable"} \cup Misc)

\* write_<type>_zb_attr*: first the file, then the record.
WriteAttrs ==
    Over(From(<<"file">>, ApiAttrs \cup {"ext_attr"}), From(<<"file", "ram">>, Links))

WriteStates(fields) == From(<<"ram">>, fields \cup {"reachable"} \cup Misc)

-----------------------------------------------------------------------------
(* Setters of a state field. *)

AnyMode == {"ct", "xy", "on_off", "level", "multi", "none"}

\* If the device is reachable: queue one command for field f, whose result is
\* charged to a device of type t, and then write the field to the record.  (Two
\* setters also send a report, of the attributes: nothing of the state.)
Setter(t, f) ==
    [fields |-> {f},     \* what is written
     carries |-> {},     \* what the command carries besides, from the record
     modes |-> AnyMode,  \* colour or control modes in which it is allowed
     charge |-> t,       \* the type the result is charged to
     sent |-> Values,    \* values for which a command is sent
     limits |-> {},      \* what is limited: "command", "record"
     queued |-> TRUE]    \* by the command queue, or else at once

-----------------------------------------------------------------------------
(* Updates by the device. *)

\* The device is reachable; if that or the value is news, it is written, and
\* reported if the device has changerpt.
Update == [revives |-> TRUE]

-----------------------------------------------------------------------------
(* Joining. *)

\* Ask for the version, bind the clusters, join groups, write file and record.
\* Only a bind that is not answered stops it.
Adding(binds, groups) ==
    [binds |-> binds, groups |-> groups, changerpt |-> 1,
     reachable |-> 1, announced |-> TRUE, leaves |-> TRUE]
=============================================================================
