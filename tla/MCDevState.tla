----------------------------- MODULE MCDevState ------------------------------
(* Every type; two that share an endpoint, two that share an id. *)
EXTENDS DevState

Plain == {"plug", "panel", "shade", "bin_ctrl", "level_ctrl", "warn_dev", "sonos",
          "bin_sensor", "occ_sensor", "hum_sensor"}

MCSites ==
    {[u \in {t} |-> "none"] : t \in Plain}
    \cup {[light |-> m] : m \in {"ct", "xy"}}
    \cup {[switch |-> "multi"], [switch |-> "level", panel |-> "none"],
          [temp_sensor |-> "none", hum_sensor |-> "none"]}

\* The switches, whose parts share a device, have by far the most states.
MCInputs ==
    [s \in {DOMAIN m : m \in MCSites} |-> IF "switch" \in s THEN 2 ELSE 3]

\* What a getter reads is where the setter has put it.
ASSUME ReadsBack ==
    \A t \in DevTypes : \A f \in DOMAIN ReadFrom[t] : ReadFrom[t][f] \in Range(WriteTo[t][f])
=============================================================================
