------------------------- MODULE MCDeviceCollection -------------------------
(* Device type sets and symmetry for the runs of DeviceCollection. *)
EXTENDS DeviceCollection, TLC

CONSTANTS d1, d2

\* One direction at a time, and UNKNOWN, which the server refuses.
SingleTypes == {{}, {"input"}, {"output"}}
InputType == {{"input"}}
\* Both directions in one registration.
CombinedType == {{"input", "output"}}

Symmetry == Permutations({d1, d2})

=============================================================================
