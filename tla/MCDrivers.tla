----------------------------- MODULE MCDrivers -----------------------------
(* The instance of Drivers for TLC. *)
EXTENDS Drivers

\* Keys 2 and 3 have the same encoding.  Key 0 has four bytes, which are the
\* first ones of key 1.
MCEncodeKey == [k \in Key |-> IF k = 3 THEN 2 ELSE k]
MCSamePrefix == [k \in Key |-> CASE k = 0 -> Key [] k = 1 -> {0, 1} [] OTHER -> {k}]
=============================================================================
