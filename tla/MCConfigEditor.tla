--------------------------- MODULE MCConfigEditor ---------------------------
(* Three of the eight settings, one of each kind: a number, a text, the mode. *)
EXTENDS ConfigEditor

CONSTANTS port, server_name, server_mode

ThreeFields == {port, server_name, server_mode}
TwoInts     == {port, server_mode}
Order       == [f \in ThreeFields |-> IF f = port THEN server_name
                                      ELSE IF f = server_name THEN server_mode ELSE port]
Defaults    == [f \in ThreeFields |-> IF f = server_name THEN Text ELSE 1]
\* Into a text field one types any text; into a number anything.
Keys        == [f \in ThreeFields |-> IF f = server_name THEN {Blank, Text}
                                      ELSE {Blank, Text} \cup Numbers]
\* No config.cfg, one that libconfig refuses, a whole one, one without a name.
FourFiles   == {NoFile, Bad, [Defaults EXCEPT ![port] = 3],
                [Defaults EXCEPT ![server_name] = Missing]}
=============================================================================
