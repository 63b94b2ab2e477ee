------------------------------- MODULE MCMSRP -------------------------------
(***************************************************************************)
(* Instances of MSRP: a bridge with three ports and one stream, a bridge   *)
(* with two streams that compete for the bandwidth of a port, an endpoint, *)
(* and a bridge that only propagates VLANs.                                *)
(***************************************************************************)
EXTENDS MSRP

CONSTANTS s1, s2, v1, v2

MCVid == [s \in Streams |-> v1]

MCSlope == [s \in Streams |-> IF s = s1 THEN 2 ELSE 3]

Base == [bridge |-> TRUE, sendLeave |-> FALSE, ports |-> {1, 2, 3},
         talkers |-> {}, listeners |-> {}, users |-> {}, domains |-> {},
         vlanPeers |-> {}, vlanUsers |-> {}, up |-> {1, 2, 3}, changes |-> 1,
         tTypes |-> {"ADV", "FAIL"}, lTypes |-> {"READY", "ASK", "RF"},
         reg |-> [p \in Ports |-> {"match"}]]

\* A neighbour is the talker on port 1 or 2, listeners are on 2 and 3.
Bridge == [Base EXCEPT !.sendLeave = TRUE, !.talkers = {<<s1, 1>>, <<s1, 2>>},
                       !.listeners = {<<s1, 2>>, <<s1, 3>>},
                       !.lTypes = {"READY", "ASK"},
                       !.domains = {"mismatch"}]

\* Two streams from port 1 to port 2; both together exceed the limit.
Contention == [Base EXCEPT !.ports = {1, 2}, !.up = {1, 2},
                           !.talkers = {<<s1, 1>>, <<s2, 1>>},
                           !.listeners = {<<s1, 2>>, <<s2, 2>>},
                           !.tTypes = {"ADV"}, !.lTypes = {"READY", "ASK"},
                           !.changes = 2]

\* An endpoint: the application talks or listens, the neighbour answers.
Endpoint == [Base EXCEPT !.bridge = FALSE, !.ports = {1}, !.up = {1},
                         !.users = {<<s1, 1>>, <<s2, 1>>},
                         !.talkers = {<<s1, 1>>}, !.listeners = {<<s2, 1>>},
                         !.domains = {"match"}, !.changes = 2]

VlanBridge == [Base EXCEPT !.vlanPeers = {v1, v2} \X {1, 2, 3},
                           !.vlanUsers = {v1} \X {1}]

MCConfigs == {Bridge, Contention, Endpoint, VlanBridge}
=============================================================================
