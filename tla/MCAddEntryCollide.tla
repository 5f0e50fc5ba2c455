-------------------------- MODULE MCAddEntryCollide --------------------------
(***************************************************************************)
(* A P4Info in which the alias of one action is the name of another: the *)
(* action "ingress.set_port" (alias "set_port", one param) and the action *)
(* named "set_port" (two params).  The flows name the action "set_port"  *)
(* with one match key and two action data.                                *)
(***************************************************************************)
EXTENDS AddEntry

CollideTables ==
    << [id |-> 1, name |-> "ingress.fwd", alias |-> "fwd", fields |->
        << [id |-> 1, name |-> "hdr.dst", bitwidth |-> 32, type |-> "EXACT"] >>] >>

CollideActions ==
    << [id |-> 10, name |-> "ingress.set_port", alias |-> "set_port",
        params |-> << [id |-> 1, name |-> "port", bitwidth |-> 9] >>],
       [id |-> 11, name |-> "set_port", alias |-> "egress.set_port",
        params |-> << [id |-> 1, name |-> "port", bitwidth |-> 9],
                      [id |-> 2, name |-> "queue", bitwidth |-> 8] >>] >>

CollideFlows ==
    [table : {"ingress.fwd"}, form : {"ok"},
     keys : {<< [field |-> "hdr.dst",
                 value |-> StrVal("ipv4", 167772161, <<49,48,46,48,46,48,46,49>>)] >>},
     action : {"set_port", "ingress.set_port"},
     data : {<< [int |-> TRUE, num |-> 3], [int |-> TRUE, num |-> 1] >>}]
=============================================================================
