----------------------------- MODULE MCAddEntry -----------------------------
(***************************************************************************)
(* A P4Info of two tables and three actions, every field and param width  *)
(* a byte boundary does not hide, every match type, names with aliases;   *)
(* the flows combine each table name or alias with match keys that       *)
(* exercise each branch of encode and get_match_field_pb, each action    *)
(* name or alias, and action data that fit, overflow, are negative, too  *)
(* many or not integers; and flows whose text parse_flow refuses (no    *)
(* ",action=", no "(", an empty or "="-less match part, a "/").  Both    *)
(* tables have a field "hdr.dst", with different ids.                   *)
(***************************************************************************)
EXTENDS AddEntry

\* The instance is a P4Info as the compiler generates it.
ASSUME MCP4InfoDistinct == P4InfoDistinct

MCTables ==
    << [id |-> 1, name |-> "ingress.fwd", alias |-> "fwd",
        fields |-> << [id |-> 1, name |-> "hdr.dst",   bitwidth |-> 32, type |-> "EXACT"],
                      [id |-> 2, name |-> "hdr.eth",   bitwidth |-> 48, type |-> "EXACT"],
                      [id |-> 3, name |-> "hdr.proto", bitwidth |-> 8,  type |-> "TERNARY"] >>],
       [id |-> 2, name |-> "ingress.acl", alias |-> "acl",
        fields |-> << [id |-> 1, name |-> "hdr.src", bitwidth |-> 32, type |-> "LPM"],
                      [id |-> 2, name |-> "hdr.vid", bitwidth |-> 12, type |-> "OPTIONAL"],
                      [id |-> 3, name |-> "hdr.dst", bitwidth |-> 32, type |-> "EXACT"] >>] >>

MCActions ==
    << [id |-> 10, name |-> "ingress.set_port", alias |-> "set_port",
        params |-> << [id |-> 1, name |-> "port", bitwidth |-> 9] >>],
       [id |-> 11, name |-> "ingress.push_mpls", alias |-> "push_mpls",
        params |-> << [id |-> 1, name |-> "label", bitwidth |-> 20],
                      [id |-> 2, name |-> "ttl",   bitwidth |-> 8] >>],
       [id |-> 12, name |-> "ingress.drop", alias |-> "drop", params |-> << >>] >>

\* Match values as parse_flow leaves them, with their character codes.
IP      == StrVal("ipv4", 167772161, <<49,48,46,48,46,48,46,49>>)            \* 10.0.0.1
MAC     == StrVal("mac", 10, <<48,48,58,48,48,58,48,48,58,48,48,58,48,48,58,48,97>>) \* 00:00:00:00:00:0a
BadQuad == StrVal("badquad", 0, <<51,48,48,46,48,46,48,46,49>>)             \* 300.0.0.1
Dec     == StrVal("plain", 0, <<54>>)                                       \* 6
Prefix  == StrVal(Slashed, 0, <<49,48,46,48,46,48,46,48,47,56>>)            \* 10.0.0.0/8
Bare    == StrVal(NoEq, 0, << >>)                                           \* hdr.dst

K(f, v) == [field |-> f, value |-> v]
KeyLists ==
    { <<K("hdr.dst", IP)>>, <<K("hdr.dst", MAC)>>, <<K("hdr.eth", MAC)>>,
      <<K("hdr.dst", Dec)>>, <<K("hdr.proto", Dec)>>, <<K("hdr.dst", BadQuad)>>,
      <<K("hdr.src", Prefix)>>, <<K("hdr.src", IP)>>, <<K("hdr.vid", Dec)>>,
      <<K("hdr.dst", IP), K("hdr.eth", MAC)>> }

D(n) == [int |-> TRUE, num |-> n]
NaN  == [int |-> FALSE, num |-> 0]
DataLists == { <<D(5)>>, <<D(5), D(7)>>, <<NaN>>, <<D(-1)>>, <<D(1048576), D(7)>> }

WellFormed ==
    [table : {"ingress.fwd", "fwd", "ingress.acl", "nosuch"},
     form  : {"ok"},
     keys  : KeyLists,
     action : {"ingress.set_port", "ingress.push_mpls", "ingress.drop", "set_port"},
     data  : DataLists]

\* Texts parse_flow refuses, in each of its orders of failure.
Malformed ==
    [table : {"fwd"}, form : {"no_action", "no_paren"}, keys : {<<K("hdr.dst", IP)>>},
     action : {"set_port"}, data : {<<D(5)>>}]
    \cup
    [table : {"fwd"}, form : {"ok", "no_paren"},
     keys : {<< >>, <<K("hdr.dst", Bare)>>,
             <<K("hdr.dst", Bare), K("hdr.src", Prefix)>>,
             <<K("hdr.src", Prefix), K("hdr.dst", Bare)>>},
     action : {"set_port"}, data : {<<NaN>>}]

MCFlows == WellFormed \cup Malformed
=============================================================================
