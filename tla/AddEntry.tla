------------------------------ MODULE AddEntry ------------------------------
(***************************************************************************)
(* The add-entry subcommand of ovs-p4ctl once its session is open         *)
(* (p4ctl_add_entry, lines 586-619): parse_flow, get_p4info, the          *)
(* action_params comprehension, P4InfoHelper.buildTableEntry with its     *)
(* name lookups and encodings (lines 217-385), and write_update, which    *)
(* is the WriteTransaction component instantiated for one update.         *)
(*                                                                         *)
(* The P4Info is the pair of sequences Tables and Actions, in the order   *)
(* the helper scans them.  The flow text is given already split into its *)
(* parts: the match keys in the order they appear, each value a str as   *)
(* parse_flow leaves it, and the action data tokens.  Each loop of       *)
(* buildTableEntry runs one iteration per step.                           *)
(***************************************************************************)
EXTENDS Integers, Sequences, SequencesExt, ValueCodec


CONSTANTS
    Tables,   \* p4info.tables: [id, name, alias, fields: <<[id, name, bitwidth, type]>>]
    Actions,  \* p4info.actions: [id, name, alias, params: <<[id, name, bitwidth]>>]
    Flows     \* [table, form, keys: <<[field, value]>>, action, data: <<[int, num]>>]

\* A str containing "/" (parse_flow refuses it as an LPM key).
Slashed == "slashed"

\* A match part without "=", which split("=") leaves without m[1].
NoEq == "noeq"

\* What p4ctl_add_entry raises before the write: a lookup that finds
\* nothing (AttributeError), get_action_params returning None (TypeError),
\* too few action data (IndexError), a str stored in a bytes field
\* (TypeError), a match type it does not handle, the failures of encode,
\* the parse errors (IndexError, NotImplementedError, ValueError) and the
\* failed get_p4info.
Failures == {"not_found", "no_params", "index", "str_value", "unsupported",
             "range", "hex", "inet", "assert", "parse_index", "parse_slash",
             "parse_int", "rpc"}

VARIABLES
    flow,     \* the command's arguments (tbl_name and the parsed flow)
    pc,       \* "parse", "fetch", "params", "table", "match", "param",
              \* "write" (write_update running) or "done" (raised)
    params,   \* the action_params dict: <<[name, value]>> in param order
    entry,    \* the TableEntry being built
    k,        \* iterations done of the current buildTableEntry loop
    result,   \* what was raised before the write, or "none"
    wpc, wreply, widx, werrors, wresult   \* write_update (WriteTransaction)

wvars == <<wpc, wreply, widx, werrors, wresult>>
vars == <<flow, pc, params, entry, k, result, wvars>>

W == INSTANCE WriteTransaction
        WITH MaxBatch <- 1, pc <- wpc, reply <- wreply, idx <- widx,
             errors <- werrors, result <- wresult

\* The shape of a P4Info as the helper reads it, and of the flow text cut
\* into its parts: form says whether ",action=" and "(" occur ("ok") or
\* which is missing; keys are the comma-separated match parts in order
\* (<< >> is the empty match part, which split(",") turns into [""]);
\* data are the tokens between the parentheses.
FieldRecs  == [id : Nat, name : STRING, bitwidth : Nat, type : STRING]
ParamRecs  == [id : Nat, name : STRING, bitwidth : Nat]
TableRecs  == [id : Nat, name : STRING, alias : STRING, fields : Seq(FieldRecs)]
ActionRecs == [id : Nat, name : STRING, alias : STRING, params : Seq(ParamRecs)]
KeyRecs    == [field : STRING,
               value : [type : {"str"}, kind : StrKinds \cup {Slashed, NoEq},
                        num : Nat, chars : Seq(Nat)]]
FlowRecs   == [table : STRING, form : {"ok", "no_action", "no_paren"},
               keys : Seq(KeyRecs), action : STRING,
               data : Seq([int : BOOLEAN, num : Int]) \ {<< >>}]

\* No match key is repeated: match_keys is a dict, and a repeated key
\* would be folded into the first one's place (not modelled).
KeyFieldsDistinct(keys) ==
    \A i, j \in 1..Len(keys) : keys[i].field = keys[j].field => i = j

ASSUME P4InfoAssumption ==
    /\ Tables \in Seq(TableRecs)
    /\ Actions \in Seq(ActionRecs)
    /\ Flows \subseteq FlowRecs
    /\ \A f \in Flows : KeyFieldsDistinct(f.keys)

\* No name or alias of one entity is the name or alias of another.
DistinctNames(coll) ==
    \A i, j \in 1..Len(coll) :
        {coll[i].name, coll[i].alias} \cap {coll[j].name, coll[j].alias} # {} => i = j

\* The match fields of a table, or the params of an action, have distinct names.
DistinctKeys(s) == \A i, j \in 1..Len(s) : s[i].name = s[j].name => i = j

\* A P4Info as the P4 compiler generates it: names and aliases unique per
\* entity type, field and param names unique within their table or action.
P4InfoDistinct ==
    /\ DistinctNames(Tables)
    /\ DistinctNames(Actions)
    /\ \A t \in 1..Len(Tables) : DistinctKeys(Tables[t].fields)
    /\ \A a \in 1..Len(Actions) : DistinctKeys(Actions[a].params)

NoEntry == [table |-> 0, match |-> << >>, action |-> 0, params |-> << >>]
NoField == [id |-> 0, name |-> "", bitwidth |-> 0, type |-> "none"]
NoParam == [id |-> 0, name |-> "", bitwidth |-> 0]

---------------------------------------------------------------------------
(* Lookups of P4InfoHelper; each answers 0 or NoField when the scan ends  *)
(* without a match.                                                       *)

\* get(entity_type, name=n): the first entity whose name or alias is n.
GetByName(coll, n) == SelectInSeq(coll, LAMBDA o : o.name = n \/ o.alias = n)

\* get_action_params: the first action whose preamble.name is n.
GetActionParams(n) == SelectInSeq(Actions, LAMBDA a : a.name = n)

\* Mutant: the test pre.name == table_name dropped; the first field of
\* that name in any table.
GetMatchFieldAnyTable(tname, fname) ==
    LET hits == {t \in 1..Len(Tables) :
                    \E j \in 1..Len(Tables[t].fields) : Tables[t].fields[j].name = fname}
        t    == Min(hits)
    IN  IF hits = {} THEN NoField
        ELSE Tables[t].fields[SelectInSeq(Tables[t].fields, LAMBDA mf : mf.name = fname)]

\* get_match_field(table_name, name): the scan goes on through every table
\* whose preamble.name is table_name (the alias is not compared) and
\* returns the first field named name of the first such table that has one.
GetMatchField(tname, fname) ==
    LET hits == {t \in 1..Len(Tables) :
                    /\ Tables[t].name = tname
                    /\ \E j \in 1..Len(Tables[t].fields) : Tables[t].fields[j].name = fname}
        t    == Min(hits)
    IN  IF hits = {} THEN NoField
        ELSE Tables[t].fields[SelectInSeq(Tables[t].fields, LAMBDA mf : mf.name = fname)]

\* get_action_param(action_name, name): the same scan over actions.
GetActionParam(aname, pname) ==
    LET hits == {a \in 1..Len(Actions) :
                    /\ Actions[a].name = aname
                    /\ \E j \in 1..Len(Actions[a].params) : Actions[a].params[j].name = pname}
        a    == Min(hits)
    IN  IF hits = {} THEN NoParam
        ELSE Actions[a].params[SelectInSeq(Actions[a].params, LAMBDA p : p.name = pname)]

\* value[0] of a str: the str of its first character.
FirstChar(v) == StrVal("plain", 0, SubSeq(v.chars, 1, 1))

\* A result of encode stored in a bytes field of the protobuf message: a
\* str is refused with TypeError.
Store(r) == IF r.err = "none" /\ r.str THEN Fail("str_value") ELSE r

\* get_match_field_pb after its lookup: dispatch on the match type.  LPM,
\* TERNARY and RANGE index the str parse_flow gave, so their first stored
\* value is encode(value[0]).
MatchFieldPb(f, value) ==
    CASE f.type = "EXACT"                        -> Store(Encode(value, f.bitwidth))
      [] f.type \in {"LPM", "TERNARY", "RANGE"}  -> Store(Encode(FirstChar(value), f.bitwidth))
      [] OTHER                                   -> Fail("unsupported")

---------------------------------------------------------------------------

Init ==
    /\ flow \in Flows
    /\ pc = "parse"
    /\ params = << >>
    /\ entry = NoEntry
    /\ k = 0
    /\ result = "none"
    /\ W!Init

\* Leave with an exception.
Raise(e) == /\ result' = e
            /\ pc' = "done"

\* parse_flow, in its order: tmp[1] without ",action=" raises IndexError;
\* the first match part without "=" (the empty match part included)
\* raises IndexError, the first with "/" NotImplementedError; then
\* act_fields[1] without "(" raises IndexError and int() of a token that
\* is not an integer literal ValueError.
ParseFlow ==
    /\ pc = "parse"
    /\ LET bad == {i \in 1..Len(flow.keys) : flow.keys[i].value.kind \in {NoEq, Slashed}}
       IN  IF flow.form = "no_action" \/ flow.keys = << >>
              THEN Raise("parse_index")
           ELSE IF bad # {}
              THEN Raise(IF flow.keys[Min(bad)].value.kind = NoEq
                            THEN "parse_index" ELSE "parse_slash")
           ELSE IF flow.form = "no_paren"
              THEN Raise("parse_index")
           ELSE IF \E i \in 1..Len(flow.data) : ~flow.data[i].int
              THEN Raise("parse_int")
           ELSE /\ pc' = "fetch"
                /\ UNCHANGED result
    /\ UNCHANGED <<flow, params, entry, k, wvars>>

\* client.get_p4info(): the unary call returns the P4Info or raises
\* P4RuntimeException.
GetP4Info ==
    /\ pc = "fetch"
    /\ \/ /\ pc' = "params"
          /\ UNCHANGED result
       \/ Raise("rpc")
    /\ UNCHANGED <<flow, params, entry, k, wvars>>

\* Mutant: int() dropped at line 583; the dict holds the str tokens.
CollectParamsRawData ==
    /\ pc = "params"
    /\ LET a == GetActionParams(flow.action)
       IN  IF a = 0
              THEN /\ Raise("no_params")
                   /\ UNCHANGED params
           ELSE IF Len(flow.data) < Len(Actions[a].params)
              THEN /\ Raise("index")
                   /\ UNCHANGED params
           ELSE    /\ params' = [i \in 1..Len(Actions[a].params) |->
                                      [name  |-> Actions[a].params[i].name,
                                       value |-> StrVal("plain", flow.data[i].num, << >>)]]
                   /\ pc' = "table"
                   /\ UNCHANGED result
    /\ UNCHANGED <<flow, entry, k, wvars>>

\* The action_params argument, evaluated before buildTableEntry runs:
\* {a.name: action_data[idx] for idx, a in enumerate(get_action_params(action))}.
CollectParams ==
    /\ pc = "params"
    /\ LET a == GetActionParams(flow.action)
       IN  IF a = 0
              THEN /\ Raise("no_params")
                   /\ UNCHANGED params
           ELSE IF Len(flow.data) < Len(Actions[a].params)
              THEN /\ Raise("index")
                   /\ UNCHANGED params
           ELSE    /\ params' = [i \in 1..Len(Actions[a].params) |->
                                      [name  |-> Actions[a].params[i].name,
                                       value |-> IntVal(flow.data[i].num)]]
                   /\ pc' = "table"
                   /\ UNCHANGED result
    /\ UNCHANGED <<flow, entry, k, wvars>>

\* buildTableEntry: table_entry.table_id = self.get_tables_id(table_name).
BuildTable ==
    /\ pc = "table"
    /\ LET t == GetByName(Tables, flow.table)
       IN  IF t = 0
              THEN /\ Raise("not_found")
                   /\ UNCHANGED entry
              ELSE /\ entry' = [NoEntry EXCEPT !.table = Tables[t].id]
                   /\ pc' = "match"
                   /\ UNCHANGED result
    /\ k' = 0
    /\ UNCHANGED <<flow, params, wvars>>

\* One item of match_fields.items(): get_match_field_pb(table_name, ...).
BuildMatch ==
    /\ pc = "match"
    /\ k < Len(flow.keys)
    /\ LET key == flow.keys[k + 1]
           f   == GetMatchField(flow.table, key.field)
           pb  == MatchFieldPb(f, key.value)
       IN  IF f = NoField
              THEN /\ Raise("not_found")
                   /\ UNCHANGED <<entry, k>>
           ELSE IF pb.err # "none"
              THEN /\ Raise(pb.err)
                   /\ UNCHANGED <<entry, k>>
           ELSE /\ entry' = [entry EXCEPT !.match =
                                Append(@, [id |-> f.id, value |-> pb.bytes])]
                /\ k' = k + 1
                /\ UNCHANGED <<pc, result>>
    /\ UNCHANGED <<flow, params, wvars>>

\* if action_name: action.action_id = self.get_actions_id(action_name).
BuildAction ==
    /\ pc = "match"
    /\ k = Len(flow.keys)
    /\ LET a == GetByName(Actions, flow.action)
       IN  IF a = 0
              THEN /\ Raise("not_found")
                   /\ UNCHANGED entry
              ELSE /\ entry' = [entry EXCEPT !.action = Actions[a].id]
                   /\ pc' = "param"
                   /\ UNCHANGED result
    /\ k' = 0
    /\ UNCHANGED <<flow, params, wvars>>

\* One item of action_params.items(): get_action_param_pb.
BuildParam ==
    /\ pc = "param"
    /\ k < Len(params)
    /\ LET p  == GetActionParam(flow.action, params[k + 1].name)
           pb == Store(Encode(params[k + 1].value, p.bitwidth))
       IN  IF p = NoParam
              THEN /\ Raise("not_found")
                   /\ UNCHANGED <<entry, k>>
           ELSE IF pb.err # "none"
              THEN /\ Raise(pb.err)
                   /\ UNCHANGED <<entry, k>>
           ELSE /\ entry' = [entry EXCEPT !.params =
                                Append(@, [id |-> p.id, value |-> pb.bytes])]
                /\ k' = k + 1
                /\ UNCHANGED <<pc, result>>
    /\ UNCHANGED <<flow, params, wvars>>

\* The entry is complete; the INSERT update goes to client.write_update.
Submit ==
    /\ pc = "param"
    /\ k = Len(params)
    /\ pc' = "write"
    /\ UNCHANGED <<flow, params, entry, k, result, wvars>>

\* write_update, one step of the WriteTransaction component.
WriteStep ==
    /\ pc = "write"
    /\ W!Next
    /\ UNCHANGED <<flow, pc, params, entry, k, result>>

\* The exception has reached main.
Raised ==
    /\ pc = "done"
    /\ UNCHANGED vars

Next ==
    \/ ParseFlow \/ GetP4Info \/ CollectParams
    \/ BuildTable \/ BuildMatch \/ BuildAction \/ BuildParam
    \/ Submit \/ WriteStep \/ Raised

Spec == Init /\ [][Next]_vars

---------------------------------------------------------------------------

TypeOK ==
    /\ flow \in Flows
    /\ pc \in {"parse", "fetch", "params", "table", "match", "param", "write", "done"}
    /\ params \in Seq([name : STRING, value : [type : {"int"}, kind : {"int"},
                                               num : Int, chars : {<< >>}]])
    /\ entry.match \in Seq([id : Nat, value : Seq(0..255)])
    /\ entry.params \in Seq([id : Nat, value : Seq(0..255)])
    /\ k \in Nat
    /\ result \in Failures \cup {"none"}
    /\ W!TypeOK

\* The bytes spec 4.1 gives a str value: the address of a MAC or IPv4 text,
\* the raw characters otherwise.
SpecBytes(v) ==
    CASE v.kind = "mac"  -> BigEndian(v.num, 6)
      [] v.kind = "ipv4" -> BigEndian(v.num, 4)
      [] OTHER           -> v.chars

\* Whenever an entry reaches write_update it is the one the command asked
\* for (spec 4.2, buildTableEntry): the ids of the table and action named
\* (by name or alias), every match key in order with its field's id and
\* the value's bytes at exactly the field's byte width, and every param of
\* the action in order with the datum at its position, in range and
\* encoded big-endian at the param's byte width.
EntryMatchesRequest ==
    pc = "write" =>
        LET t == Tables[GetByName(Tables, flow.table)]
            a == Actions[GetByName(Actions, flow.action)]
            FieldOf(n) == t.fields[SelectInSeq(t.fields, LAMBDA mf : mf.name = n)]
        IN  /\ entry.table = t.id
            /\ entry.action = a.id
            /\ Len(entry.match) = Len(flow.keys)
            /\ \A i \in 1..Len(flow.keys) :
                  LET f == FieldOf(flow.keys[i].field)
                  IN  /\ entry.match[i].id = f.id
                      /\ entry.match[i].value = SpecBytes(flow.keys[i].value)
                      /\ Len(entry.match[i].value) = BitwidthToBytes(f.bitwidth)
            /\ \A i \in 1..Len(a.params) :
                  /\ 0 <= flow.data[i].num
                  /\ flow.data[i].num < 2^a.params[i].bitwidth
            /\ entry.params =
                  [i \in 1..Len(a.params) |->
                      [id    |-> a.params[i].id,
                       value |-> BigEndian(flow.data[i].num,
                                           BitwidthToBytes(a.params[i].bitwidth))]]

\* The entry handed to write_update is consistent with the P4Info: its
\* table id and action id are those get_tables_id and get_actions_id
\* resolve, every match key carries the id of the field of that table with
\* the key's name, and the params are exactly the params of that action,
\* in order, with their ids.  The params are looked up by
\* get_action_params / get_action_param (name only) while the action id
\* comes from get_actions_id (name or alias): the two must agree.
EntryIdsConsistent ==
    pc = "write" =>
        LET t == GetByName(Tables, flow.table)
            a == GetByName(Actions, flow.action)
        IN  /\ t # 0
            /\ entry.table = Tables[t].id
            /\ Len(entry.match) = Len(flow.keys)
            /\ \A i \in 1..Len(flow.keys) :
                  \E j \in 1..Len(Tables[t].fields) :
                      /\ Tables[t].fields[j].name = flow.keys[i].field
                      /\ entry.match[i].id = Tables[t].fields[j].id
            /\ a # 0
            /\ entry.action = Actions[a].id
            /\ Len(entry.params) = Len(Actions[a].params)
            /\ \A i \in 1..Len(Actions[a].params) :
                  entry.params[i].id = Actions[a].params[i].id

\* A name lookup fails (AttributeError, or get_action_params returning
\* None) only when the flow names a table, a match field of that table or
\* an action that the P4Info does not have under its name or its alias
\* (spec 4.2: name lookup may match either primary name or alias).
NameErrorsJustified ==
    result \in {"not_found", "no_params"} =>
        LET t == GetByName(Tables, flow.table)
        IN  \/ t = 0
            \/ GetByName(Actions, flow.action) = 0
            \/ \E i \in 1..Len(flow.keys) :
                  \A j \in 1..Len(Tables[t].fields) :
                      Tables[t].fields[j].name # flow.keys[i].field

=============================================================================
