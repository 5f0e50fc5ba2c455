---------------------------- MODULE AddEntryProofs ----------------------------
(***************************************************************************)
(* Proofs about the add-entry command: for every P4Info in which names    *)
(* and aliases are unique, the entry handed to write_update carries the   *)
(* ids of the table and action its names resolve to.                      *)
(***************************************************************************)
EXTENDS AddEntry, SequenceTheorems, TLAPS

\* s is a function on 1..n, hence a sequence of length n.
IsSeq(s, n) == s = [i \in 1..n |-> s[i]]

\* A function on 1..n is a sequence of length n, and Append extends it by
\* one position.
LEMMA SeqShape ==
    ASSUME NEW s, NEW n \in Nat, IsSeq(s, n), NEW e
    PROVE  /\ Len(s) = n
           /\ IsSeq(Append(s, e), n + 1)
           /\ \A i \in 1..n : Append(s, e)[i] = s[i]
           /\ Append(s, e)[n + 1] = e
<1> DEFINE S == {s[i] : i \in 1..n} \cup {e}
<1>1. s \in Seq(S)
  <2>1. [i \in 1..n |-> s[i]] \in Seq(S)
    BY IsASeq
  <2>. QED  BY <2>1 DEF IsSeq
<1>2. Len(s) = n
  BY <1>1, LenProperties DEF IsSeq
<1>3. /\ Append(s, e) \in Seq(S)
      /\ Len(Append(s, e)) = n + 1
      /\ \A i \in 1..n : Append(s, e)[i] = s[i]
      /\ Append(s, e)[n + 1] = e
  BY <1>1, <1>2, AppendProperties
<1>4. IsSeq(Append(s, e), n + 1)
  BY <1>3, LenProperties DEF IsSeq
<1>. QED  BY <1>2, <1>3, <1>4

\* The empty sequence is a sequence of length 0.
LEMMA EmptyIsSeq == IsSeq(<< >>, 0)
BY DEF IsSeq

\* Min of a singleton.
LEMMA MinSingleton ==
    ASSUME NEW i \in Int
    PROVE  Min({i}) = i
BY DEF Min

\* The positions of the elements of coll named n: the set SelectInSeq
\* takes the least of when it scans coll for the name n.
NameIdx(coll, n) == {i \in 1..Len(coll) : coll[i].name = n}

\* Among entities with distinct names and aliases, at most one has the
\* name n, and get (by name or alias) returns that one.
LEMMA SelectByName ==
    ASSUME NEW S, NEW coll \in Seq(S), DistinctNames(coll), NEW n
    PROVE  \/ NameIdx(coll, n) = {}
           \/ \E i \in 1..Len(coll) :
                 /\ NameIdx(coll, n) = {i}
                 /\ Min({i}) = i
                 /\ coll[i].name = n
                 /\ GetByName(coll, n) = i
<1> DEFINE J == {i \in 1..Len(coll) : coll[i].name = n \/ coll[i].alias = n}
<1>0. Len(coll) \in Nat
  BY LenProperties
<1>1. CASE NameIdx(coll, n) # {}
  <2>1. PICK i \in NameIdx(coll, n) : TRUE
    BY <1>1
  <2>2. NameIdx(coll, n) = {i}
    BY <2>1 DEF DistinctNames, NameIdx
  <2>3. J = {i}
    BY <2>1 DEF DistinctNames, NameIdx
  <2>4. Min({i}) = i
    BY <2>1, <1>0, MinSingleton DEF NameIdx
  <2>5. GetByName(coll, n) = Min(J)
    BY <2>3 DEF GetByName, SelectInSeq
  <2>. QED  BY <2>1, <2>2, <2>3, <2>4, <2>5 DEF NameIdx
<1>. QED  BY <1>1

\* get_match_field found a field: the table it searched is the one
\* get_tables_id resolves, and the field is the one of that table with the
\* name asked for.
LEMMA MatchFieldFound ==
    ASSUME P4InfoDistinct, NEW tn, NEW fn, GetMatchField(tn, fn) # NoField
    PROVE  /\ GetByName(Tables, tn) \in 1..Len(Tables)
           /\ \E j \in 1..Len(Tables[GetByName(Tables, tn)].fields) :
                 /\ Tables[GetByName(Tables, tn)].fields[j].name = fn
                 /\ GetMatchField(tn, fn) = Tables[GetByName(Tables, tn)].fields[j]
<1> DEFINE hits == {t \in 1..Len(Tables) :
                      /\ Tables[t].name = tn
                      /\ \E j \in 1..Len(Tables[t].fields) : Tables[t].fields[j].name = fn}
<1>1. hits # {}
  BY DEF GetMatchField
<1>2. PICK t \in hits : TRUE
  BY <1>1
<1>3. Len(Tables) \in Nat
  BY P4InfoAssumption, LenProperties
<1>4. hits = {t} /\ Min(hits) = t
  <2>1. hits = {t}
    BY <1>2 DEF P4InfoDistinct, DistinctNames
  <2>2. t \in Int
    BY <1>2, <1>3
  <2>3. Min({t}) = t
    BY <2>2, MinSingleton
  <2>. QED  BY <2>1, <2>3
<1>5. t \in NameIdx(Tables, tn)
  BY <1>2 DEF NameIdx
<1>6. \/ NameIdx(Tables, tn) = {}
      \/ \E i \in 1..Len(Tables) :
            /\ NameIdx(Tables, tn) = {i}
            /\ Min({i}) = i
            /\ Tables[i].name = tn
            /\ GetByName(Tables, tn) = i
  BY P4InfoAssumption, SelectByName DEF P4InfoDistinct
<1>7. GetByName(Tables, tn) = t
  <2>1. PICK i \in 1..Len(Tables) :
              /\ NameIdx(Tables, tn) = {i}
              /\ GetByName(Tables, tn) = i
    BY <1>5, <1>6
  <2>. QED  BY <1>5, <2>1
<1>8. Tables[t].fields \in Seq(FieldRecs)
  <2>1. Tables[t] \in TableRecs
    BY <1>2, P4InfoAssumption, ElementOfSeq
  <2>. QED  BY <2>1 DEF TableRecs
<1> DEFINE j == SelectInSeq(Tables[t].fields, LAMBDA o : o.name = fn)
<1>9. GetMatchField(tn, fn) = Tables[t].fields[j]
  BY <1>1, <1>4 DEF GetMatchField, j
<1>10. j = IF NameIdx(Tables[t].fields, fn) # {}
              THEN Min(NameIdx(Tables[t].fields, fn)) ELSE 0
  BY DEF SelectInSeq, NameIdx, j
<1>11. NameIdx(Tables[t].fields, fn) # {}
  BY <1>2 DEF NameIdx
<1>12. PICK m \in NameIdx(Tables[t].fields, fn) : TRUE
  BY <1>11
<1>13. NameIdx(Tables[t].fields, fn) = {m} /\ Min({m}) = m
  <2>1. DistinctKeys(Tables[t].fields)
    BY <1>2 DEF P4InfoDistinct
  <2>2. Len(Tables[t].fields) \in Nat
    BY <1>8, LenProperties
  <2>3. NameIdx(Tables[t].fields, fn) = {m}
    BY <1>12, <2>1, <2>2 DEF DistinctKeys, NameIdx
  <2>. QED  BY <1>12, <2>3, MinSingleton DEF NameIdx
<1>14. j = m /\ m \in 1..Len(Tables[t].fields) /\ Tables[t].fields[m].name = fn
  BY <1>10, <1>12, <1>13 DEF NameIdx
<1>. QED  BY <1>2, <1>7, <1>9, <1>14

\* The action whose params get_action_params returned is the one
\* get_actions_id resolves, and get_action_param finds each of its params
\* by its name.
LEMMA ActionParamFound ==
    ASSUME P4InfoDistinct, NEW an, GetActionParams(an) # 0
    PROVE  /\ GetActionParams(an) \in 1..Len(Actions)
           /\ GetByName(Actions, an) = GetActionParams(an)
           /\ \A i \in 1..Len(Actions[GetActionParams(an)].params) :
                 GetActionParam(an, Actions[GetActionParams(an)].params[i].name)
                     = Actions[GetActionParams(an)].params[i]
<1> DEFINE a == GetActionParams(an)
<1>1. a = IF NameIdx(Actions, an) # {} THEN Min(NameIdx(Actions, an)) ELSE 0
  BY DEF GetActionParams, SelectInSeq, NameIdx, a
<1>2. \/ NameIdx(Actions, an) = {}
      \/ \E i \in 1..Len(Actions) :
            /\ NameIdx(Actions, an) = {i}
            /\ Min({i}) = i
            /\ Actions[i].name = an
            /\ GetByName(Actions, an) = i
  BY P4InfoAssumption, SelectByName DEF P4InfoDistinct
<1>3. /\ a \in 1..Len(Actions)
      /\ Actions[a].name = an
      /\ GetByName(Actions, an) = a
  BY <1>1, <1>2
<1>4. Actions[a].params \in Seq(ParamRecs)
  <2>1. Actions[a] \in ActionRecs
    BY <1>3, P4InfoAssumption, ElementOfSeq
  <2>. QED  BY <2>1 DEF ActionRecs
<1>0. Len(Actions) \in Nat
  BY P4InfoAssumption, LenProperties
<1>5. ASSUME NEW i \in 1..Len(Actions[a].params)
      PROVE  GetActionParam(an, Actions[a].params[i].name) = Actions[a].params[i]
  <2> DEFINE n == Actions[a].params[i].name
             j == SelectInSeq(Actions[a].params, LAMBDA o : o.name = n)
             hits == {b \in 1..Len(Actions) :
                        /\ Actions[b].name = an
                        /\ \E jj \in 1..Len(Actions[b].params) :
                              Actions[b].params[jj].name = n}
  <2>1. j = IF NameIdx(Actions[a].params, n) # {}
               THEN Min(NameIdx(Actions[a].params, n)) ELSE 0
    BY DEF SelectInSeq, NameIdx, j
  <2>2. i \in NameIdx(Actions[a].params, n)
    BY DEF NameIdx, n
  <2>3. NameIdx(Actions[a].params, n) = {i}
    <3>1. DistinctKeys(Actions[a].params)
      BY <1>3 DEF P4InfoDistinct
    <3>2. Len(Actions[a].params) \in Nat
      BY <1>4, LenProperties
    <3>. QED  BY <2>2, <3>1, <3>2 DEF DistinctKeys, NameIdx
  <2>4. Min({i}) = i
    BY <2>2, MinSingleton DEF NameIdx
  <2>6. j = i
    BY <2>1, <2>3, <2>4
  <2>7. hits = {a} /\ Min(hits) = a
    <3>1. a \in hits
      BY <1>3 DEF n
    <3>2. hits = {a}
      BY <3>1, <1>3 DEF P4InfoDistinct, DistinctNames
    <3>3. a \in Int
      BY <1>0, <1>3
    <3>4. Min({a}) = a
      BY <3>3, MinSingleton
    <3>. QED  BY <3>2, <3>4
  <2>8. GetActionParam(an, n) = Actions[a].params[j]
    BY <2>7 DEF GetActionParam, j
  <2>. QED  BY <2>6, <2>8
<1>. QED  BY <1>3, <1>5

---------------------------------------------------------------------------
(* The inductive invariant behind EntryIdsConsistent.  The flow is fixed  *)
(* once chosen, so the indices its names resolve to are too: TI and AI    *)
(* by get (name or alias), AN by get_action_params (name only).           *)

TI == GetByName(Tables, flow.table)
AI == GetByName(Actions, flow.action)
AN == GetActionParams(flow.action)

\* The first n match entries carry the ids of fields of the resolved table
\* with the names of the first n keys.
MatchIds(n) ==
    \A i \in 1..n :
        \E j \in 1..Len(Tables[TI].fields) :
            /\ Tables[TI].fields[j].name = flow.keys[i].field
            /\ entry.match[i].id = Tables[TI].fields[j].id

\* The first n param entries carry the ids of the resolved action's params.
ParamIds(n) == \A i \in 1..n : entry.params[i].id = Actions[AI].params[i].id

\* The action_params dict lists the params of the action get_action_params
\* found, in order.
ParamNames ==
    /\ AN # 0
    /\ IsSeq(params, Len(Actions[AN].params))
    /\ \A i \in 1..Len(Actions[AN].params) :
          params[i].name = Actions[AN].params[i].name

IdInv ==
    /\ flow \in Flows
    /\ pc \in {"parse", "fetch", "params", "table", "match", "param", "write", "done"}
    /\ k \in Nat
    /\ entry = [table |-> entry.table, match |-> entry.match,
                action |-> entry.action, params |-> entry.params]
    /\ pc \in {"table", "match", "param", "write"} => ParamNames
    /\ pc \in {"match", "param", "write"} =>
          TI # 0 /\ entry.table = Tables[TI].id
    /\ pc = "match" =>
          /\ k <= Len(flow.keys)
          /\ IsSeq(entry.match, k)
          /\ MatchIds(k)
          /\ entry.params = << >>
    /\ pc \in {"param", "write"} =>
          /\ IsSeq(entry.match, Len(flow.keys))
          /\ MatchIds(Len(flow.keys))
          /\ AI # 0
          /\ entry.action = Actions[AI].id
    /\ pc = "param" =>
          /\ k <= Len(params)
          /\ IsSeq(entry.params, k)
          /\ ParamIds(k)
    /\ pc = "write" =>
          /\ IsSeq(entry.params, Len(params))
          /\ ParamIds(Len(params))

\* The flow's keys form a sequence.
LEMMA FlowFacts ==
    ASSUME IdInv
    PROVE  /\ flow.keys \in Seq(KeyRecs)
           /\ Len(flow.keys) \in Nat
<1>1. flow \in FlowRecs
  BY P4InfoAssumption DEF IdInv
<1>2. flow.keys \in Seq(KeyRecs)
  BY <1>1 DEF FlowRecs
<1>. QED  BY <1>2, LenProperties

\* The initial state: nothing parsed, nothing built.
LEMMA IdInvInit == Init => IdInv
BY DEF Init, IdInv, NoEntry

\* A step that leaves the command's own variables alone (write_update
\* running, the raised exception, a stutter) preserves IdInv.
LEMMA IdInvUnchanged ==
    ASSUME IdInv, UNCHANGED <<flow, pc, params, entry, k>>
    PROVE  IdInv'
BY DEF IdInv, ParamNames, MatchIds, ParamIds, TI, AI, AN, IsSeq

\* A step that raises preserves IdInv: nothing is claimed once pc = "done".
LEMMA IdInvRaise ==
    ASSUME IdInv, pc' = "done", flow' = flow, k' = k,
           entry' = [table |-> entry'.table, match |-> entry'.match,
                     action |-> entry'.action, params |-> entry'.params]
    PROVE  IdInv'
BY DEF IdInv

\* parse_flow and get_p4info only move on or raise.
LEMMA IdInvParse ==
    ASSUME IdInv, ParseFlow \/ GetP4Info
    PROVE  IdInv'
BY DEF IdInv, ParseFlow, GetP4Info, Raise

\* The action_params comprehension lists the params of the action
\* get_action_params finds, in order.
LEMMA IdInvCollect ==
    ASSUME IdInv, CollectParams
    PROVE  IdInv'
<1> DEFINE a == GetActionParams(flow.action)
<1>1. CASE a = 0 \/ Len(flow.data) < Len(Actions[a].params)
  BY <1>1, IdInvRaise DEF CollectParams, Raise, IdInv
<1>2. CASE a # 0 /\ ~(Len(flow.data) < Len(Actions[a].params))
  <2>1. /\ params' = [i \in 1..Len(Actions[a].params) |->
                        [name  |-> Actions[a].params[i].name,
                         value |-> IntVal(flow.data[i].num)]]
        /\ pc' = "table"
        /\ UNCHANGED <<flow, entry, k>>
    BY <1>2 DEF CollectParams
  <2>2. AN' = a
    BY <2>1 DEF AN
  <2>4. ParamNames'
    BY <1>2, <2>1, <2>2 DEF ParamNames, IsSeq
  <2>. QED  BY <2>1, <2>4 DEF IdInv
<1>. QED  BY <1>1, <1>2

\* get_tables_id: the entry gets the resolved table's id and no match yet.
LEMMA IdInvTable ==
    ASSUME IdInv, BuildTable
    PROVE  IdInv'
<1> DEFINE t == GetByName(Tables, flow.table)
<1>1. CASE t = 0
  BY <1>1, IdInvRaise DEF BuildTable, Raise, IdInv
<1>2. CASE t # 0
  <2>1. /\ entry' = [NoEntry EXCEPT !.table = Tables[t].id]
        /\ pc' = "match"
        /\ k' = 0
        /\ UNCHANGED <<flow, params>>
    BY <1>2 DEF BuildTable
  <2>0. pc = "table" /\ ParamNames /\ Len(flow.keys) \in Nat
    BY FlowFacts DEF BuildTable, IdInv
  <2>2. ParamNames' = ParamNames
    BY <2>1 DEF ParamNames, AN, IsSeq
  <2>3. TI' = t
    BY <2>1 DEF TI
  <2>4. entry'.match = << >> /\ entry'.params = << >> /\ entry'.table = Tables[t].id
    BY <2>1 DEF NoEntry
  <2>5. IsSeq(entry'.match, 0) /\ MatchIds(0)'
    BY <2>4, EmptyIsSeq DEF MatchIds
  <2>6. entry' = [table |-> entry'.table, match |-> entry'.match,
                  action |-> entry'.action, params |-> entry'.params]
    BY <2>1 DEF NoEntry
  <2>. QED  BY <1>2, <2>0, <2>1, <2>2, <2>3, <2>4, <2>5, <2>6 DEF IdInv
<1>. QED  BY <1>1, <1>2

\* One match key: get_match_field_pb appends the id of the field of the
\* resolved table that has the key's name.
LEMMA IdInvMatch ==
    ASSUME P4InfoDistinct, IdInv, BuildMatch
    PROVE  IdInv'
<1> DEFINE key == flow.keys[k + 1]
           f   == GetMatchField(flow.table, key.field)
<1>1. pc = "match" /\ k < Len(flow.keys)
  BY DEF BuildMatch
<1>2. CASE pc' = "done"
  BY <1>2, IdInvRaise DEF BuildMatch, Raise, IdInv
<1>3. CASE pc' # "done"
  <2>1. PICK m : /\ f # NoField
                 /\ entry' = [entry EXCEPT !.match = Append(entry.match, m)]
                 /\ m.id = f.id
                 /\ k' = k + 1
                 /\ UNCHANGED <<flow, pc, params>>
    BY <1>3 DEF BuildMatch, Raise
  <2>2. /\ k <= Len(flow.keys)
        /\ IsSeq(entry.match, k)
        /\ MatchIds(k)
        /\ entry.params = << >>
        /\ TI # 0 /\ entry.table = Tables[TI].id
        /\ ParamNames
        /\ k \in Nat
        /\ entry = [table |-> entry.table, match |-> entry.match,
                    action |-> entry.action, params |-> entry.params]
    BY <1>1 DEF IdInv
  <2>3. /\ IsSeq(Append(entry.match, m), k + 1)
        /\ \A i \in 1..k : Append(entry.match, m)[i] = entry.match[i]
        /\ Append(entry.match, m)[k + 1] = m
    BY <2>2, SeqShape
  <2>4. /\ entry'.match = Append(entry.match, m)
        /\ entry'.params = entry.params
        /\ entry'.table = entry.table
        /\ entry' = [table |-> entry'.table, match |-> entry'.match,
                     action |-> entry'.action, params |-> entry'.params]
    BY <2>1, <2>2
  <2>5. TI' = TI /\ ParamNames' = ParamNames
    BY <2>1 DEF TI, ParamNames, AN, IsSeq
  <2>6. PICK j \in 1..Len(Tables[TI].fields) :
              /\ Tables[TI].fields[j].name = key.field
              /\ f = Tables[TI].fields[j]
    BY <2>1, MatchFieldFound DEF TI
  <2>7. MatchIds(k)'
    <3>0. flow' = flow /\ k' = k + 1 /\ TI' = TI
      BY <2>1, <2>5
    <3>1. SUFFICES ASSUME NEW i \in 1..k + 1
                   PROVE  \E jj \in 1..Len(Tables[TI].fields) :
                             /\ Tables[TI].fields[jj].name = flow.keys[i].field
                             /\ entry'.match[i].id = Tables[TI].fields[jj].id
      BY <3>0 DEF MatchIds
    <3>2. CASE i = k + 1
      BY <3>2, <2>1, <2>3, <2>4, <2>6
    <3>3. CASE i \in 1..k
      <4>1. entry'.match[i] = entry.match[i]
        BY <3>3, <2>3, <2>4
      <4>. QED  BY <3>3, <4>1, <2>2 DEF MatchIds
    <3>. QED  BY <3>2, <3>3, <2>2
  <2>. QED  BY <1>1, <2>1, <2>2, <2>3, <2>4, <2>5, <2>7 DEF IdInv
<1>. QED  BY <1>2, <1>3

\* get_actions_id: the entry gets the resolved action's id, the match
\* entries are complete and the params loop starts.
LEMMA IdInvAction ==
    ASSUME P4InfoDistinct, IdInv, BuildAction
    PROVE  IdInv'
<1> DEFINE a == GetByName(Actions, flow.action)
<1>1. pc = "match" /\ k = Len(flow.keys)
  BY DEF BuildAction
<1>2. CASE a = 0
  BY <1>2, IdInvRaise DEF BuildAction, Raise, IdInv
<1>3. CASE a # 0
  <2>1. /\ entry' = [entry EXCEPT !.action = Actions[a].id]
        /\ pc' = "param"
        /\ k' = 0
        /\ UNCHANGED <<flow, params>>
    BY <1>3 DEF BuildAction
  <2>2. /\ IsSeq(entry.match, k)
        /\ MatchIds(k)
        /\ entry.params = << >>
        /\ TI # 0 /\ entry.table = Tables[TI].id
        /\ ParamNames
        /\ entry = [table |-> entry.table, match |-> entry.match,
                    action |-> entry.action, params |-> entry.params]
    BY <1>1 DEF IdInv
  <2>3. /\ entry'.match = entry.match
        /\ entry'.params = << >>
        /\ entry'.table = entry.table
        /\ entry'.action = Actions[a].id
        /\ entry' = [table |-> entry'.table, match |-> entry'.match,
                     action |-> entry'.action, params |-> entry'.params]
    BY <2>1, <2>2
  <2>4. TI' = TI /\ AI' = a /\ AI = a /\ ParamNames' = ParamNames
    BY <2>1 DEF TI, AI, ParamNames, AN, IsSeq
  <2>5. MatchIds(Len(flow.keys))'
    BY <1>1, <2>1, <2>2, <2>3, <2>4 DEF MatchIds
  <2>6. Len(params) \in Nat
    <3>1. IsSeq(params, Len(Actions[AN].params))
      BY <2>2 DEF ParamNames
    <3>2. Len(Actions[AN].params) \in Nat
      <4>1. AN \in 1..Len(Actions)
        BY <2>2, ActionParamFound DEF ParamNames, AN
      <4>2. Actions[AN] \in ActionRecs
        BY <4>1, P4InfoAssumption, ElementOfSeq
      <4>. QED  BY <4>2, LenProperties DEF ActionRecs
    <3>. QED  BY <3>1, <3>2, SeqShape
  <2>7. IsSeq(entry'.params, 0) /\ ParamIds(0)'
    BY <2>3, EmptyIsSeq DEF ParamIds
  <2>. QED  BY <1>1, <1>3, <2>1, <2>2, <2>3, <2>4, <2>5, <2>6, <2>7 DEF IdInv
<1>. QED  BY <1>2, <1>3

\* What the action_params dict gives the params loop: as many entries as
\* the action get_actions_id resolves has params, each found again by
\* get_action_param under its name.
LEMMA ParamsFacts ==
    ASSUME P4InfoDistinct, ParamNames
    PROVE  /\ AN \in 1..Len(Actions)
           /\ AI = AN
           /\ Len(params) = Len(Actions[AN].params)
           /\ Len(params) \in Nat
           /\ \A i \in 1..Len(params) :
                 GetActionParam(flow.action, params[i].name) = Actions[AN].params[i]
<1>1. /\ AN \in 1..Len(Actions)
      /\ AI = AN
      /\ \A i \in 1..Len(Actions[AN].params) :
            GetActionParam(flow.action, Actions[AN].params[i].name)
                = Actions[AN].params[i]
  BY ActionParamFound DEF ParamNames, AN, AI
<1>2. Len(Actions[AN].params) \in Nat
  <2>1. Actions[AN] \in ActionRecs
    BY <1>1, P4InfoAssumption, ElementOfSeq
  <2>. QED  BY <2>1, LenProperties DEF ActionRecs
<1>3. Len(params) = Len(Actions[AN].params)
  BY <1>2, SeqShape DEF ParamNames
<1>. QED  BY <1>1, <1>2, <1>3 DEF ParamNames

\* One action param: get_action_param_pb appends the id of the resolved
\* action's param at the same position.
LEMMA IdInvParam ==
    ASSUME P4InfoDistinct, IdInv, BuildParam
    PROVE  IdInv'
<1> DEFINE p == GetActionParam(flow.action, params[k + 1].name)
<1>1. pc = "param" /\ k < Len(params)
  BY DEF BuildParam
<1>2. CASE pc' = "done"
  BY <1>2, IdInvRaise DEF BuildParam, Raise, IdInv
<1>3. CASE pc' # "done"
  <2>1. PICK m : /\ entry' = [entry EXCEPT !.params = Append(entry.params, m)]
                 /\ m.id = p.id
                 /\ k' = k + 1
                 /\ UNCHANGED <<flow, pc, params>>
    BY <1>3 DEF BuildParam, Raise
  <2>2. /\ IsSeq(entry.match, Len(flow.keys))
        /\ MatchIds(Len(flow.keys))
        /\ AI # 0 /\ entry.action = Actions[AI].id
        /\ TI # 0 /\ entry.table = Tables[TI].id
        /\ IsSeq(entry.params, k)
        /\ ParamIds(k)
        /\ ParamNames
        /\ k \in Nat
        /\ entry = [table |-> entry.table, match |-> entry.match,
                    action |-> entry.action, params |-> entry.params]
    BY <1>1 DEF IdInv
  <2>3. /\ IsSeq(Append(entry.params, m), k + 1)
        /\ \A i \in 1..k : Append(entry.params, m)[i] = entry.params[i]
        /\ Append(entry.params, m)[k + 1] = m
    BY <2>2, SeqShape
  <2>4. /\ entry'.params = Append(entry.params, m)
        /\ entry'.match = entry.match
        /\ entry'.table = entry.table
        /\ entry'.action = entry.action
        /\ entry' = [table |-> entry'.table, match |-> entry'.match,
                     action |-> entry'.action, params |-> entry'.params]
    BY <2>1, <2>2
  <2>5. TI' = TI /\ AI' = AI /\ ParamNames' = ParamNames
    BY <2>1 DEF TI, AI, ParamNames, AN, IsSeq
  <2>6. /\ AI = AN
        /\ Len(params) \in Nat
        /\ p = Actions[AN].params[k + 1]
    BY <1>1, <2>2, ParamsFacts
  <2>7. ParamIds(k)'
    <3>0. k' = k + 1
      BY <2>1
    <3>1. SUFFICES ASSUME NEW i \in 1..k + 1
                   PROVE  entry'.params[i].id = Actions[AI].params[i].id
      BY <3>0, <2>5 DEF ParamIds
    <3>2. CASE i = k + 1
      BY <3>2, <2>1, <2>3, <2>4, <2>6
    <3>3. CASE i \in 1..k
      BY <3>3, <2>2, <2>3, <2>4 DEF ParamIds
    <3>. QED  BY <3>2, <3>3, <2>2
  <2>8. MatchIds(Len(flow.keys))'
    BY <2>1, <2>2, <2>4, <2>5 DEF MatchIds
  <2>. QED  BY <1>1, <2>1, <2>2, <2>3, <2>4, <2>5, <2>6, <2>7, <2>8 DEF IdInv
<1>. QED  BY <1>2, <1>3

\* The entry is complete when the params loop has run over every param.
LEMMA IdInvSubmit ==
    ASSUME IdInv, Submit
    PROVE  IdInv'
BY DEF IdInv, Submit, ParamNames, MatchIds, ParamIds, TI, AI, AN, IsSeq

\* Every step of add-entry preserves IdInv.
LEMMA IdInvStep ==
    ASSUME P4InfoDistinct, IdInv, [Next]_vars
    PROVE  IdInv'
<1>1. CASE ParseFlow \/ GetP4Info
  BY <1>1, IdInvParse
<1>2. CASE CollectParams
  BY <1>2, IdInvCollect
<1>3. CASE BuildTable
  BY <1>3, IdInvTable
<1>4. CASE BuildMatch
  BY <1>4, IdInvMatch
<1>5. CASE BuildAction
  BY <1>5, IdInvAction
<1>6. CASE BuildParam
  BY <1>6, IdInvParam
<1>7. CASE Submit
  BY <1>7, IdInvSubmit
<1>8. CASE WriteStep \/ Raised \/ UNCHANGED vars
  BY <1>8, IdInvUnchanged DEF WriteStep, Raised, vars
<1>. QED  BY <1>1, <1>2, <1>3, <1>4, <1>5, <1>6, <1>7, <1>8 DEF Next

\* At write_update, IdInv gives the property: the params loop has appended
\* one entry per param of the action the names resolve to.
LEMMA IdInvConsistent ==
    ASSUME P4InfoDistinct, IdInv
    PROVE  EntryIdsConsistent
<1>1. SUFFICES ASSUME pc = "write" PROVE EntryIdsConsistent
  BY DEF EntryIdsConsistent
<1>2. /\ IsSeq(entry.match, Len(flow.keys))
      /\ MatchIds(Len(flow.keys))
      /\ AI # 0 /\ entry.action = Actions[AI].id
      /\ TI # 0 /\ entry.table = Tables[TI].id
      /\ IsSeq(entry.params, Len(params))
      /\ ParamIds(Len(params))
      /\ ParamNames
  BY <1>1 DEF IdInv
<1>3. /\ AI = AN
      /\ Len(params) = Len(Actions[AN].params)
      /\ Len(params) \in Nat
  BY <1>2, ParamsFacts
<1>4. Len(entry.match) = Len(flow.keys) /\ Len(entry.params) = Len(params)
  BY <1>2, <1>3, FlowFacts, SeqShape
<1>. QED  BY <1>1, <1>2, <1>3, <1>4 DEF EntryIdsConsistent, MatchIds, ParamIds, TI, AI

\* For every P4Info whose names and aliases are unique per entity type and
\* whose field and param names are unique within their table or action,
\* the entry add-entry hands to write_update carries the table id and the
\* action id get_tables_id and get_actions_id resolve, the ids of that
\* table's fields for its match keys, and exactly that action's params
\* with their ids (EntryIdsConsistent), whatever the flow.
THEOREM IdsSound ==
    ASSUME P4InfoDistinct
    PROVE  Spec => []EntryIdsConsistent
<1>1. Init => IdInv
  BY IdInvInit
<1>2. IdInv /\ [Next]_vars => IdInv'
  BY IdInvStep
<1>3. IdInv => EntryIdsConsistent
  BY IdInvConsistent
<1>. QED  BY <1>1, <1>2, <1>3, PTL DEF Spec

=============================================================================
