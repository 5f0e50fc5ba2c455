# TLA+ verification of `ovs-p4ctl`

`src/utilities/ovs-p4ctl.py` is the P4Runtime control utility of P4-OvS. It
opens a gRPC StreamChannel to the switch, does mastership arbitration, gets or
sets the forwarding pipeline, builds table entries from P4Info names, and
writes them. This directory holds TLA+ models of its parts, TLC
configurations that check them, and TLAPS proofs.

## 1. Inventory

| Component | Code (lines) | State | Operations |
|---|---|---|---|
| StreamSession | `P4RuntimeClient` 387-464, 492-497 | channel, `stream_out_q`, `stream_in_q`, the receiver thread, the StreamChannel call | `__init__`/`set_up_stream`, `stream_req_iterator`, `stream_recv_wrapper`, `handshake`, `get_stream_packet`, `tear_down` |
| WriteTransaction | 58-145, 499-515 | the reply of the Write RPC; iterator `idx`; collected `errors` | `write`, `write_update`, `parse_p4runtime_write_error`, `P4RuntimeWriteException`, `P4RuntimeErrorIterator` |
| ValueCodec | 157-211 | none (pure) | `encodeNum`, `decodeNum`, `encode`, MAC/IPv4 match and encode |
| SchemaIndex | `P4InfoHelper` 213-385 | one immutable P4Info | `get`/`get_id`/`get_name`, the synthesized `get_<kind>_id`, `get_match_field`, `get_action_param(s)`, `get_match_field_pb`, `buildTableEntry` |
| TransportClient | 466-490 | none | `get_p4info`, `set_fwd_pipe_config` (unary RPCs) |
| CommandLine | 533-651 | `sys.argv` | `with_client`, `p4ctl_set_pipe/get_pipe/add_entry/del_entry`, `parse_flow`, `main` |
| DeviceIdResolver | 518-531 | OVSDB (external) | `resolve_device_id_by_bridge_name` |

How the parts interact. `main` dispatches to a subcommand. `with_client`
resolves the device id, builds a `P4RuntimeClient` and runs the subcommand.
Its `finally` clause calls `tear_down` if the client exists. The client
talks to the switch over one gRPC channel. The StreamChannel call is driven
by three threads:

- the main thread puts requests on `stream_out_q` and reads `stream_in_q`;
- gRPC's request sender drains `stream_out_q` through `stream_req_iterator`
  until it yields `None`, which half-closes the call;
- `stream_recv_thread`, a non-daemon thread, copies every stream message to
  `stream_in_q`. It puts `None` there only when the call fails.

The unary calls (`GetForwardingPipelineConfig`, `SetForwardingPipelineConfig`,
`Write`) share the channel and do not touch the queues. `add-entry` fetches
the P4Info, builds a `P4InfoHelper`, builds the entry with it and writes it.

What is hard here:

- Concurrency. Three threads and the device run against each other, and the
  handshake timeout races the device's answer.
- Failure. The stream can fail or end at any point. A command can raise.
  `sys.exit` can be called from inside the constructor.
- Ordering. `get_stream_packet` discards messages whose tag does not match.
  The sentinel is not pushed symmetrically on failure and on clean end.
  `tear_down` must join the receiver before it closes the channel.
- Decoding. A batched failure is decoded item by item, with format errors in
  the middle of the list.
- Encoding. Values are typed by inspection, and the width checks are
  off-by-one prone.

What makes each part correct:

- StreamSession: the role comes from the device's answer. Every session that
  is opened is released. The process ends.
- WriteTransaction: the outcome class matches the reply. Failed updates are
  listed at their original indices. Decoding terminates.
- ValueCodec: encoding and then decoding gives the value back, and the
  length is `ceil(bitwidth/8)`.
- SchemaIndex and add-entry: the entry sent carries the ids the names
  resolve to and every value encoded at its declared width, in request
  order; names are accepted by name or alias consistently.

The hazards are listed at their lines in `PROJECT.json`.

## 2. Status and what is left

Done:

- StreamSession, with an abstract lifecycle (`SessionLifecycle`) that it
  refines.
- WriteTransaction.
- ValueCodec.
- AddEntry. It composes the P4InfoHelper lookups, ValueCodec and
  WriteTransaction into the `add-entry` command.
- Proofs of the session's type, role and refinement properties, of the
  write path's type and outcome properties, and of add-entry's id
  consistency, for every P4Info with distinct names.

Left:

- A timed wait, to cover the hazard at line 415.

## 3. Modules

### StreamSession (`StreamSession.tla`, `MCStreamSession.tla`)

Variables:

- `pc`: the main thread. `start` is before the client exists, `handshake`
  is inside `get_stream_packet`, `command` is inside the subcommand,
  `teardown` is in `join`, `shutdown` is the interpreter waiting for
  non-daemon threads, and `exited` is the end.
- `outQ` = `stream_out_q`, `inQ` = `stream_in_q`.
- `toDevice` and `toClient`: the two directions of the call, FIFO.
- `halfClosed`: the request iterator has ended.
- `stream`: the call status (`open`, `ok`, `error`).
- `recv`: the receiver thread.
- `channel`.
- `role`: `is_master`.
- `grant`: the device's decision.
- `sent`: the count of unsolicited device messages, bounded by `MaxPackets`.
- `cmd`: whether the subcommand returned or raised.

Actions and the code they stand for:

| Action | Code | What it does |
|---|---|---|
| `ResolveFails` | `with_client` | The device-id lookup raises before a client exists. |
| `Open` | `__init__`, `set_up_stream`, and `handshake` up to its `put` | Opens the session. |
| `WaitSentinel` / `WaitDiscard` / `WaitArbitration` / `WaitTimeout` | `get_stream_packet` | The four ways one poll can go. A `None` or a timeout leads to `sys.exit(1)` without `tear_down`. |
| `Command` | `with_client` | The subcommand ends and `tear_down` does `put(None)`. |
| `TearDown` | `tear_down` | `join`, then `channel.close()`. |
| `Exit` | interpreter shutdown | Joins the non-daemon threads. |
| `SendRequest` | `stream_req_iterator` | Sends the next request, or half-closes on `None`. |
| `RecvMessage` / `RecvEnd` / `RecvError` | `stream_recv_wrapper` | `RecvEnd` adds no sentinel; `RecvError` adds `None`. |
| `DeviceArbitrate` / `DevicePacket` / `DeviceFinish` / `DeviceFail` | the device (spec-modelled; the P4Runtime server is not under `src/`) | Device behaviour, described below. |

The device's behaviour:

- It answers the arbitration with OK or ALREADY_EXISTS.
- It may send other stream messages at any time. The client cannot rule
  them out, and `get_stream_packet` is written to skip them.
- It ends a half-closed call.
- It may fail the call at any time.

Time is abstracted. The handshake's two-second deadline may expire at any
moment of the wait, before or after the answer arrives.

Fairness. The main thread, the sender and the receiver are weakly fair,
because they are threads of a live process. The timeout is weakly fair,
because a deadline always passes. The device is weakly fair only in
handling a request and in ending a half-closed call, which is what the
P4Runtime server does. It is never obliged to fail or to send messages.

Bound: `MaxPackets = 2`. That allows one message to be discarded by the
handshake and one to stay unread in `stream_in_q`. The run reaches 899
states, and every action fires.

Properties:

- `RoleMatchesGrant` (invariant): the role handshake reports is the
  device's decision. A dropped `HasField` test makes a packet-in read as a
  default, OK-coded arbitration, which this property catches.
- `EstablishedSessionTerminates` (`command ~> exited`): a session whose
  handshake succeeded is torn down and the process exits. This depends on
  the `None` sentinel, the device ending the call, and `join`.
- `SessionRefinesLifecycle` (see below).
- `ProcessTerminates` (`<>exited`) is violated. This is a **finding**: the
  handshake times out, `sys.exit(1)` runs inside the constructor, no
  `tear_down` happens, and the receiver thread keeps the interpreter waiting
  forever.

### SessionLifecycle (`SessionLifecycle.tla`): the abstract session

This is what spec 4.3 promises of a session, with no queues or threads.
It goes Disconnected → Arbitrating → Active (with role master or slave) →
Closing → Closed, or from Arbitrating to Aborted. Abort, BeginClose and
FinishClose are weakly fair.

StreamSession implements it under the refinement mapping `SessionState`:

| `pc` (and `channel`) | Abstract state |
|---|---|
| `start` | Disconnected |
| `handshake` | Arbitrating |
| `command` | Active |
| `teardown` | Closing |
| later, with the channel closed | Closed |
| later, with the channel still open | Aborted |

`role` maps to itself. Every other step of the threads and the device is
a stutter. The mapping is checked as the property
`SessionRefinesLifecycle == Lifecycle!Spec`, which covers both safety and
fairness. It fails if a command that raises skips the `finally` clause
(mutant `CommandNoFinally`). A failed device-id lookup stays Disconnected,
which the abstract spec allows.

### WriteTransaction (`WriteReplies.tla`, `WriteTransaction.tla`, `MCWriteTransaction.tla`)

`WriteReplies` holds what both levels share: the set `Replies` the device
may answer, `MaxBatch` with its assumption, and the references
`ExpectedResult` and `ExpectedErrors`. `WriteTransaction` is the code's
state machine.

Variables:

- `reply`: the Write RPC's reply, chosen among all replies. A reply has a
  gRPC status, whether the trailer is present, and up to `MaxBatch`
  details. Each detail is OK, a failure code, or undecodable.
- `idx` and `errors`: the iterator's and the exception's fields.
- `result`.

Actions:

- `Write`: the decorator.
- `IteratorInit`: `__init__`. The DecodeError that `ParseFromString`
  (line 75) raises on a corrupt trailer is not modelled: it escapes
  `write` as a plain exception.
- `NextUndecodable`, `NextSkipOk`, `NextError` and `NextStop`: each is one
  iteration of the `while` loop in `__next__`.

The references `ExpectedResult` and `ExpectedErrors` come from spec
§4.4/§7. `ExpectedErrors` is not recursive: its k-th element is the k-th
failed position (`FailedPos`), the one with exactly k failed positions up
to it. That keeps it within the provers' reach.

`Write` follows the decorator's `if`/`elif` order as an `IF` chain, not as
a `CASE`. The arms overlap (an OK status is also "not UNKNOWN"). A `CASE`
with overlapping arms leaves the choice unspecified in TLA+, even though
TLC takes the first arm. The same correction was made in `EncodeNum`
(range before hex) and in `AddEntry` (`ParseFlow`, `CollectParams`,
`BuildMatch`, `BuildParam`).

Bound: `MaxBatch = 3`. That covers an error after an OK, an undecodable
item after an error, and two errors in one batch (800 states).

Properties:

- `OutcomeMatchesReply` holds on every path that returns.
  Reading the index after the increment (mutant `NextErrorLateIndex`)
  breaks it: the WriteError lists the wrong indices. Recording an OK item
  as an error (`NextErrorRecordsOk`) breaks `TypeOK`.
- `DecodeTerminates` is violated. This is a **finding**: `continue` on an
  OK item does not advance `idx` (line 97), so the loop spins on any reply
  that lists an OK detail.

### ValueCodec (`ValueCodec.tla`, `MCValueCodec.tla`)

These are pure operators over byte sequences (numbers in 0..255) and hex
strings (digit values, where `NonHex` stands for `-`):

- `EncodeNum` follows `encodeNum` step by step:
  - the `'%x'` string (`NumStr`), which is signed for negative numbers;
  - the range check;
  - the zero padding (`Padded`);
  - `codecs.decode` (`HexDecodable`, `HexDecode`), which fails on an odd
    length or a `-`.
- `Infer` and `Encode` are `encode`: the type dispatch, then the length
  assertion.
- A str value is a record classified by the two regular expressions:
  `mac`, `ipv4`, `badquad` (an octet above 255, where `inet_aton` raises)
  or `plain`.

The run `value_codec` enumerates every width 1..24 with the numbers at its
edges (-1, 0, 1, 2^(w-1), 2^w - 1, 2^w, 255, 256). It checks
`EncodeNumMatchesReference`: `encodeNum` succeeds exactly on 0..2^w-1, and
then it returns `BigEndian(n, ceil(w/8))`, which `decodeNum` turns back into
`n`. Widths up to 24 include every residue of w mod 8 several times.

### AddEntry (`AddEntry.tla`, `MCAddEntry.tla`, `MCAddEntryCollide.tla`)

This module is `p4ctl_add_entry` inside `main`. Each step is one stage of
the command, in the code's order:

1. `ParseFlow`: `parse_flow`, in its order. A flow without `,action=`
   raises IndexError (line 569). The match parts are read left to right:
   the first without `=` (the empty match part included) raises
   IndexError (574), the first with `/` NotImplementedError (576). A
   missing `(` raises IndexError (581), and a datum that is not an integer
   literal ValueError (583). The flow is the text already cut into these
   parts: `form` says whether `,action=` and `(` occur, `keys` are the
   match parts and `data` the tokens. `parse_flow` never yields an empty
   match dict or empty data (`int('')` fails), so `FlowRecs` excludes
   empty data and `ParseFlow` raises on an empty match part. A key given
   twice would overwrite the dict entry (578); flows repeat no key
   (`KeyFieldsDistinct` in `P4InfoAssumption`), and this case is not
   modelled.
2. `GetP4Info`: `get_p4info`.
3. `CollectParams`: the `action_params` dict, built from
   `get_action_params`. It raises on an unknown or aliased name (TypeError)
   and when there are too few data (IndexError).
4. `BuildTable`: `get_tables_id`, which accepts a name or an alias.
5. `BuildMatch`: one `get_match_field_pb` per step.
6. `BuildAction`: `get_actions_id`.
7. `BuildParam`: one `get_action_param_pb` per step.
8. `Submit`: the update goes to `write_update`.
9. `WriteStep`: WriteTransaction, composed through `INSTANCE` with
   `MaxBatch = 1`. Its variables are renamed `w*`.

Any exception ends in `Raise`, which is `main`'s catch-all. The lookups
copy the code:

- `get` matches a name or an alias.
- `get_match_field` matches the table by name only. Its scan goes on
  through every table of that name, until one has the field.
- `get_action_param` does the same over actions. `get_action_params`
  returns the params of the first action of that name.

`P4InfoAssumption` gives the shape of a P4Info and of a parsed flow.
`P4InfoDistinct` describes a P4Info as the compiler generates it: no name or
alias of one table (or action) is the name or alias of another, and field
and param names are unique within their table or action. `MCAddEntry`
assumes it, so TLC checks that it holds there. The collision instance does
not satisfy it.

`MatchFieldPb` also copies the code:

- An EXACT key is encoded whole.
- LPM, TERNARY and RANGE keys encode `value[0]`, which is one character of
  the str.
- Any other match type raises.

The str that `parse_flow` yields can therefore only become bytes when it is
a MAC or an IPv4 address. A numeric key stays a str, and protobuf rejects
it (`str_value`).

MCAddEntry uses this P4Info:

- Table `ingress.fwd` (alias `fwd`) with EXACT 32-, 48- and TERNARY 8-bit
  keys.
- Table `ingress.acl` with LPM and OPTIONAL keys, and an EXACT `hdr.dst`
  whose id differs from fwd's `hdr.dst`.
- Actions with 1, 2 and 0 parameters.

The run enumerates 800 well-formed flows: tables (name, alias, the other
table, an unknown one) × 10 key lists × 4 actions × 5 data lists. It adds
10 malformed ones: no `,action=`, no `(`, an empty match part, a part
without `=`, and a part without `=` before and after one with `/`. It
reaches 5354 states, and every failure outcome occurs. Storing the raw
tokens in `action_params` (int() dropped at line 583, mutant
`CollectParamsRawData`) breaks `TypeOK`: the params hold strs.

- `EntryMatchesRequest` (run `add_entry`). The entry handed to
  `write_update` has:
  - the resolved table and action ids;
  - one match per key, in order, with the field's id and the spec-4.1
    encoding at the declared width;
  - every datum in range, encoded big-endian at its parameter's width.

  Dropping `encode`'s length assertion (mutant `EncodeNoAssert`) breaks it.
- `EntryIdsConsistent` (run `add_entry`). The ids in the entry belong
  together:
  - the table id and action id are the ones `get_tables_id` and
    `get_actions_id` resolve;
  - each match key carries the id of that table's field with the key's
    name;
  - the params are exactly that action's params, in order, with their ids.

  The params come from lookups by name only (`get_action_params`,
  `get_action_param`), and the action id from a lookup by name or alias.
  The property says that these lookups agree. Dropping the table-name
  test of `get_match_field` (line 264, mutant `GetMatchFieldAnyTable`)
  breaks it: the acl key `hdr.dst` gets fwd's field id.
  It is proved for every P4Info that satisfies `P4InfoDistinct` (§5).
- `EntryIdsConsistent` (run `add_entry_collision`, violation). This is a
  **finding**. `MCAddEntryCollide` has an action `ingress.set_port` with
  alias `set_port`, and a second action named `set_port`. For the flow
  action `set_port` and one match key, `get_actions_id` (line 379) returns
  the first action,
  while `get_action_params` (line 611) and `get_action_param` return the
  second. The entry then carries the first action's id with the second
  action's two params.
- `NameErrorsJustified` (run `add_entry_alias`, violation). A "not found"
  outcome means the name really is absent. This is a **finding**: with the
  action given by its alias, `get_action_params` returns None (line 326)
  and `enumerate(None)` raises TypeError in the `action_params`
  comprehension (606-612), before `buildTableEntry` runs; `get_actions_id`,
  which would accept the alias, is never reached. With a table alias,
  `get_match_field` raises AttributeError. Spec 4.2 accepts names or
  aliases.

## 4. Runs

| Run | Config | Expect | Shows |
|---|---|---|---|
| stream_session | `StreamSession.cfg` | pass | `TypeOK`, `RoleMatchesGrant`, `EstablishedSessionTerminates`, `SessionRefinesLifecycle` |
| stream_handshake_hang | `StreamSessionHang.cfg` | violation | `ProcessTerminates`: the process hangs after an arbitration timeout |
| write_decode | `WriteTransaction.cfg` | pass | `TypeOK`, `OutcomeMatchesReply` |
| write_decode_hang | `WriteDecodeHang.cfg` | violation | `DecodeTerminates`: decoding a batch with an OK detail never ends |
| value_codec | `ValueCodec.cfg` | pass | `EncodeNumMatchesReference` |
| add_entry | `AddEntry.cfg` | pass | `TypeOK`, `EntryIdsConsistent`, `EntryMatchesRequest` |
| add_entry_collision | `AddEntryCollide.cfg` | violation | `EntryIdsConsistent`: one action's alias is another's name, so the entry pairs one action's id with the other's params |
| add_entry_alias | `AddEntryAlias.cfg` | violation | `NameErrorsJustified`: an alias accepted by one lookup is refused by the next |

Every property of a passing run has a mutant in `PROJECT.json`. A mutant
is a plausible code bug, written as an operator next to the definition it
replaces. TLC must find the property violated when that operator is used.

## 5. Proofs

### `StreamSessionProofs.tla`

These proofs hold for every `MaxPackets \in Nat`
(`MaxPacketsAssumption`).

- `TypeCorrect`: `Spec => []TypeOK`. It rests on `TypeInit` and
  `TypeStep`, which has one step per action.
- The invariant `LInv` behind the refinement adds three facts to
  `TypeOK`:
  - `StartFacts`: at `start`, everything is empty or unset;
  - during the handshake, the channel is open;
  - the channel is closed only after the receiver ended.
- `RoleSound`: `Spec => []RoleMatchesGrant`. `RoleMatchesGrant` is not
  inductive on its own. A `WaitArbitration` step needs to know that the
  message it takes carries the device's decision. The strengthening `IInv`
  (checked by TLC first) is `LInv` plus:
  - `ReqOnce`: only one arbitration request exists, at the head of
    `stream_out_q` or alone on the wire;
  - while it is pending, the device has not decided;
  - before the decision, no arbitration message exists and the role is
    unset;
  - every arbitration message in `toClient` and `stream_in_q` carries
    `grant` (`Carries`).

  The queue lemmas `CarriesTail`, `CarriesAppend`, `NoArbTail`,
  `NoArbAppend` and `NoArbCarries` carry these facts through `Tail` and
  `Append`.
- `SessionImplementsLifecycle`: `Spec => Lifecycle!Init /\
  [][Lifecycle!Next]_Lifecycle!vars`. This is the safety part of the
  refinement. `LifecycleInit` maps the initial state. `LifecycleStep`
  shows, from `LInv`, that each step is an abstract step or a stutter.
  `StartFacts` is what rules out a step from `start` straight to a state
  other than Arbitrating.

### `WriteTransactionProofs.tla`

These proofs hold for every `MaxBatch \in Nat` (`MaxBatchAssumption`).

- `TypeCorrect`: `Spec => []TypeOK`.

The first inductive invariant `IInv` is `TypeOK`, plus "no error is
collected before the reply arrives" (`pc = "call" => errors = << >>`),
plus `ErrorsReportTheirItems`: each collected error names a position the
iterator has passed, with the code the reply holds there, in increasing
order. The first fact is needed because `Write` replaces the reply, and
the property indexes the reply. `DetailsFacts` turns `Details` into
`Seq(Items)` with a length bound. `NextError`, the only step that appends,
is proved element by element with `AppendProperties`.

- `OutcomeSound`: `Spec => []OutcomeMatchesReply`.

It rests on the strengthening `OInv` (checked by TLC as an invariant of
the write_decode run before it was proved). `OInv` is `IInv` plus facts
indexed by `pc`:

- after `call`, the reply is one of `Replies`;
- before the result, `errors` is exactly the prefix
  `<<i-1, details[i]>>` for `i` in `1..idx` (`ErrorsPrefix`);
- in `init`, the status is UNKNOWN and `idx = 0`;
- in `decode`, the reply has a trailer and details, and every item passed
  so far is a failure code (`AllFailed(idx)`). Only failures can be
  passed: an OK item spins and an undecodable one stops the loop;
- in `done`, `result = ExpectedResult(reply)`. For a write error, the loop
  passed every item.

The last two facts give the outcome. When every item is a failure code,
`ExpectedErrors` is the full prefix (lemma `ExpectedErrorsAllFailed`). This
is proved from `FS_Interval`: the k-th failed position is k.
`ErrorsMatchExpected` states this at constant level, for any `d` and `e`,
so that it can be applied to the primed state.

### `AddEntryProofs.tla`

- `IdsSound`: `ASSUME P4InfoDistinct PROVE Spec => []EntryIdsConsistent`.
  It holds for every P4Info that satisfies `P4InfoAssumption` and
  `P4InfoDistinct`, and for every set of flows.

The lookups are proved first:

- `SelectByName`: among distinct names, at most one entity has the name,
  and `get` (name or alias) returns that one.
- `MatchFieldFound`: the field `get_match_field` returns belongs to the
  table `get_tables_id` resolves, and has the key's name.
- `ActionParamFound`: the action `get_action_params` finds is the one
  `get_actions_id` resolves. `get_action_param` finds each of its params
  again by name.

These lemmas reason about the set of matching positions (`NameIdx`), not
about `SelectInSeq`'s `LAMBDA` argument, which the backends cannot
instantiate. Distinct names make that set empty or a singleton, so its
`Min` needs no well-ordering argument.

The inductive invariant `IdInv` (checked by TLC on the add_entry instance
first) follows the command's stages:

- from `table` on, `params` lists the params of the action
  `get_action_params` found (`ParamNames`);
- from `match` on, the table id is the resolved one;
- during `match`, the first `k` match entries carry field ids
  (`MatchIds(k)`) and no param has been added yet;
- from `param` on, all match entries are built and the action id is set;
- during `param`, the first `k` params carry their ids (`ParamIds(k)`).

`SeqShape` gives `Len` and `Append` for a function on `1..n`. The
entries' values come from the recursive encoders, which have no type the
provers can derive, so `entry.match` and `entry.params` are tracked as
functions on `1..n` rather than as members of `Seq(...)`. Each action has a
lemma of its own (`IdInvCollect`, `IdInvTable`, `IdInvMatch`,
`IdInvAction`, `IdInvParam`, `IdInvSubmit`, and `IdInvRaise` for every
path that raises). `IdInvConsistent` reads the property off `IdInv` at
`write`, where every param has its entry.

### Only model-checked

- The liveness properties (`EstablishedSessionTerminates`,
  `DecodeTerminates`, `ProcessTerminates`) and the fairness half of
  `SessionRefinesLifecycle`. TLAPS does not reason about fairness and
  ENABLED here.
- `EncodeNumMatchesReference`, and AddEntry's `TypeOK` and
  `EntryMatchesRequest` (its ids part is `EntryIdsConsistent`, which is
  proved; the bytes part is not). They compare with, or are typed by, recursive
  functions (`HexLen`, `BigEndian`, `DecodeNum`). `BigEndian` must stay
  recursive: its closed form needs `256^5`, which overflows TLC's
  integers. Proving what
  those compute for every input needs induction over data, which the
  installed provers cannot instantiate.

## 6. Not modelled

- Printing, usage text and the `__str__` methods (ErrorFormatting).
- The OVSDB lookup of the device id. Only its failure is modelled.
- Protobuf text parsing in `set_fwd_pipe_config`, and the set-pipe and
  get-pipe commands, which forward one call.
- `decodeMac` and `decodeIPv4`, which are never called (`decodeMac` is
  Python 2 code).
- P4InfoHelper lookups by id, `get_name`/`get_alias`,
  `get_match_field_value`, and the priority and default-action branches of
  `buildTableEntry`. No command reaches them.
- Extra action data. `p4ctl_add_entry` drops it silently, and no property
  tells it apart.
- A flow that repeats a match key (the dict keeps the first position and
  the last value, line 578), and the DecodeError of a corrupt error
  trailer (line 75).
- A device that never ends the call after the half-close: weak fairness
  on the device's end of the call assumes it away, so
  `EstablishedSessionTerminates` holds only for devices that answer.

Properties removed after review, because they held by the model's shape:
the channel order (now a conjunct of the proof's `LInv`), the per-step
error report (a conjunct of `IInv`), and the refinements of the atomic
write outcome and of an all-or-nothing entry builder, which restated the
pc sequence.
