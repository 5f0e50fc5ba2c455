--------------------------- MODULE StreamSession ---------------------------
(***************************************************************************)
(* The P4Runtime StreamChannel session of ovs-p4ctl (P4RuntimeClient in  *)
(* src/utilities/ovs-p4ctl.py), inside the with_client wrapper that every *)
(* subcommand runs in, up to the end of the Python process.               *)
(*                                                                         *)
(* Four actors interleave:                                                 *)
(*   - the caller (main thread): with_client, set_up_stream, handshake /   *)
(*     get_stream_packet, the subcommand, tear_down, interpreter exit;     *)
(*   - the gRPC request sender, which drains stream_req_iterator, i.e.     *)
(*     stream_out_q, until it yields the None sentinel (half-close);       *)
(*   - the receiver thread stream_recv_wrapper, which copies every stream  *)
(*     message into stream_in_q and, on an RPC error only, puts None;      *)
(*   - the device (the P4Runtime server at the other end of the stream).   *)
(*                                                                         *)
(* Time is abstracted: the timeout of get_stream_packet may fire at any    *)
(* moment of the wait, racing the device's answer.                         *)
(***************************************************************************)
EXTENDS Naturals, Sequences

CONSTANT MaxPackets   \* bound on the unsolicited stream messages the device sends

ASSUME MaxPacketsAssumption == MaxPackets \in Nat

\* Stream messages the device sends (StreamMessageResponse), by the oneof
\* field that get_stream_packet tests with HasField, and the None sentinel
\* that stream_recv_wrapper puts on stream_in_q.
Codes   == {"OK", "ALREADY_EXISTS"}
ArbMsg(c) == [tag |-> "arbitration", code |-> c]
Packet  == [tag |-> "packet", code |-> "none"]
None    == [tag |-> "None", code |-> "none"]
Msg     == {ArbMsg(c) : c \in Codes} \cup {Packet}

\* Items of stream_out_q: the arbitration StreamMessageRequest and None.
ArbReq  == "arbitration"
OutNone == "None"

VARIABLES
    pc,         \* where the main thread is
    outQ,       \* stream_out_q
    inQ,        \* stream_in_q
    toDevice,   \* requests on the wire, not yet handled by the device
    toClient,   \* responses on the wire, not yet read by the receiver
    halfClosed, \* stream_req_iterator has returned: the client half-closed
    stream,     \* status of the StreamChannel RPC
    recv,       \* the receiver thread stream_recv_thread
    channel,    \* the grpc channel
    role,       \* is_master as computed by handshake
    grant,      \* the device's arbitration decision for this client
    sent,       \* unsolicited messages the device has sent
    cmd         \* outcome of the subcommand run by with_client

vars == <<pc, outQ, inQ, toDevice, toClient, halfClosed, stream, recv,
          channel, role, grant, sent, cmd>>

PCs == {"start", "handshake", "command", "teardown", "shutdown", "exited"}

TypeOK ==
    /\ pc \in PCs
    /\ outQ \in Seq({ArbReq, OutNone})
    /\ inQ \in Seq(Msg \cup {None})
    /\ toDevice \in Seq({ArbReq})
    /\ toClient \in Seq(Msg)
    /\ halfClosed \in BOOLEAN
    /\ stream \in {"none", "open", "ok", "error"}
    /\ recv \in {"none", "running", "done"}
    /\ channel \in {"none", "open", "closed"}
    /\ role \in {"none", "master", "slave"}
    /\ grant \in Codes \cup {"none"}
    /\ sent \in 0..MaxPackets
    /\ cmd \in {"none", "ok", "raised"}

Init ==
    /\ pc = "start"
    /\ outQ = << >>
    /\ inQ = << >>
    /\ toDevice = << >>
    /\ toClient = << >>
    /\ halfClosed = FALSE
    /\ stream = "none"
    /\ recv = "none"
    /\ channel = "none"
    /\ role = "none"
    /\ grant = "none"
    /\ sent = 0
    /\ cmd = "none"

---------------------------------------------------------------------------
(* The main thread.                                                        *)

\* with_client: resolve_device_id_by_bridge_name raises before a client
\* exists; main prints the error and calls sys.exit(1).
ResolveFails ==
    /\ pc = "start"
    /\ pc' = "shutdown"
    /\ UNCHANGED <<outQ, inQ, toDevice, toClient, halfClosed, stream, recv,
                   channel, role, grant, sent, cmd>>

\* P4RuntimeClient.__init__ and set_up_stream: open the channel, start the
\* StreamChannel call and the receiver thread; then handshake puts the
\* arbitration request on stream_out_q and enters get_stream_packet.
Open ==
    /\ pc = "start"
    /\ channel' = "open"
    /\ stream' = "open"
    /\ recv' = "running"
    /\ outQ' = <<ArbReq>>
    /\ pc' = "handshake"
    /\ UNCHANGED <<inQ, toDevice, toClient, halfClosed, role, grant, sent, cmd>>

\* get_stream_packet dequeues the None sentinel: it returns None and
\* handshake calls sys.exit(1) from inside the constructor, so client is
\* still None in with_client and tear_down is skipped.
WaitSentinel ==
    /\ pc = "handshake"
    /\ inQ # << >>
    /\ Head(inQ) = None
    /\ inQ' = Tail(inQ)
    /\ pc' = "shutdown"
    /\ UNCHANGED <<outQ, toDevice, toClient, halfClosed, stream, recv,
                   channel, role, grant, sent, cmd>>

\* get_stream_packet dequeues a message without the arbitration field:
\* it is discarded and the wait goes on with the same deadline.
WaitDiscard ==
    /\ pc = "handshake"
    /\ inQ # << >>
    /\ Head(inQ) \in Msg
    /\ Head(inQ).tag # "arbitration"
    /\ inQ' = Tail(inQ)
    /\ UNCHANGED <<pc, outQ, toDevice, toClient, halfClosed, stream, recv,
                   channel, role, grant, sent, cmd>>

\* Mutant: the HasField(type_) test dropped; a message without the
\* arbitration field reads as the protobuf default, status code OK.
WaitArbitrationNoTagCheck ==
    /\ pc = "handshake"
    /\ inQ # << >>
    /\ Head(inQ) \in Msg
    /\ inQ' = Tail(inQ)
    /\ role' = IF Head(inQ).tag # "arbitration" \/ Head(inQ).code = "OK"
                 THEN "master" ELSE "slave"
    /\ pc' = "command"
    /\ UNCHANGED <<outQ, toDevice, toClient, halfClosed, stream, recv,
                   channel, grant, sent, cmd>>

\* Mutant: is_master takes the status code itself, not the comparison.
WaitArbitrationRawCode ==
    /\ pc = "handshake"
    /\ inQ # << >>
    /\ Head(inQ).tag = "arbitration"
    /\ inQ' = Tail(inQ)
    /\ role' = Head(inQ).code
    /\ pc' = "command"
    /\ UNCHANGED <<outQ, toDevice, toClient, halfClosed, stream, recv,
                   channel, grant, sent, cmd>>

\* get_stream_packet returns the arbitration response; handshake sets
\* is_master = (rep.arbitration.status.code == OK) and the command starts.
WaitArbitration ==
    /\ pc = "handshake"
    /\ inQ # << >>
    /\ Head(inQ).tag = "arbitration"
    /\ inQ' = Tail(inQ)
    /\ role' = IF Head(inQ).code = "OK" THEN "master" ELSE "slave"
    /\ pc' = "command"
    /\ UNCHANGED <<outQ, toDevice, toClient, halfClosed, stream, recv,
                   channel, grant, sent, cmd>>

\* The deadline of get_stream_packet passes (remaining < 0, or
\* queue.Empty from stream_in_q.get): it returns None and handshake calls
\* sys.exit(1), again without tear_down.
WaitTimeout ==
    /\ pc = "handshake"
    /\ pc' = "shutdown"
    /\ UNCHANGED <<outQ, inQ, toDevice, toClient, halfClosed, stream, recv,
                   channel, role, grant, sent, cmd>>

\* Mutant: tear_down without stream_out_q.put(None).
CommandNoSentinel ==
    /\ pc = "command"
    /\ \E outcome \in {"ok", "raised"} : cmd' = outcome
    /\ pc' = "teardown"
    /\ UNCHANGED <<outQ, inQ, toDevice, toClient, halfClosed, stream, recv,
                   channel, role, grant, sent>>

\* Mutant: with_client without its finally clause; when the subcommand
\* returns or raises, tear_down is never called.
CommandNoFinally ==
    /\ pc = "command"
    /\ \E outcome \in {"ok", "raised"} : cmd' = outcome
    /\ pc' = "shutdown"
    /\ UNCHANGED <<outQ, inQ, toDevice, toClient, halfClosed, stream, recv,
                   channel, role, grant, sent>>

\* The subcommand f(client, ...) returns or raises; with_client's finally
\* clause then calls tear_down, which first puts None on stream_out_q.
Command ==
    /\ pc = "command"
    /\ \E outcome \in {"ok", "raised"} : cmd' = outcome
    /\ outQ' = Append(outQ, OutNone)
    /\ pc' = "teardown"
    /\ UNCHANGED <<inQ, toDevice, toClient, halfClosed, stream, recv,
                   channel, role, grant, sent>>

\* tear_down: stream_recv_thread.join() returns once the receiver has
\* finished, then the channel is closed.
TearDown ==
    /\ pc = "teardown"
    /\ recv = "done"
    /\ channel' = "closed"
    /\ pc' = "shutdown"
    /\ UNCHANGED <<outQ, inQ, toDevice, toClient, halfClosed, stream, recv,
                   role, grant, sent, cmd>>

\* The interpreter exits (main returned, or SystemExit propagated) once
\* every non-daemon thread, i.e. the receiver thread, has finished.
Exit ==
    /\ pc = "shutdown"
    /\ recv # "running"
    /\ pc' = "exited"
    /\ UNCHANGED <<outQ, inQ, toDevice, toClient, halfClosed, stream, recv,
                   channel, role, grant, sent, cmd>>

---------------------------------------------------------------------------
(* The gRPC request sender: stream_req_iterator, consumed while the call  *)
(* is open.                                                                *)

SendRequest ==
    /\ stream = "open"
    /\ ~halfClosed
    /\ outQ # << >>
    /\ outQ' = Tail(outQ)
    /\ IF Head(outQ) = OutNone
          THEN /\ halfClosed' = TRUE
               /\ UNCHANGED toDevice
          ELSE /\ toDevice' = Append(toDevice, Head(outQ))
               /\ UNCHANGED halfClosed
    /\ UNCHANGED <<pc, inQ, toClient, stream, recv, channel, role, grant,
                   sent, cmd>>

---------------------------------------------------------------------------
(* The receiver thread: for p in stream: stream_in_q.put(p).              *)

RecvMessage ==
    /\ recv = "running"
    /\ toClient # << >>
    /\ inQ' = Append(inQ, Head(toClient))
    /\ toClient' = Tail(toClient)
    /\ UNCHANGED <<pc, outQ, toDevice, halfClosed, stream, recv, channel,
                   role, grant, sent, cmd>>

\* The stream ends with status OK: the for loop ends and the thread
\* returns without putting a sentinel.
RecvEnd ==
    /\ recv = "running"
    /\ toClient = << >>
    /\ stream = "ok"
    /\ recv' = "done"
    /\ UNCHANGED <<pc, outQ, inQ, toDevice, toClient, halfClosed, stream,
                   channel, role, grant, sent, cmd>>

\* The stream fails: parse_p4runtime_error turns the RpcError into a
\* P4RuntimeException, the wrapper logs it and puts None on stream_in_q.
RecvError ==
    /\ recv = "running"
    /\ toClient = << >>
    /\ stream = "error"
    /\ inQ' = Append(inQ, None)
    /\ recv' = "done"
    /\ UNCHANGED <<pc, outQ, toDevice, toClient, halfClosed, stream,
                   channel, role, grant, sent, cmd>>

---------------------------------------------------------------------------
(* The device, at the other end of StreamChannel.                          *)

\* It answers the arbitration request: OK if this client's election id
\* makes it primary, ALREADY_EXISTS otherwise.
DeviceArbitrate ==
    /\ stream = "open"
    /\ toDevice # << >>
    /\ toDevice' = Tail(toDevice)
    /\ \E c \in Codes :
          /\ grant' = c
          /\ toClient' = Append(toClient, ArbMsg(c))
    /\ UNCHANGED <<pc, outQ, inQ, halfClosed, stream, recv, channel, role,
                   sent, cmd>>

\* It sends a stream message other than an arbitration answer (packet-in,
\* digest, idle-timeout notification, stream error); the client cannot
\* rule one out before the answer, and get_stream_packet discards it.
DevicePacket ==
    /\ stream = "open"
    /\ sent < MaxPackets
    /\ sent' = sent + 1
    /\ toClient' = Append(toClient, Packet)
    /\ UNCHANGED <<pc, outQ, inQ, toDevice, halfClosed, stream, recv,
                   channel, role, grant, cmd>>

\* Once the client has half-closed and every request is handled, the
\* device ends the call with status OK.
DeviceFinish ==
    /\ stream = "open"
    /\ halfClosed
    /\ toDevice = << >>
    /\ stream' = "ok"
    /\ UNCHANGED <<pc, outQ, inQ, toDevice, toClient, halfClosed, recv,
                   channel, role, grant, sent, cmd>>

\* The call fails at any time (device gone, connection refused, reset).
DeviceFail ==
    /\ stream = "open"
    /\ stream' = "error"
    /\ UNCHANGED <<pc, outQ, inQ, toDevice, toClient, halfClosed, recv,
                   channel, role, grant, sent, cmd>>

\* The process has exited; nothing more happens.
Terminated ==
    /\ pc = "exited"
    /\ UNCHANGED vars

---------------------------------------------------------------------------

Next ==
    \/ ResolveFails \/ Open
    \/ WaitSentinel \/ WaitDiscard \/ WaitArbitration \/ WaitTimeout
    \/ Command \/ TearDown \/ Exit
    \/ SendRequest
    \/ RecvMessage \/ RecvEnd \/ RecvError
    \/ DeviceArbitrate \/ DevicePacket \/ DeviceFinish \/ DeviceFail
    \/ Terminated

\* The main thread, the sender and the receiver are threads of a running
\* process and keep running; the timeout of get_stream_packet eventually
\* fires; the device eventually handles a request and ends a half-closed
\* call. The device is never obliged to fail or to send packets.
Fairness ==
    /\ WF_vars(Open)
    /\ WF_vars(WaitSentinel) /\ WF_vars(WaitDiscard)
    /\ WF_vars(WaitArbitration) /\ WF_vars(WaitTimeout)
    /\ WF_vars(Command) /\ WF_vars(TearDown) /\ WF_vars(Exit)
    /\ WF_vars(SendRequest)
    /\ WF_vars(RecvMessage) /\ WF_vars(RecvEnd) /\ WF_vars(RecvError)
    /\ WF_vars(DeviceArbitrate) /\ WF_vars(DeviceFinish)

Spec == Init /\ [][Next]_vars /\ Fairness

---------------------------------------------------------------------------
(* Properties.                                                             *)

\* handshake reports the client as master exactly when the device granted
\* it mastership: the role is decided by the arbitration answer and by
\* nothing else that travels through stream_in_q.
RoleMatchesGrant ==
    role # "none" => (role = "master" <=> grant = "OK")

\* A session whose handshake succeeded is torn down and the process exits:
\* the None put by tear_down half-closes the call, the device ends it, the
\* receiver finishes and join returns.
EstablishedSessionTerminates ==
    (pc = "command") ~> (pc = "exited")

\* The session lifecycle of spec 4.3 as the caller's state shows it: the
\* handshake is arbitration, the subcommand runs on an Active session,
\* tear_down is Closing until the channel is closed; a process that left
\* the handshake with the channel still open aborted establishment.
SessionState ==
    IF      pc = "start"       THEN "Disconnected"
    ELSE IF pc = "handshake"   THEN "Arbitrating"
    ELSE IF pc = "command"     THEN "Active"
    ELSE IF pc = "teardown"    THEN "Closing"
    ELSE IF channel = "closed" THEN "Closed"
    ELSE IF channel = "open"   THEN "Aborted"
    ELSE                            "Disconnected"

Lifecycle == INSTANCE SessionLifecycle WITH state <- SessionState, role <- role

\* The client implements the session lifecycle of spec 4.3: every step of
\* with_client, the handshake, tear_down and the threads is a lifecycle
\* transition or leaves it unchanged, the role is set once, by the
\* arbitration, and arbitration always ends and an Active session is
\* always closed.
SessionRefinesLifecycle == Lifecycle!Spec

\* Every run of ovs-p4ctl ends (spec: close() runs on every exit path and
\* the receiver task terminates).
ProcessTerminates ==
    <>(pc = "exited")

=============================================================================
