-------------------------- MODULE WriteTransaction --------------------------
(***************************************************************************)
(* A batched P4Runtime Write of ovs-p4ctl (P4RuntimeClient.write and      *)
(* write_update, wrapped by parse_p4runtime_write_error) and the decoding *)
(* of a failed batch into per-update errors (P4RuntimeWriteException and *)
(* P4RuntimeErrorIterator).                                                *)
(*                                                                         *)
(* The device's reply is chosen by the Write step: a gRPC status, whether *)
(* the grpc-status-details-bin trailer is present, and the list of Any    *)
(* details it carries, each a p4.Error with a canonical code or a payload *)
(* that does not unpack. __next__ is modelled one loop iteration per step.*)
(***************************************************************************)
EXTENDS Naturals, Sequences, WriteReplies

VARIABLES
    pc,       \* "call", "init", "decode" (P4RuntimeErrorIterator) or "done"
    reply,    \* the device's reply to the Write RPC
    idx,      \* P4RuntimeErrorIterator.idx (0-based)
    errors,   \* P4RuntimeWriteException.errors: <<index, canonical code>>s
    result    \* what write / write_update returns or raises

vars == <<pc, reply, idx, errors, result>>

TypeOK ==
    /\ pc \in {"call", "init", "decode", "done"}
    /\ reply \in Replies \cup {NoReply}
    /\ idx \in 0..MaxBatch
    /\ errors \in Seq((0..MaxBatch) \X ErrorCodes)
    /\ result \in Results

Init ==
    /\ pc = "call"
    /\ reply = NoReply
    /\ idx = 0
    /\ errors = << >>
    /\ result = "none"

---------------------------------------------------------------------------

\* self.stub.Write(req), inside parse_p4runtime_write_error: success
\* returns; a status other than UNKNOWN is re-raised as the bare RpcError;
\* UNKNOWN constructs a P4RuntimeWriteException.
Write ==
    /\ pc = "call"
    /\ \E r \in Replies :
          /\ reply' = r
          /\ IF r.grpc = "OK"
                THEN /\ result' = "success"
                     /\ pc' = "done"
             ELSE IF r.grpc # "UNKNOWN"
                THEN /\ result' = "transport_error"
                     /\ pc' = "done"
             ELSE /\ pc' = "init"
                  /\ UNCHANGED result
    /\ UNCHANGED <<idx, errors>>

\* P4RuntimeErrorIterator.__init__: without the grpc-status-details-bin
\* trailer, or with an empty details list, it raises
\* P4RuntimeErrorFormatException, which the exception's constructor
\* re-raises; otherwise iteration starts at idx 0.
IteratorInit ==
    /\ pc = "init"
    /\ IF ~reply.bin \/ reply.details = << >>
          THEN /\ result' = "format_error"
               /\ pc' = "done"
          ELSE /\ pc' = "decode"
               /\ UNCHANGED result
    /\ UNCHANGED <<reply, idx, errors>>

\* The item __next__ looks at.
Current == reply.details[idx + 1]

\* __next__: an Any that does not unpack raises
\* P4RuntimeErrorFormatException, which the constructor re-raises.
NextUndecodable ==
    /\ pc = "decode"
    /\ idx < Len(reply.details)
    /\ Current = Undecodable
    /\ result' = "format_error"
    /\ pc' = "done"
    /\ UNCHANGED <<reply, idx, errors>>

\* __next__: an item with canonical code OK is skipped by `continue`, which
\* goes back to the loop test without advancing self.idx.
NextSkipOk ==
    /\ pc = "decode"
    /\ idx < Len(reply.details)
    /\ Current = "OK"
    /\ UNCHANGED vars

\* Mutant: OK items are not skipped but collected like failures.
NextErrorRecordsOk ==
    /\ pc = "decode"
    /\ idx < Len(reply.details)
    /\ Current # Undecodable
    /\ errors' = Append(errors, <<idx, Current>>)
    /\ idx' = idx + 1
    /\ UNCHANGED <<pc, reply, result>>

\* Mutant: the off-by-one reading the index after the increment.
NextErrorLateIndex ==
    /\ pc = "decode"
    /\ idx < Len(reply.details)
    /\ Current \in ErrorCodes
    /\ errors' = Append(errors, <<idx + 1, Current>>)
    /\ idx' = idx + 1
    /\ UNCHANGED <<pc, reply, result>>

\* __next__ returns (idx, p4_error) and advances idx; the constructor
\* appends the tuple to self.errors.
NextError ==
    /\ pc = "decode"
    /\ idx < Len(reply.details)
    /\ Current \in ErrorCodes
    /\ errors' = Append(errors, <<idx, Current>>)
    /\ idx' = idx + 1
    /\ UNCHANGED <<pc, reply, result>>

\* StopIteration: the constructor returns and the decorator raises the
\* P4RuntimeWriteException.
NextStop ==
    /\ pc = "decode"
    /\ idx >= Len(reply.details)
    /\ result' = "write_error"
    /\ pc' = "done"
    /\ UNCHANGED <<reply, idx, errors>>

\* The call has returned or raised.
Returned ==
    /\ pc = "done"
    /\ UNCHANGED vars

Next ==
    \/ Write \/ IteratorInit
    \/ NextUndecodable \/ NextSkipOk \/ NextError \/ NextStop
    \/ Returned

\* The calling thread runs on while it can.
Spec == Init /\ [][Next]_vars /\ WF_vars(Next)

---------------------------------------------------------------------------

\* When write / write_update has returned or raised, the outcome is the one
\* the reply calls for, and a WriteError lists exactly the failed updates
\* with their original indices, in request order.
OutcomeMatchesReply ==
    pc = "done" =>
        /\ result = ExpectedResult(reply)
        /\ result = "write_error" => errors = ExpectedErrors(reply.details)

\* Every failed Write raises its exception: decoding the per-update errors
\* terminates (spec 8: [OK, INVALID_ARGUMENT] yields one entry, index 1).
DecodeTerminates ==
    (pc = "decode") ~> (pc = "done")

=============================================================================
