----------------------------- MODULE WriteReplies -----------------------------
(***************************************************************************)
(* What the device can answer to a P4Runtime Write, and what ovs-p4ctl    *)
(* should make of each answer (spec 4.4, 7): the replies the write path   *)
(* (WriteTransaction) decodes and the outcome each one calls for.         *)
(***************************************************************************)
EXTENDS Naturals, Sequences, FiniteSets

CONSTANT MaxBatch     \* bound on the number of details in a reply

ASSUME MaxBatchAssumption == MaxBatch \in Nat

\* Canonical codes of a p4.Error, and an Any that is not a p4.Error.
ErrorCodes  == {"INVALID_ARGUMENT", "NOT_FOUND"}
Undecodable == "undecodable"
Items       == {"OK", Undecodable} \cup ErrorCodes

\* gRPC status codes of the Write call: success, the one that carries
\* per-update detail (UNKNOWN), and one that does not.
GrpcCodes == {"OK", "UNKNOWN", "PERMISSION_DENIED"}

\* Sequences of details of length at most MaxBatch.
Details == UNION {[1..n -> Items] : n \in 0..MaxBatch}

Replies == [grpc : GrpcCodes, bin : BOOLEAN, details : Details]

\* Before the call returns.
NoReply == [grpc |-> "none", bin |-> FALSE, details |-> << >>]

Results == {"none", "success", "transport_error", "format_error", "write_error"}

---------------------------------------------------------------------------
(* Reference outcome of a reply, from the spec (4.4, 7): structural        *)
(* anomalies are a format error, never an empty or partial write error;    *)
(* otherwise every non-OK item, at its original index, in order.           *)

\* The 1-based positions of the items of d that report a failure.
FailedPositions(d) == {i \in 1..Len(d) : d[i] \in ErrorCodes}

\* The k-th failed position: the one with exactly k failed positions up to
\* and including it.
FailedPos(d, k) ==
    CHOOSE i \in FailedPositions(d) :
        Cardinality({j \in FailedPositions(d) : j <= i}) = k

\* The failed items as <<0-based index, code>>, in request order.
ExpectedErrors(d) ==
    [k \in 1..Cardinality(FailedPositions(d)) |->
        <<FailedPos(d, k) - 1, d[FailedPos(d, k)]>>]

\* What write / write_update should return or raise for the reply r.
ExpectedResult(r) ==
    IF r.grpc = "OK" THEN "success"
    ELSE IF r.grpc # "UNKNOWN" THEN "transport_error"
    ELSE IF ~r.bin \/ r.details = << >> THEN "format_error"
    ELSE IF \E i \in 1..Len(r.details) : r.details[i] = Undecodable
         THEN "format_error"
    ELSE "write_error"

=============================================================================
