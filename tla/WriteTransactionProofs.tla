----------------------- MODULE WriteTransactionProofs -----------------------
(***************************************************************************)
(* Proofs about the batched Write and the decoding of its per-update      *)
(* errors, for every bound MaxBatch: the type invariant, and that the     *)
(* call returns or raises what the reply calls for.                       *)
(***************************************************************************)
EXTENDS WriteTransaction, SequenceTheorems, FiniteSetTheorems, TLAPS

\* A list of details is a finite sequence of items of length at most
\* MaxBatch.
LEMMA DetailsFacts ==
    ASSUME NEW d \in Details
    PROVE  d \in Seq(Items) /\ Len(d) \in 0..MaxBatch
<1>1. PICK n \in 0..MaxBatch : d \in [1..n -> Items]
  BY DEF Details
<1>2. d \in Seq(Items)
  BY <1>1, MaxBatchAssumption, SeqDef
<1>3. Len(d) = n
  BY <1>1, <1>2, MaxBatchAssumption, LenProperties
<1>. QED
  BY <1>2, <1>3

\* The reply of a state that satisfies TypeOK carries such a list.
LEMMA ReplyDetails ==
    ASSUME TypeOK
    PROVE  reply.details \in Seq(Items) /\ Len(reply.details) \in 0..MaxBatch
<1>1. CASE reply \in Replies
  BY <1>1, DetailsFacts DEF Replies
<1>2. CASE reply = NoReply
  BY <1>2, EmptySeq, MaxBatchAssumption DEF NoReply
<1>. QED
  BY <1>1, <1>2 DEF TypeOK

---------------------------------------------------------------------------

\* Every update collected as failed so far is one the iterator has passed,
\* at its 0-based position with the code found there, in request order.
ErrorsReportTheirItems ==
    \A i \in 1..Len(errors) :
        /\ errors[i][1] < idx
        /\ reply.details[errors[i][1] + 1] = errors[i][2]
        /\ \A j \in 1..(i - 1) : errors[j][1] < errors[i][1]

\* The strengthening: errors are collected only after the call returned, so
\* the reply they index is the one in the state.
IInv ==
    /\ TypeOK
    /\ pc = "call" => errors = << >>
    /\ ErrorsReportTheirItems

LEMMA IInvInit == Init => IInv
<1> SUFFICES ASSUME Init PROVE IInv
  OBVIOUS
<1>1. errors = << >> /\ Len(errors) = 0
  BY DEF Init
<1>2. errors \in Seq((0..MaxBatch) \X ErrorCodes)
  BY <1>1, EmptySeq
<1>3. TypeOK
  BY <1>2, MaxBatchAssumption DEF Init, TypeOK, Results
<1>4. ErrorsReportTheirItems
  BY <1>1 DEF ErrorsReportTheirItems
<1>. QED
  BY <1>1, <1>3, <1>4 DEF IInv

LEMMA IInvStep == IInv /\ [Next]_vars => IInv'
<1> SUFFICES ASSUME IInv, [Next]_vars PROVE IInv'
  OBVIOUS
<1>. USE DEF IInv
<1>a. reply.details \in Seq(Items) /\ Len(reply.details) \in 0..MaxBatch
  BY ReplyDetails
<1>1. CASE Write
  <2>1. PICK r \in Replies :
           /\ reply' = r
           /\ IF r.grpc = "OK"
                 THEN /\ result' = "success"
                      /\ pc' = "done"
              ELSE IF r.grpc # "UNKNOWN"
                 THEN /\ result' = "transport_error"
                      /\ pc' = "done"
              ELSE /\ pc' = "init"
                   /\ UNCHANGED result
    BY <1>1 DEF Write
  <2>2. pc' \in {"done", "init"} /\ result' \in Results
    <3>1. CASE r.grpc = "OK"
      BY <2>1, <3>1, Zenon DEF Results
    <3>2. CASE r.grpc # "OK" /\ r.grpc # "UNKNOWN"
      BY <2>1, <3>2, Zenon DEF Results
    <3>3. CASE r.grpc = "UNKNOWN"
      BY <2>1, <3>3, Zenon DEF Results, TypeOK
    <3>. QED
      BY <3>1, <3>2, <3>3
  <2>3. errors = << >> /\ UNCHANGED <<idx, errors>>
    BY <1>1 DEF Write
  <2>4. TypeOK'
    BY <2>1, <2>2, <2>3 DEF TypeOK
  <2>5. ErrorsReportTheirItems'
    BY <2>3 DEF ErrorsReportTheirItems
  <2>. QED
    BY <2>2, <2>3, <2>4, <2>5
<1>2. CASE IteratorInit
  BY <1>2 DEF IteratorInit, TypeOK, Results, ErrorsReportTheirItems
<1>3. CASE NextUndecodable
  BY <1>3 DEF NextUndecodable, TypeOK, Results, ErrorsReportTheirItems
<1>4. CASE NextSkipOk
  BY <1>4 DEF NextSkipOk, vars, TypeOK, ErrorsReportTheirItems
<1>5. CASE NextError
  <2>1. idx \in 0..MaxBatch /\ idx < Len(reply.details)
        /\ Current \in ErrorCodes
        /\ errors \in Seq((0..MaxBatch) \X ErrorCodes)
    BY <1>5 DEF NextError, TypeOK
  <2>2. errors' = Append(errors, <<idx, Current>>) /\ idx' = idx + 1
        /\ UNCHANGED <<pc, reply, result>>
    BY <1>5 DEF NextError
  <2>3. <<idx, Current>> \in (0..MaxBatch) \X ErrorCodes
    BY <2>1
  <2>4. errors' \in Seq((0..MaxBatch) \X ErrorCodes)
        /\ Len(errors') = Len(errors) + 1
        /\ (\A i \in 1..Len(errors) : errors'[i] = errors[i])
        /\ errors'[Len(errors) + 1] = <<idx, Current>>
    BY <2>1, <2>2, <2>3, AppendProperties
  <2>5. TypeOK'
    <3>1. idx' \in 0..MaxBatch
      <4>1. idx \in Nat /\ Len(reply.details) \in 0..MaxBatch
            /\ idx < Len(reply.details) /\ idx' = idx + 1
        BY <1>a, <2>1, <2>2
      <4>. QED
        BY <4>1, MaxBatchAssumption
    <3>2. pc' \in {"call", "init", "decode", "done"}
          /\ reply' \in Replies \cup {NoReply} /\ result' \in Results
      BY <2>2 DEF TypeOK
    <3>. QED
      BY <3>1, <3>2, <2>4 DEF TypeOK
  <2>6. ErrorsReportTheirItems'
    <3> SUFFICES ASSUME NEW i \in 1..Len(errors')
                 PROVE  /\ errors'[i][1] < idx'
                        /\ reply'.details[errors'[i][1] + 1] = errors'[i][2]
                        /\ \A j \in 1..(i - 1) : errors'[j][1] < errors'[i][1]
      BY DEF ErrorsReportTheirItems
    <3>0. Len(errors) \in Nat
      BY <2>1, LenProperties
    <3>1. CASE i = Len(errors) + 1
      <4>1. errors'[i] = <<idx, Current>>
        BY <3>1, <2>4
      <4>2. \A j \in 1..(i - 1) : errors'[j][1] < idx
        BY <3>0, <3>1, <2>4 DEF ErrorsReportTheirItems
      <4>. QED
        BY <4>1, <4>2, <2>1, <2>2 DEF Current
    <3>2. CASE i \in 1..Len(errors)
      <4>1. /\ errors'[i] = errors[i]
            /\ \A j \in 1..(i - 1) : errors'[j] = errors[j]
        <5>1. errors'[i] = errors[i]
          BY <3>2, <2>4
        <5>2. ASSUME NEW j \in 1..(i - 1) PROVE errors'[j] = errors[j]
          <6>1. j \in 1..Len(errors)
            BY <3>0, <3>2
          <6>. QED
            BY <6>1, <2>4
        <5>. QED
          BY <5>1, <5>2
      <4>2. /\ errors[i][1] < idx
            /\ reply.details[errors[i][1] + 1] = errors[i][2]
            /\ \A j \in 1..(i - 1) : errors[j][1] < errors[i][1]
        BY <3>2 DEF ErrorsReportTheirItems
      <4>3. errors[i][1] \in 0..MaxBatch
        BY <3>2, <2>1
      <4>. QED
        BY <4>1, <4>2, <4>3, <2>1, <2>2
    <3>. QED
      BY <3>0, <3>1, <3>2, <2>4
  <2>7. pc' = "call" => errors' = << >>
    BY <1>5, <2>2 DEF NextError
  <2>. QED
    BY <2>5, <2>6, <2>7
<1>6. CASE NextStop
  BY <1>6 DEF NextStop, TypeOK, Results, ErrorsReportTheirItems
<1>7. CASE Returned
  BY <1>7 DEF Returned, vars, TypeOK, ErrorsReportTheirItems
<1>8. CASE UNCHANGED vars
  BY <1>8 DEF vars, TypeOK, ErrorsReportTheirItems
<1>. QED
  BY <1>1, <1>2, <1>3, <1>4, <1>5, <1>6, <1>7, <1>8 DEF Next

---------------------------------------------------------------------------
(* The outcome.  While __next__ runs, every item passed is a failure       *)
(* (an OK item stops idx for good, an undecodable one ends the call) and   *)
(* errors lists them all, each at its position.                            *)

\* Every one of the first n details reports a failure.
AllFailed(n) == \A i \in 1..n : reply.details[i] \in ErrorCodes

\* errors lists the first idx details, each with its 0-based index.
ErrorsPrefix ==
    /\ Len(errors) = idx
    /\ \A i \in 1..idx : errors[i] = <<i - 1, reply.details[i]>>

OInv ==
    /\ IInv
    /\ pc # "call" => reply \in Replies
    /\ pc \in {"call", "init", "decode"} => ErrorsPrefix
    /\ pc = "call" => idx = 0
    /\ pc = "init" => reply.grpc = "UNKNOWN" /\ idx = 0
    /\ pc = "decode" =>
          /\ reply.grpc = "UNKNOWN" /\ reply.bin /\ reply.details # << >>
          /\ idx <= Len(reply.details)
          /\ AllFailed(idx)
    /\ pc = "done" =>
          /\ result = ExpectedResult(reply)
          /\ result = "write_error" =>
                idx = Len(reply.details) /\ AllFailed(idx) /\ ErrorsPrefix

\* When every item reports a failure, the reference lists them all, the
\* k-th at index k - 1.
LEMMA ExpectedErrorsAllFailed ==
    ASSUME NEW d \in Seq(Items), \A i \in 1..Len(d) : d[i] \in ErrorCodes
    PROVE  ExpectedErrors(d) = [k \in 1..Len(d) |-> <<k - 1, d[k]>>]
<1> DEFINE n == Len(d)
<1>1. n \in Nat
  BY LenProperties
<1>2. FailedPositions(d) = 1..n
  BY DEF FailedPositions
<1>0. ASSUME NEW m \in Nat PROVE Cardinality(1..m) = m
  <2>1. Cardinality(1..m) = IF 1 > m THEN 0 ELSE m - 1 + 1
    BY FS_Interval
  <2>. QED
    BY <2>1
<1>3. Cardinality(FailedPositions(d)) = n
  BY <1>0, <1>1, <1>2
<1>4. ASSUME NEW k \in 1..n PROVE FailedPos(d, k) = k
  <2>1. ASSUME NEW i \in 1..n PROVE Cardinality({j \in 1..n : j <= i}) = i
    <3>1. {j \in 1..n : j <= i} = 1..i
      BY <1>1
    <3>2. Cardinality(1..i) = i
      BY <1>0
    <3>. QED
      BY <3>1, <3>2, Zenon
  <2>2. \A i \in 1..n : (Cardinality({j \in 1..n : j <= i}) = k) <=> (i = k)
    BY <2>1
  <2>. QED
    BY <2>2, <1>2 DEF FailedPos
<1>. QED
  BY <1>3, <1>4 DEF ExpectedErrors

LEMMA OInvInit == Init => OInv
<1> SUFFICES ASSUME Init PROVE OInv
  OBVIOUS
<1>1. IInv
  BY IInvInit
<1>2. ErrorsPrefix
  BY EmptySeq DEF Init, ErrorsPrefix
<1>. QED
  BY <1>1, <1>2 DEF Init, OInv

LEMMA OInvStep == OInv /\ [Next]_vars => OInv'
<1> SUFFICES ASSUME OInv, [Next]_vars PROVE OInv'
  OBVIOUS
<1>0. IInv'
  BY IInvStep DEF OInv
<1>a. /\ reply.details \in Seq(Items)
      /\ Len(reply.details) \in 0..MaxBatch
      /\ errors \in Seq((0..MaxBatch) \X ErrorCodes)
      /\ idx \in 0..MaxBatch
  BY ReplyDetails DEF OInv, IInv, TypeOK
<1>1. CASE Write
  <2>1. PICK r \in Replies :
           /\ reply' = r
           /\ IF r.grpc = "OK"
                 THEN /\ result' = "success"
                      /\ pc' = "done"
              ELSE IF r.grpc # "UNKNOWN"
                 THEN /\ result' = "transport_error"
                      /\ pc' = "done"
              ELSE /\ pc' = "init"
                   /\ UNCHANGED result
    BY <1>1 DEF Write
  <2>2. pc = "call" /\ idx = 0 /\ UNCHANGED <<idx, errors>> /\ ErrorsPrefix
    BY <1>1 DEF Write, OInv
  <2>3. CASE r.grpc = "OK"
    <3>1. pc' = "done" /\ result' = "success"
      BY <2>1, <2>3, Zenon
    <3>. QED
      BY <1>0, <2>1, <2>3, <3>1 DEF OInv, ExpectedResult
  <2>4. CASE r.grpc # "OK" /\ r.grpc # "UNKNOWN"
    <3>1. pc' = "done" /\ result' = "transport_error"
      BY <2>1, <2>4, Zenon
    <3>. QED
      BY <1>0, <2>1, <2>4, <3>1 DEF OInv, ExpectedResult
  <2>5. CASE r.grpc = "UNKNOWN"
    <3>1. pc' = "init"
      BY <2>1, <2>5, Zenon
    <3>2. ErrorsPrefix'
      BY <2>2 DEF ErrorsPrefix
    <3>. QED
      BY <1>0, <2>1, <2>2, <2>5, <3>1, <3>2 DEF OInv
  <2>. QED
    BY <2>3, <2>4, <2>5
<1>2. CASE IteratorInit
  <2>1. pc = "init" /\ reply.grpc = "UNKNOWN" /\ idx = 0 /\ ErrorsPrefix
        /\ UNCHANGED <<reply, idx, errors>>
    BY <1>2 DEF IteratorInit, OInv
  <2>2. CASE ~reply.bin \/ reply.details = << >>
    <3>1. pc' = "done" /\ result' = "format_error"
      BY <1>2, <2>2 DEF IteratorInit
    <3>. QED
      BY <1>0, <2>1, <2>2, <3>1 DEF OInv, ExpectedResult
  <2>3. CASE reply.bin /\ reply.details # << >>
    <3>1. pc' = "decode"
      BY <1>2, <2>3 DEF IteratorInit
    <3>2. ErrorsPrefix' /\ AllFailed(idx)'
      BY <2>1 DEF ErrorsPrefix, AllFailed
    <3>3. idx' <= Len(reply'.details)
      BY <2>1, <1>a
    <3>. QED
      BY <1>0, <2>1, <2>3, <3>1, <3>2, <3>3 DEF OInv
  <2>. QED
    BY <2>2, <2>3
<1>3. CASE NextUndecodable
  <2>1. /\ pc = "decode" /\ idx < Len(reply.details) /\ Current = Undecodable
        /\ pc' = "done" /\ result' = "format_error"
        /\ UNCHANGED <<reply, idx, errors>>
    BY <1>3 DEF NextUndecodable
  <2>2. reply.grpc = "UNKNOWN" /\ reply.bin /\ reply.details # << >>
    BY <2>1 DEF OInv
  <2>3. \E i \in 1..Len(reply.details) : reply.details[i] = Undecodable
    BY <2>1, <1>a DEF Current
  <2>4. ExpectedResult(reply) = "format_error"
    BY <2>2, <2>3 DEF ExpectedResult
  <2>. QED
    BY <1>0, <2>1, <2>4 DEF OInv
<1>4. CASE NextSkipOk
  BY <1>0, <1>4 DEF NextSkipOk, vars, OInv, AllFailed, ErrorsPrefix
<1>5. CASE NextError
  <2>1. /\ pc = "decode" /\ idx < Len(reply.details) /\ Current \in ErrorCodes
        /\ errors' = Append(errors, <<idx, Current>>) /\ idx' = idx + 1
        /\ UNCHANGED <<pc, reply, result>>
    BY <1>5 DEF NextError
  <2>2. /\ reply.grpc = "UNKNOWN" /\ reply.bin /\ reply.details # << >>
        /\ AllFailed(idx) /\ ErrorsPrefix
    BY <2>1 DEF OInv
  <2>3. AllFailed(idx)'
    BY <2>1, <2>2, <1>a DEF AllFailed, Current
  <2>4. /\ Len(errors') = Len(errors) + 1
        /\ (\A i \in 1..Len(errors) : errors'[i] = errors[i])
        /\ errors'[Len(errors) + 1] = <<idx, Current>>
    BY <2>1, <1>a, AppendProperties
  <2>5. ErrorsPrefix'
    <3>1. Len(errors') = idx'
      BY <2>1, <2>2, <2>4 DEF ErrorsPrefix
    <3>2. ASSUME NEW i \in 1..idx'
          PROVE  errors'[i] = <<i - 1, reply'.details[i]>>
      <4>1. CASE i = idx + 1
        <5>1. Len(errors) = idx
          BY <2>2 DEF ErrorsPrefix
        <5>2. errors'[i] = <<idx, Current>>
          BY <4>1, <5>1, <2>4
        <5>. QED
          BY <4>1, <5>2, <2>1, <1>a DEF Current
      <4>2. CASE i \in 1..idx
        <5>1. Len(errors) = idx /\ errors[i] = <<i - 1, reply.details[i]>>
          BY <4>2, <2>2 DEF ErrorsPrefix
        <5>2. errors'[i] = errors[i]
          BY <4>2, <5>1, <2>4
        <5>. QED
          BY <5>1, <5>2, <2>1
      <4>3. i = idx + 1 \/ i \in 1..idx
        BY <2>1, <1>a
      <4>. QED
        BY <4>1, <4>2, <4>3, Zenon
    <3>. QED
      BY <3>1, <3>2 DEF ErrorsPrefix
  <2>6. idx' <= Len(reply'.details)
    BY <2>1, <1>a
  <2>. QED
    BY <1>0, <2>1, <2>2, <2>3, <2>5, <2>6 DEF OInv
<1>6. CASE NextStop
  <2>1. /\ pc = "decode" /\ idx >= Len(reply.details)
        /\ pc' = "done" /\ result' = "write_error"
        /\ UNCHANGED <<reply, idx, errors>>
    BY <1>6 DEF NextStop
  <2>2. /\ reply.grpc = "UNKNOWN" /\ reply.bin /\ reply.details # << >>
        /\ idx <= Len(reply.details) /\ AllFailed(idx) /\ ErrorsPrefix
    BY <2>1 DEF OInv
  <2>3. idx = Len(reply.details)
    BY <2>1, <2>2, <1>a
  <2>4. ~\E i \in 1..Len(reply.details) : reply.details[i] = Undecodable
    BY <2>2, <2>3 DEF AllFailed, ErrorCodes, Undecodable
  <2>5. ExpectedResult(reply) = "write_error"
    BY <2>2, <2>4 DEF ExpectedResult
  <2>6. (AllFailed(idx) /\ ErrorsPrefix)'
    BY <2>1, <2>2 DEF AllFailed, ErrorsPrefix
  <2>. QED
    BY <1>0, <2>1, <2>3, <2>5, <2>6 DEF OInv
<1>7. CASE Returned
  BY <1>0, <1>7 DEF Returned, vars, OInv, AllFailed, ErrorsPrefix
<1>8. CASE UNCHANGED vars
  BY <1>0, <1>8 DEF vars, OInv, AllFailed, ErrorsPrefix
<1>. QED
  BY <1>1, <1>2, <1>3, <1>4, <1>5, <1>6, <1>7, <1>8 DEF Next

\* Type correctness of the Write and error-decoding state machine.
THEOREM TypeCorrect == Spec => []TypeOK
<1>1. IInv => TypeOK
  BY DEF IInv
<1>. QED
  BY <1>1, IInvInit, IInvStep, PTL DEF Spec

\* A list that holds every item of d, each at its index, is the reference
\* list of d when every item of d reports a failure.
LEMMA ErrorsMatchExpected ==
    ASSUME NEW d \in Seq(Items), NEW e \in Seq((0..MaxBatch) \X ErrorCodes),
           Len(e) = Len(d),
           \A i \in 1..Len(d) : d[i] \in ErrorCodes /\ e[i] = <<i - 1, d[i]>>
    PROVE  e = ExpectedErrors(d)
<1>1. ExpectedErrors(d) = [k \in 1..Len(d) |-> <<k - 1, d[k]>>]
  BY ExpectedErrorsAllFailed
<1>2. e \in [1..Len(e) -> (0..MaxBatch) \X ErrorCodes]
  BY LenProperties
<1>. QED
  BY <1>1, <1>2

\* The strengthening gives the property.
LEMMA OInvOutcome == OInv => OutcomeMatchesReply
<1> SUFFICES ASSUME OInv, pc = "done"
             PROVE  /\ result = ExpectedResult(reply)
                    /\ result = "write_error" =>
                          errors = ExpectedErrors(reply.details)
  BY DEF OutcomeMatchesReply
<1>1. result = ExpectedResult(reply)
  BY DEF OInv
<1>2. ASSUME result = "write_error"
      PROVE  errors = ExpectedErrors(reply.details)
  <2>1. idx = Len(reply.details) /\ AllFailed(idx) /\ ErrorsPrefix
    BY <1>2 DEF OInv
  <2>2. reply.details \in Seq(Items)
        /\ errors \in Seq((0..MaxBatch) \X ErrorCodes)
    BY ReplyDetails DEF OInv, IInv, TypeOK
  <2>. QED
    BY <2>1, <2>2, ErrorsMatchExpected DEF AllFailed, ErrorsPrefix
<1>. QED
  BY <1>1, <1>2

\* When write / write_update returns or raises, the outcome is the one the
\* reply calls for, and a P4RuntimeWriteException lists exactly the failed
\* updates with their original indices, in request order, for every bound
\* on the batch.
THEOREM OutcomeSound == Spec => []OutcomeMatchesReply
BY OInvOutcome, OInvInit, OInvStep, PTL DEF Spec

=============================================================================
