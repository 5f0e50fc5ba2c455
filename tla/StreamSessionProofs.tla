------------------------- MODULE StreamSessionProofs -------------------------
(***************************************************************************)
(* Proofs about StreamSession, for every value of MaxPackets: the type    *)
(* invariant, and that handshake's master/slave role always agrees with  *)
(* the device's arbitration decision.                                      *)
(***************************************************************************)
EXTENDS StreamSession, SequenceTheorems, TLAPS

\* The arbitration request is still on its way: in stream_out_q or on the
\* wire to the device.
ReqPending ==
    \/ \E i \in 1..Len(outQ) : outQ[i] = ArbReq
    \/ toDevice # << >>

\* handshake sends a single arbitration request: it sits at the head of
\* stream_out_q or alone on the wire, never both.
ReqOnce ==
    /\ \A i \in 1..Len(outQ) : outQ[i] = ArbReq => i = 1
    /\ Len(toDevice) <= 1
    /\ toDevice # << >> => \A i \in 1..Len(outQ) : outQ[i] # ArbReq

\* Every arbitration message in queue q carries decision g.
Carries(q, g) ==
    \A i \in 1..Len(q) : q[i].tag = "arbitration" => q[i].code = g

NoArb(q) == \A i \in 1..Len(q) : q[i].tag # "arbitration"

\* Before Open nothing has happened: no queue holds anything, no call,
\* thread or channel exists and the device has decided nothing.
StartFacts ==
    pc = "start" =>
        /\ outQ = << >> /\ inQ = << >> /\ toDevice = << >> /\ toClient = << >>
        /\ stream = "none" /\ recv = "none" /\ channel = "none"
        /\ grant = "none" /\ role = "none" /\ ~halfClosed

\* tear_down closes the channel only after join returned.
ChannelClosedAfterReceiver ==
    channel = "closed" => recv = "done"

\* The inductive invariant behind the refinement: the channel is open
\* during the handshake, and once closed it stays closed with the
\* receiver finished.
LInv ==
    /\ TypeOK
    /\ StartFacts
    /\ pc = "handshake" => channel = "open"
    /\ ChannelClosedAfterReceiver

\* The inductive strengthening of RoleMatchesGrant: until the device has
\* decided, no arbitration answer exists anywhere; once it has, every
\* answer on the wire and in stream_in_q carries that decision.
IInv ==
    /\ LInv
    /\ ReqOnce
    /\ ReqPending => grant = "none"
    /\ grant = "none" => NoArb(toClient) /\ NoArb(inQ) /\ role = "none"
    /\ Carries(toClient, grant)
    /\ Carries(inQ, grant)
    /\ RoleMatchesGrant

---------------------------------------------------------------------------

\* A step of Next preserves the types of the variables.
LEMMA TypeStep == TypeOK /\ [Next]_vars => TypeOK'
<1> SUFFICES ASSUME TypeOK, [Next]_vars PROVE TypeOK'
  OBVIOUS
<1> USE DEF TypeOK
<1>1. CASE ResolveFails BY <1>1 DEF ResolveFails, PCs
<1>2. CASE Open BY <1>2 DEF Open, PCs
<1>3. CASE WaitSentinel BY <1>3 DEF WaitSentinel, PCs
<1>4. CASE WaitDiscard BY <1>4 DEF WaitDiscard
<1>5. CASE WaitArbitration BY <1>5 DEF WaitArbitration, PCs
<1>6. CASE WaitTimeout BY <1>6 DEF WaitTimeout, PCs
<1>7. CASE Command BY <1>7 DEF Command, PCs
<1>8. CASE TearDown BY <1>8 DEF TearDown, PCs
<1>9. CASE Exit BY <1>9 DEF Exit, PCs
<1>10. CASE SendRequest
  <2>1. outQ # << >> /\ Tail(outQ) \in Seq({ArbReq, OutNone})
    BY <1>10, HeadTailProperties DEF SendRequest
  <2>2. CASE Head(outQ) = OutNone
    BY <1>10, <2>1, <2>2 DEF SendRequest
  <2>3. CASE Head(outQ) # OutNone
    <3>1. Head(outQ) = ArbReq
      BY <2>1, <2>3, HeadTailProperties
    <3>2. toDevice' = Append(toDevice, ArbReq) /\ outQ' = Tail(outQ)
      BY <1>10, <2>3, <3>1 DEF SendRequest
    <3>3. toDevice' \in Seq({ArbReq})
      BY <3>2, AppendProperties
    <3>4. QED
      BY <1>10, <2>1, <2>3, <3>2, <3>3 DEF SendRequest
  <2>4. QED
    BY <2>2, <2>3
<1>11. CASE RecvMessage BY <1>11 DEF RecvMessage
<1>12. CASE RecvEnd BY <1>12 DEF RecvEnd
<1>13. CASE RecvError BY <1>13 DEF RecvError
<1>14. CASE DeviceArbitrate BY <1>14 DEF DeviceArbitrate, Msg
<1>15. CASE DevicePacket BY <1>15, MaxPacketsAssumption DEF DevicePacket, Msg
<1>16. CASE DeviceFinish BY <1>16 DEF DeviceFinish
<1>17. CASE DeviceFail BY <1>17 DEF DeviceFail
<1>18. CASE Terminated BY <1>18 DEF Terminated, vars
<1>19. CASE UNCHANGED vars BY <1>19 DEF vars
<1>20. QED
  BY <1>1, <1>2, <1>3, <1>4, <1>5, <1>6, <1>7, <1>8, <1>9, <1>10, <1>11,
     <1>12, <1>13, <1>14, <1>15, <1>16, <1>17, <1>18, <1>19 DEF Next

\* The initial state is well typed.
LEMMA TypeInit == Init => TypeOK
<1> SUFFICES ASSUME Init PROVE TypeOK
  OBVIOUS
<1>1. /\ outQ \in Seq({ArbReq, OutNone})
      /\ inQ \in Seq(Msg \cup {None})
      /\ toDevice \in Seq({ArbReq})
      /\ toClient \in Seq(Msg)
  BY EmptySeq DEF Init
<1>2. sent \in 0..MaxPackets
  BY MaxPacketsAssumption DEF Init
<1>3. QED
  BY <1>1, <1>2 DEF Init, TypeOK, PCs, Codes

\* Every variable keeps its type: the queues hold only the messages and
\* sentinels the code puts on them, and the device sends at most
\* MaxPackets unsolicited messages.
THEOREM TypeCorrect == Spec => []TypeOK
BY TypeInit, TypeStep, PTL DEF Spec

---------------------------------------------------------------------------
(* Queue lemmas: dequeuing keeps what held of every element, and          *)
(* enqueuing keeps it when the new element satisfies it.                   *)

LEMMA CarriesTail ==
    ASSUME NEW S, NEW q \in Seq(S), q # << >>, NEW g,
           Carries(q, g)
    PROVE  Carries(Tail(q), g)
BY HeadTailProperties DEF Carries

LEMMA CarriesAppend ==
    ASSUME NEW S, NEW q \in Seq(S), NEW m \in S, NEW g,
           Carries(q, g), m.tag = "arbitration" => m.code = g
    PROVE  Carries(Append(q, m), g)
BY AppendProperties DEF Carries

LEMMA NoArbTail ==
    ASSUME NEW S, NEW q \in Seq(S), q # << >>, NoArb(q)
    PROVE  NoArb(Tail(q))
BY HeadTailProperties DEF NoArb

LEMMA NoArbAppend ==
    ASSUME NEW S, NEW q \in Seq(S), NEW m \in S, NoArb(q),
           m.tag # "arbitration"
    PROVE  NoArb(Append(q, m))
BY AppendProperties DEF NoArb

\* With no arbitration message anywhere, every one carries any decision.
LEMMA NoArbCarries ==
    ASSUME NEW q, NEW g, NoArb(q)
    PROVE  Carries(q, g)
BY DEF NoArb, Carries

---------------------------------------------------------------------------

LEMMA LInvInit == Init => LInv
BY TypeInit DEF Init, LInv, StartFacts, ChannelClosedAfterReceiver

\* Every step keeps the lifecycle facts.  Before Open the threads and the
\* device cannot move (no call, no receiver); the channel is opened with
\* the handshake and closed only by tear_down after join.
LEMMA LInvStep == LInv /\ [Next]_vars => LInv'
<1> SUFFICES ASSUME LInv, [Next]_vars PROVE LInv'
  OBVIOUS
<1>0. TypeOK'
  BY TypeStep DEF LInv
<1> DEFINE Facts == StartFacts /\ (pc = "handshake" => channel = "open")
                    /\ ChannelClosedAfterReceiver
<1>a. Facts
  BY DEF LInv
<1> USE DEF StartFacts, ChannelClosedAfterReceiver
<1>1. CASE ResolveFails BY <1>0, <1>1, <1>a DEF ResolveFails, LInv
<1>2. CASE Open BY <1>0, <1>2, <1>a DEF Open, LInv
<1>3. CASE WaitSentinel BY <1>0, <1>3, <1>a DEF WaitSentinel, LInv
<1>4. CASE WaitDiscard BY <1>0, <1>4, <1>a DEF WaitDiscard, LInv
<1>5. CASE WaitArbitration BY <1>0, <1>5, <1>a DEF WaitArbitration, LInv
<1>6. CASE WaitTimeout BY <1>0, <1>6, <1>a DEF WaitTimeout, LInv
<1>7. CASE Command BY <1>0, <1>7, <1>a DEF Command, LInv
<1>8. CASE TearDown BY <1>0, <1>8, <1>a DEF TearDown, LInv
<1>9. CASE Exit BY <1>0, <1>9, <1>a DEF Exit, LInv
<1>10. CASE SendRequest BY <1>0, <1>10, <1>a DEF SendRequest, LInv
<1>11. CASE RecvMessage BY <1>0, <1>11, <1>a DEF RecvMessage, LInv
<1>12. CASE RecvEnd BY <1>0, <1>12, <1>a DEF RecvEnd, LInv
<1>13. CASE RecvError BY <1>0, <1>13, <1>a DEF RecvError, LInv
<1>14. CASE DeviceArbitrate BY <1>0, <1>14, <1>a DEF DeviceArbitrate, LInv
<1>15. CASE DevicePacket BY <1>0, <1>15, <1>a DEF DevicePacket, LInv
<1>16. CASE DeviceFinish BY <1>0, <1>16, <1>a DEF DeviceFinish, LInv
<1>17. CASE DeviceFail BY <1>0, <1>17, <1>a DEF DeviceFail, LInv
<1>18. CASE Terminated BY <1>0, <1>18, <1>a DEF Terminated, vars, LInv
<1>19. CASE UNCHANGED vars BY <1>0, <1>19, <1>a DEF vars, LInv
<1>20. QED
  BY <1>1, <1>2, <1>3, <1>4, <1>5, <1>6, <1>7, <1>8, <1>9, <1>10, <1>11,
     <1>12, <1>13, <1>14, <1>15, <1>16, <1>17, <1>18, <1>19 DEF Next

---------------------------------------------------------------------------
(* The refinement of SessionLifecycle, its safety part: the initial state *)
(* maps to Disconnected, and every step maps to a lifecycle transition or *)
(* a stutter.  Its fairness part is checked by TLC.                       *)

LifecycleSafety == Lifecycle!Init /\ [][Lifecycle!Next]_Lifecycle!vars

LEMMA LifecycleInit == Init => Lifecycle!Init
BY DEF Init, SessionState, Lifecycle!Init

LEMMA LifecycleStep == LInv /\ [Next]_vars => [Lifecycle!Next]_Lifecycle!vars
<1> SUFFICES ASSUME LInv, [Next]_vars PROVE [Lifecycle!Next]_Lifecycle!vars
  OBVIOUS
<1> USE DEF LInv, TypeOK, PCs
<1> DEFINE Same == UNCHANGED Lifecycle!vars
<1>1. CASE ResolveFails
  BY <1>1 DEF ResolveFails, StartFacts, SessionState, Lifecycle!vars
<1>2. CASE Open
  <2>1. SessionState = "Disconnected"
    BY <1>2 DEF Open, SessionState
  <2>2. SessionState' = "Arbitrating"
    BY <1>2 DEF Open, SessionState
  <2>3. Lifecycle!Connect
    BY <1>2, <2>1, <2>2 DEF Open, Lifecycle!Connect
  <2>4. QED BY <2>3 DEF Lifecycle!Next
<1>3. CASE WaitSentinel
  <2>1. Lifecycle!Abort BY <1>3 DEF WaitSentinel, SessionState, Lifecycle!Abort
  <2>2. QED BY <2>1 DEF Lifecycle!Next
<1>4. CASE WaitDiscard
  BY <1>4 DEF WaitDiscard, SessionState, Lifecycle!vars
<1>5. CASE WaitArbitration
  <2>1. Lifecycle!Establish
    BY <1>5 DEF WaitArbitration, SessionState, Lifecycle!Establish
  <2>2. QED BY <2>1 DEF Lifecycle!Next
<1>6. CASE WaitTimeout
  <2>1. Lifecycle!Abort BY <1>6 DEF WaitTimeout, SessionState, Lifecycle!Abort
  <2>2. QED BY <2>1 DEF Lifecycle!Next
<1>7. CASE Command
  <2>1. Lifecycle!BeginClose BY <1>7 DEF Command, SessionState, Lifecycle!BeginClose
  <2>2. QED BY <2>1 DEF Lifecycle!Next
<1>8. CASE TearDown
  <2>1. Lifecycle!FinishClose
    BY <1>8 DEF TearDown, SessionState, Lifecycle!FinishClose
  <2>2. QED BY <2>1 DEF Lifecycle!Next
<1>9. CASE Exit
  BY <1>9 DEF Exit, SessionState, Lifecycle!vars
<1>10. CASE SendRequest BY <1>10 DEF SendRequest, SessionState, Lifecycle!vars
<1>11. CASE RecvMessage BY <1>11 DEF RecvMessage, SessionState, Lifecycle!vars
<1>12. CASE RecvEnd BY <1>12 DEF RecvEnd, SessionState, Lifecycle!vars
<1>13. CASE RecvError BY <1>13 DEF RecvError, SessionState, Lifecycle!vars
<1>14. CASE DeviceArbitrate
  BY <1>14 DEF DeviceArbitrate, SessionState, Lifecycle!vars
<1>15. CASE DevicePacket BY <1>15 DEF DevicePacket, SessionState, Lifecycle!vars
<1>16. CASE DeviceFinish BY <1>16 DEF DeviceFinish, SessionState, Lifecycle!vars
<1>17. CASE DeviceFail BY <1>17 DEF DeviceFail, SessionState, Lifecycle!vars
<1>18. CASE Terminated BY <1>18 DEF Terminated, vars, SessionState, Lifecycle!vars
<1>19. CASE UNCHANGED vars BY <1>19 DEF vars, SessionState, Lifecycle!vars
<1>20. QED
  BY <1>1, <1>2, <1>3, <1>4, <1>5, <1>6, <1>7, <1>8, <1>9, <1>10, <1>11,
     <1>12, <1>13, <1>14, <1>15, <1>16, <1>17, <1>18, <1>19 DEF Next

\* The client implements the lifecycle of spec 4.3: it starts
\* Disconnected, and each step of with_client, the handshake, tear_down,
\* the threads and the device is a lifecycle transition (the role set once,
\* by the arbitration) or leaves the lifecycle state and role unchanged.
THEOREM SessionImplementsLifecycle == Spec => LifecycleSafety
<1>1. Spec => []LInv
  BY LInvInit, LInvStep, PTL DEF Spec
<1>2. QED
  BY <1>1, LifecycleInit, LifecycleStep, PTL DEF Spec, LifecycleSafety

---------------------------------------------------------------------------

LEMMA IInvInit == Init => IInv
BY LInvInit, EmptySeq
   DEF Init, IInv, ReqOnce, ReqPending, NoArb, Carries, RoleMatchesGrant

LEMMA IInvStep == IInv /\ [Next]_vars => IInv'
<1> SUFFICES ASSUME IInv, [Next]_vars PROVE IInv'
  OBVIOUS
<1>0. LInv' /\ TypeOK'
  BY LInvStep DEF IInv, LInv
<1> USE DEF IInv, LInv, TypeOK
<1>1. CASE ResolveFails
  BY <1>0, <1>1 DEF ResolveFails, ReqOnce, ReqPending, NoArb, Carries, RoleMatchesGrant
<1>2. CASE Open
  <2>1. ReqOnce' /\ ReqPending'
    BY <1>2 DEF Open, StartFacts, ReqOnce, ReqPending
  <2>2. grant = "none" /\ toClient = << >> /\ inQ = << >>
    \* nothing has been sent or received before the stream is open
    BY <1>2 DEF Open, StartFacts
  <2>3. QED
    BY <1>0, <1>2, <2>1, <2>2 DEF Open, NoArb, Carries, RoleMatchesGrant
<1>3. CASE WaitSentinel
  BY <1>0, <1>3, CarriesTail, NoArbTail
     DEF WaitSentinel, ReqOnce, ReqPending, RoleMatchesGrant
<1>4. CASE WaitDiscard
  BY <1>0, <1>4, CarriesTail, NoArbTail
     DEF WaitDiscard, ReqOnce, ReqPending, RoleMatchesGrant
<1>5. CASE WaitArbitration
  <2>1. inQ # << >> /\ inQ[1].tag = "arbitration" /\ 1 \in 1..Len(inQ)
    BY <1>5 DEF WaitArbitration
  <2>2. inQ[1].code = grant
    BY <2>1 DEF Carries
  <2>3. grant # "none"
    BY <2>1 DEF NoArb
  <2>4. Head(inQ).code = grant /\ grant # "none"
    BY <2>1, <2>2, <2>3
  <2>5. RoleMatchesGrant'
    BY <1>5, <2>4 DEF WaitArbitration, RoleMatchesGrant
  <2>6. QED
    BY <1>0, <1>5, <2>4, <2>5, CarriesTail
       DEF WaitArbitration, ReqOnce, ReqPending
<1>6. CASE WaitTimeout
  BY <1>0, <1>6 DEF WaitTimeout, ReqOnce, ReqPending, NoArb, Carries, RoleMatchesGrant
<1>7. CASE Command
  <2>1. /\ outQ' = Append(outQ, OutNone) /\ UNCHANGED toDevice
        /\ Len(outQ') = Len(outQ) + 1
    BY <1>7, AppendProperties DEF Command
  <2>2. \A i \in 1..Len(outQ') : outQ'[i] = ArbReq <=> (i <= Len(outQ) /\ outQ[i] = ArbReq)
    BY <2>1, AppendProperties DEF ArbReq, OutNone
  <2>3. ReqOnce'
    BY <2>1, <2>2 DEF ReqOnce
  <2>4. ReqPending' <=> ReqPending
    BY <2>1, <2>2 DEF ReqPending
  <2>5. QED
    BY <1>0, <1>7, <2>3, <2>4 DEF Command, NoArb, Carries, RoleMatchesGrant
<1>8. CASE TearDown
  BY <1>0, <1>8 DEF TearDown, ReqOnce, ReqPending, NoArb, Carries, RoleMatchesGrant
<1>9. CASE Exit
  BY <1>0, <1>9 DEF Exit, ReqOnce, ReqPending, NoArb, Carries, RoleMatchesGrant
<1>10. CASE SendRequest
  <2>1. /\ outQ # << >> /\ outQ' = Tail(outQ)
        /\ Len(outQ') = Len(outQ) - 1
        /\ \A i \in 1..Len(outQ') : outQ'[i] = outQ[i + 1]
    BY <1>10, HeadTailProperties DEF SendRequest
  <2>2. \A i \in 1..Len(outQ') : outQ'[i] # ArbReq
    BY <2>1 DEF ReqOnce
  <2>3. ASSUME Head(outQ) = OutNone
        PROVE  ReqOnce' /\ (ReqPending' <=> ReqPending)
    <3>1. toDevice' = toDevice /\ outQ[1] # ArbReq
      BY <1>10, <2>1, <2>3, HeadTailProperties DEF SendRequest, ArbReq, OutNone
    <3>2. ReqPending <=> toDevice # << >>
      BY <2>1, <3>1 DEF ReqOnce, ReqPending
    <3>3. ReqOnce'
      BY <2>2, <3>1 DEF ReqOnce
    <3>4. ReqPending' <=> toDevice # << >>
      BY <2>2, <3>1 DEF ReqPending
    <3>5. QED
      BY <3>2, <3>3, <3>4
  <2>4. ASSUME Head(outQ) # OutNone
        PROVE  ReqOnce' /\ (ReqPending' <=> ReqPending)
    <3>1. outQ[1] = ArbReq
      BY <2>1, <2>4, HeadTailProperties
    <3>2. toDevice = << >>
      BY <2>1, <3>1 DEF ReqOnce
    <3>3. toDevice' = << ArbReq >>
      BY <1>10, <2>4, <3>1, <3>2 DEF SendRequest
    <3>4. ReqOnce'
      BY <2>2, <3>3 DEF ReqOnce
    <3>5. ReqPending' /\ ReqPending
      BY <2>1, <3>1, <3>3 DEF ReqPending
    <3>6. QED
      BY <3>4, <3>5
  <2>5. ReqOnce' /\ (ReqPending' <=> ReqPending)
    BY <2>3, <2>4
  <2>6. QED
    BY <1>0, <1>10, <2>5 DEF SendRequest, NoArb, Carries, RoleMatchesGrant
<1>11. CASE RecvMessage
  <2>1. /\ toClient # << >> /\ toClient' = Tail(toClient)
        /\ inQ' = Append(inQ, Head(toClient)) /\ grant' = grant
    BY <1>11 DEF RecvMessage
  <2>2. Head(toClient) = toClient[1] /\ Head(toClient) \in Msg
        /\ 1 \in 1..Len(toClient)
    BY <2>1, HeadTailProperties
  <2>3. Carries(toClient', grant') /\ Carries(inQ', grant')
    <3>1. Head(toClient).tag = "arbitration" => Head(toClient).code = grant
      BY <2>2 DEF Carries
    <3>2. Carries(Tail(toClient), grant)
      BY <2>1, CarriesTail
    <3>3. Carries(Append(inQ, Head(toClient)), grant)
      BY <2>2, <3>1, CarriesAppend
    <3>4. QED
      BY <2>1, <3>2, <3>3
  <2>4. grant = "none" => NoArb(toClient') /\ NoArb(inQ')
    <3>1. HAVE grant = "none"
    <3>2. NoArb(toClient) /\ NoArb(inQ)
      BY <3>1
    <3>3. Head(toClient).tag # "arbitration"
      BY <2>2, <3>2 DEF NoArb
    <3>4. NoArb(Tail(toClient)) /\ NoArb(Append(inQ, Head(toClient)))
      BY <2>1, <2>2, <3>2, <3>3, NoArbTail, NoArbAppend
    <3>5. QED
      BY <2>1, <3>4
  <2>5. QED
    BY <1>0, <1>11, <2>3, <2>4 DEF RecvMessage, ReqOnce, ReqPending, RoleMatchesGrant
<1>12. CASE RecvEnd
  BY <1>0, <1>12 DEF RecvEnd, ReqOnce, ReqPending, NoArb, Carries, RoleMatchesGrant
<1>13. CASE RecvError
  <2>1. Carries(inQ', grant) /\ (grant = "none" => NoArb(inQ'))
    BY <1>13, CarriesAppend, NoArbAppend DEF RecvError, None
  <2>2. QED
    BY <1>0, <1>13, <2>1 DEF RecvError, ReqOnce, ReqPending, RoleMatchesGrant
<1>14. CASE DeviceArbitrate
  <2>1. PICK c \in Codes : grant' = c /\ toClient' = Append(toClient, ArbMsg(c))
    BY <1>14 DEF DeviceArbitrate
  <2>2. grant = "none" /\ role = "none" /\ NoArb(toClient) /\ NoArb(inQ)
    BY <1>14 DEF DeviceArbitrate, ReqPending
  <2>3. toDevice' = << >> /\ ~ReqPending'
    BY <1>14 DEF DeviceArbitrate, ReqOnce, ReqPending
  <2>4. Carries(toClient, c) /\ Carries(inQ, c)
    BY <2>2, NoArbCarries
  <2>5. ArbMsg(c) \in Msg /\ ArbMsg(c).code = c
    BY DEF ArbMsg, Msg
  <2>6. Carries(Append(toClient, ArbMsg(c)), c)
    BY <2>4, <2>5, CarriesAppend
  <2>7. Carries(toClient', grant') /\ Carries(inQ', grant')
    BY <1>14, <2>1, <2>4, <2>6 DEF DeviceArbitrate
  <2>8. QED
    BY <1>0, <1>14, <2>1, <2>2, <2>3, <2>7
       DEF DeviceArbitrate, ReqOnce, RoleMatchesGrant, Codes
<1>15. CASE DevicePacket
  <2>1. Packet \in Msg /\ Packet.tag # "arbitration"
    BY DEF Packet, Msg
  <2>2. toClient' = Append(toClient, Packet) /\ UNCHANGED <<inQ, grant, role>>
    BY <1>15 DEF DevicePacket
  <2>3. Carries(toClient', grant') /\ (grant = "none" => NoArb(toClient'))
    BY <2>1, <2>2, CarriesAppend, NoArbAppend
  <2>4. QED
    BY <1>0, <1>15, <2>2, <2>3 DEF DevicePacket, ReqOnce, ReqPending, RoleMatchesGrant
<1>16. CASE DeviceFinish
  BY <1>0, <1>16 DEF DeviceFinish, ReqOnce, ReqPending, NoArb, Carries, RoleMatchesGrant
<1>17. CASE DeviceFail
  BY <1>0, <1>17 DEF DeviceFail, ReqOnce, ReqPending, NoArb, Carries, RoleMatchesGrant
<1>18. CASE Terminated
  BY <1>0, <1>18 DEF Terminated, vars, ReqOnce, ReqPending, NoArb, Carries, RoleMatchesGrant
<1>19. CASE UNCHANGED vars
  BY <1>0, <1>19 DEF vars, ReqOnce, ReqPending, NoArb, Carries, RoleMatchesGrant
<1>20. QED
  BY <1>1, <1>2, <1>3, <1>4, <1>5, <1>6, <1>7, <1>8, <1>9, <1>10, <1>11,
     <1>12, <1>13, <1>14, <1>15, <1>16, <1>17, <1>18, <1>19 DEF Next

\* handshake reports the client as master exactly when the device granted
\* it mastership, whatever other stream messages, sentinels and timeouts
\* interleave with the arbitration exchange.
THEOREM RoleSound == Spec => []RoleMatchesGrant
<1>1. IInv => RoleMatchesGrant
  BY DEF IInv
<1>2. QED
  BY <1>1, IInvInit, IInvStep, PTL DEF Spec

=============================================================================
