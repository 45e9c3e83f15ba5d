----------------------- MODULE HandleRingbufferProofs -----------------------
(***************************************************************************)
(* Proofs about the host's ring-buffer pump, for every batch limit, ring   *)
(* capacity, inbound bound and enclave write budget allowed by             *)
(* RingbufferAssumption.                                                   *)
(***************************************************************************)
EXTENDS HandleRingbuffer, SequenceTheorems, TLAPS

LEMMA InitTypeOK == Init => TypeOK
  BY EmptySeq, RingbufferAssumption DEF Init, TypeOK, HostStates

LEMMA EnclaveWriteTypeOK ==
  ASSUME TypeOK, NEW m \in MessageKinds, EnclaveWrite(m)
  PROVE  TypeOK'
<1>1. outq' \in Seq(MessageKinds) /\ Len(outq') = Len(outq) + 1
  BY AppendProperties DEF EnclaveWrite, TypeOK
<1>2. budget' \in Nat \cup {Unbounded}
  BY RingbufferAssumption DEF EnclaveWrite, TypeOK
<1>. QED BY <1>1, <1>2, RingbufferAssumption DEF EnclaveWrite, TypeOK

(* read_n takes at most max_messages, and only messages already written.   *)
LEMMA ReadNTypeOK ==
  ASSUME TypeOK, ReadN PROVE TypeOK'
<1>1. BatchSize(outq) \in 0 .. MaxMessages /\ BatchSize(outq) <= Len(outq)
  BY RingbufferAssumption, LenProperties DEF BatchSize, TypeOK
<1>. QED BY <1>1 DEF ReadN, TypeOK, HostStates

(* Each dispatched message leaves the ring and the batch together.         *)
LEMMA DispatchTypeOK ==
  ASSUME TypeOK, Dispatch PROVE TypeOK'
<1>1. outq # <<>>
  BY DEF Dispatch, TypeOK
<1>2. Tail(outq) \in Seq(MessageKinds) /\ Len(Tail(outq)) = Len(outq) - 1
  BY <1>1, HeadTailProperties DEF TypeOK
<1>3. CASE Head(outq) = "fatal_error_msg"
  BY <1>2, <1>3, RingbufferAssumption DEF Dispatch, TypeOK, HostStates
<1>4. CASE Head(outq) # "fatal_error_msg"
  BY <1>2, <1>4, RingbufferAssumption DEF Dispatch, TypeOK, HostStates
<1>. QED BY <1>3, <1>4

LEMMA NextTypeOK == TypeOK /\ [Next]_vars => TypeOK'
<1>. SUFFICES ASSUME TypeOK, [Next]_vars PROVE TypeOK'
  OBVIOUS
<1>1. CASE \E m \in MessageKinds : EnclaveWrite(m)
  BY <1>1, EnclaveWriteTypeOK
<1>2. CASE QueueInbound
  BY <1>2, RingbufferAssumption DEF QueueInbound, TypeOK
<1>3. CASE StartEvery
  BY <1>3 DEF StartEvery, TypeOK, HostStates
<1>4. CASE ReadN
  BY <1>4, ReadNTypeOK
<1>5. CASE Dispatch
  BY <1>5, DispatchTypeOK
<1>6. CASE FlushAllInbound
  BY <1>6, RingbufferAssumption DEF FlushAllInbound, TypeOK, HostStates
<1>7. CASE UNCHANGED vars
  BY <1>7 DEF vars, TypeOK
<1>. QED BY <1>1, <1>2, <1>3, <1>4, <1>5, <1>6, <1>7 DEF Next

(* In every reachable state the outbound ring holds at most its capacity,  *)
(* and the batch read_n is dispatching never counts more messages than     *)
(* the ring holds, however the enclave's writes interleave with the        *)
(* host's drain loop: Dispatch always finds the message it takes.          *)
THEOREM TypeCorrect == Spec => []TypeOK
<1>. QED BY InitTypeOK, NextTypeOK, PTL DEF Spec

-----------------------------------------------------------------------------
(* The refinement of Pump under the mapping Abstract.                      *)

LEMMA InitRefines == Init => Abstract!Init
  BY DEF Init, Abstract!Init

(* A message the host dispatches is the oldest one, and the host stops     *)
(* exactly when that message is a fatal_error_msg.                         *)
LEMMA DispatchRefines ==
  ASSUME TypeOK, Dispatch PROVE Abstract!Deliver
<1>1. outq # <<>>
  BY DEF Dispatch, TypeOK
<1>2. pc # "stopped" /\ outq' = Tail(outq) /\ pending' = pending
  BY DEF Dispatch
<1>3. (pc' = "stopped") = (Head(outq) = "fatal_error_msg")
  <2>1. CASE Head(outq) = "fatal_error_msg"
    BY <2>1 DEF Dispatch
  <2>2. CASE Head(outq) # "fatal_error_msg"
    BY <2>2 DEF Dispatch
  <2>. QED BY <2>1, <2>2
<1>. QED BY <1>1, <1>2, <1>3 DEF Abstract!Deliver

LEMMA NextRefines ==
  TypeOK /\ [Next]_vars => [Abstract!Next]_Abstract!vars
<1>. SUFFICES ASSUME TypeOK, [Next]_vars
              PROVE  [Abstract!Next]_Abstract!vars
  OBVIOUS
<1>1. CASE \E m \in MessageKinds : EnclaveWrite(m)
  <2>1. PICK m \in MessageKinds : EnclaveWrite(m)
    BY <1>1
  <2>2. Abstract!Write(m)
    BY <2>1 DEF EnclaveWrite, Abstract!Write
  <2>. QED BY <2>2 DEF Abstract!Next, MessageKinds, Abstract!Kinds
<1>2. CASE QueueInbound
  BY <1>2 DEF QueueInbound, Abstract!Queue, Abstract!Next
<1>3. CASE StartEvery
  BY <1>3 DEF StartEvery, Abstract!vars
<1>4. CASE ReadN
  BY <1>4 DEF ReadN, Abstract!vars
<1>5. CASE Dispatch
  BY <1>5, DispatchRefines DEF Abstract!Next
<1>6. CASE FlushAllInbound
  BY <1>6 DEF FlushAllInbound, Abstract!Flush, Abstract!Next
<1>7. CASE UNCHANGED vars
  BY <1>7 DEF vars, Abstract!vars
<1>. QED BY <1>1, <1>2, <1>3, <1>4, <1>5, <1>6, <1>7 DEF Next

(* HandleRingbufferImpl implements the safety of Pump for every batch      *)
(* limit, capacity and write budget: each step of the enclave or of        *)
(* every() is a step of Pump or leaves its state alone, so messages are    *)
(* handled oldest first and none is handled after a fatal_error_msg.       *)
(* The fairness half of ImplementsPump is model-checked only.             *)
THEOREM Refinement == Spec => Abstract!SafeSpec
<1>. QED BY TypeCorrect, InitRefines, NextRefines, PTL DEF Spec, Abstract!SafeSpec

=============================================================================
