-------------------------- MODULE HandleRingbuffer --------------------------
(***************************************************************************)
(* The host's ring-buffer pump, HandleRingbufferImpl                       *)
(* (src/src/host/handle_ring_buffer.h).                                    *)
(*                                                                         *)
(* The enclave thread writes messages into the outbound ring buffer        *)
(* concurrently with the host.  On every turn of the host's uv loop,       *)
(* every() calls bp.read_n(max_messages, r) until it returns 0, and then   *)
(* nbwf.flush_all_inbound() hands the inbound messages that host           *)
(* components queued without blocking over to the enclave.  A log_msg is  *)
(* written out; a fatal_error_msg handler throws out of every(), which     *)
(* ends the host.                                                          *)
(*                                                                         *)
(* A message is its kind; read_n dispatches the messages it finds one by   *)
(* one, so the enclave may write during a batch.                           *)
(***************************************************************************)
EXTENDS Naturals, Sequences

CONSTANTS
  MaxMessages,    \* max_messages, the batch limit of one read_n (128)
  Capacity,       \* number of messages the outbound ring holds
  MaxPending,     \* bound on the inbound messages queued between turns
  EnclaveWrites,  \* how many messages the enclave writes, or Unbounded
  Unbounded       \* model value: the enclave never stops writing

ASSUME RingbufferAssumption ==
  /\ MaxMessages \in Nat \ {0}
  /\ Capacity \in Nat \ {0}
  /\ MaxPending \in Nat \ {0}
  /\ EnclaveWrites \in Nat \cup {Unbounded}
  /\ Unbounded \notin Nat

MessageKinds == {"log_msg", "fatal_error_msg"}

(* Where the host is: between turns of the uv loop ("loop"), about to    *)
(* call read_n ("read"), dispatching a batch ("batch"), about to flush    *)
(* ("flush"), or gone after a fatal error ("stopped").                    *)
HostStates == {"loop", "read", "batch", "flush", "stopped"}

VARIABLES
  outq,     \* the outbound ring buffer, oldest message first
  budget,   \* the writes the enclave still makes (or Unbounded)
  pc,       \* the host's position, one of HostStates
  left,     \* messages of the current read_n batch not yet dispatched
  pending   \* inbound messages queued by host components, not yet flushed

vars == <<outq, budget, pc, left, pending>>

Init ==
  /\ outq = <<>>
  /\ budget = EnclaveWrites
  /\ pc = "loop"
  /\ left = 0
  /\ pending = 0

(* The enclave writes message m into the outbound ring when it has room.  *)
EnclaveWrite(m) ==
  /\ budget # 0
  /\ Len(outq) < Capacity
  /\ outq' = Append(outq, m)
  /\ budget' = IF budget = Unbounded THEN Unbounded ELSE budget - 1
  /\ UNCHANGED <<pc, left, pending>>

(* Another uv callback of the host queues an inbound message on a          *)
(* non-blocking writer; it runs on the loop thread, between turns.        *)
QueueInbound ==
  /\ pc = "loop"
  /\ pending < MaxPending
  /\ pending' = pending + 1
  /\ UNCHANGED <<outq, budget, pc, left>>

(* The uv loop calls every().                                             *)
StartEvery ==
  /\ pc = "loop"
  /\ pc' = "read"
  /\ UNCHANGED <<outq, budget, left, pending>>

(* Mutant: read_n leaving the last message of the ring for a later call.  *)
BatchSizeShort(q) ==
  IF Len(q) <= MaxMessages THEN (IF Len(q) > 0 THEN Len(q) - 1 ELSE 0)
  ELSE MaxMessages

(* Mutant: a batch count of max_messages, whatever the ring holds.        *)
BatchSizeLimit(q) == IF Len(q) = 0 THEN 0 ELSE MaxMessages

(* The number of messages one read_n(max_messages, r) takes from the ring. *)
BatchSize(q) == IF Len(q) < MaxMessages THEN Len(q) ELSE MaxMessages

(* Mutant: the loop test `>= 0`: a read returning 0 is followed by another. *)
ReadNLoopGeZero ==
  /\ pc = "read"
  /\ LET k == BatchSize(outq)
     IN  /\ left' = k
         /\ pc' = IF k > 0 THEN "batch" ELSE "read"
  /\ UNCHANGED <<outq, budget, pending>>

(* read_n(max_messages, r) is called: its batch is the messages present.  *)
(* The loop ends when it returns 0.                                       *)
ReadN ==
  /\ pc = "read"
  /\ LET k == BatchSize(outq)
     IN  /\ left' = k
         /\ pc' = IF k > 0 THEN "batch" ELSE "flush"
  /\ UNCHANGED <<outq, budget, pending>>

(* Mutant: the fatal_error_msg handler writes to std::cerr and returns.    *)
DispatchFatalReturns ==
  /\ pc = "batch"
  /\ left > 0
  /\ outq' = Tail(outq)
  /\ left' = left - 1
  /\ pc' = IF left = 1 THEN "read" ELSE "batch"
  /\ UNCHANGED <<budget, pending>>

(* read_n dispatches the oldest message to its handler.  log_msg is       *)
(* written out; fatal_error_msg throws std::logic_error out of every().   *)
(* When the batch is done, read_n has returned a positive count and the   *)
(* while loop calls it again.                                             *)
Dispatch ==
  /\ pc = "batch"
  /\ left > 0
  /\ outq' = Tail(outq)
  /\ IF Head(outq) = "fatal_error_msg"
       THEN /\ pc' = "stopped"
            /\ left' = 0
       ELSE /\ left' = left - 1
            /\ pc' = IF left = 1 THEN "read" ELSE "batch"
  /\ UNCHANGED <<budget, pending>>

(* nbwf.flush_all_inbound(): every queued inbound message is handed over, *)
(* and every() returns to the uv loop.                                    *)
FlushAllInbound ==
  /\ pc = "flush"
  /\ pending' = 0
  /\ pc' = "loop"
  /\ UNCHANGED <<outq, budget, left>>

Next ==
  \/ \E m \in MessageKinds : EnclaveWrite(m)
  \/ QueueInbound
  \/ StartEvery
  \/ ReadN
  \/ Dispatch
  \/ FlushAllInbound

(* The uv loop runs every() on each iteration, and every() runs on the    *)
(* host thread to its end or its throw: each host step is weakly fair.    *)
(* The enclave and the other host callbacks need not make progress.       *)
Fairness ==
  /\ WF_vars(StartEvery)
  /\ WF_vars(ReadN)
  /\ WF_vars(Dispatch)
  /\ WF_vars(FlushAllInbound)

Spec == Init /\ [][Next]_vars /\ Fairness

-----------------------------------------------------------------------------
(* Every variable has its type, and a batch never counts more messages    *)
(* than the ring holds (read_n takes only messages already written).       *)
TypeOK ==
  /\ outq \in Seq(MessageKinds) /\ Len(outq) <= Capacity
  /\ budget \in Nat \cup {Unbounded}
  /\ pc \in HostStates
  /\ left \in 0 .. MaxMessages /\ left <= Len(outq)
  /\ pending \in 0 .. MaxPending

(* The comment of every(): "on each uv loop iteration ... flush any       *)
(* pending inbound messages".  An inbound message queued by a host        *)
(* component is eventually flushed to the enclave, unless a fatal error   *)
(* ended the host.                                                        *)
InboundFlushed == (pending > 0) ~> (pending = 0 \/ pc = "stopped")

(* The drain loop catches up with the enclave: a message written into    *)
(* the outbound ring is eventually taken out of it, so the ring is         *)
(* eventually empty unless a fatal error ended the host.                  *)
RingDrained == (outq # <<>>) ~> (outq = <<>> \/ pc = "stopped")

-----------------------------------------------------------------------------
(* The refinement mapping onto the pump's promise (module Pump): the ring  *)
(* is the outbound queue, and the host has stopped when it threw out of    *)
(* every().  Taking a batch count and starting every() are stutters.       *)
Abstract == INSTANCE Pump WITH ring <- outq, stopped <- (pc = "stopped")

(* HandleRingbufferImpl implements Pump: its messages are handled oldest   *)
(* first, none after a fatal_error_msg, each one eventually, and inbound   *)
(* messages are eventually flushed while the host runs.                    *)
ImplementsPump == Abstract!Spec

=============================================================================
