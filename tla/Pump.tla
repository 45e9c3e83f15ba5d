--------------------------------- MODULE Pump ---------------------------------
(***************************************************************************)
(* What the host's ring-buffer pump promises, without its loop             *)
(* (src/src/host/handle_ring_buffer.h, the comments of every()).           *)
(*                                                                         *)
(* The enclave puts messages into the outbound ring while it has room.     *)
(* The host takes them out one at a time, oldest first, and hands them to  *)
(* their handlers; a fatal_error_msg ends the host, and nothing is handled *)
(* after it.  Host components queue inbound messages, which the host       *)
(* flushes to the enclave.  Every message in the ring is eventually        *)
(* handled and every queued inbound message eventually flushed, unless     *)
(* the host ended.  HandleRingbuffer implements this specification under   *)
(* the mapping HandleRingbuffer!Abstract.                                   *)
(***************************************************************************)
EXTENDS Naturals, Sequences

CONSTANTS
  Capacity,     \* the messages the outbound ring holds
  MaxPending    \* bound on the queued inbound messages

Kinds == {"log_msg", "fatal_error_msg"}

VARIABLES
  ring,      \* the outbound messages not yet handled, oldest first
  pending,   \* inbound messages queued and not flushed
  stopped    \* a fatal_error_msg ended the host

vars == <<ring, pending, stopped>>

Init ==
  /\ ring = <<>>
  /\ pending = 0
  /\ stopped = FALSE

(* The enclave writes m; it does not know whether the host still runs.    *)
Write(m) ==
  /\ Len(ring) < Capacity
  /\ ring' = Append(ring, m)
  /\ UNCHANGED <<pending, stopped>>

(* A host component queues an inbound message.                            *)
Queue ==
  /\ ~stopped
  /\ pending < MaxPending
  /\ pending' = pending + 1
  /\ UNCHANGED <<ring, stopped>>

(* The oldest message is handled; a fatal one ends the host.              *)
Deliver ==
  /\ ~stopped
  /\ ring # <<>>
  /\ ring' = Tail(ring)
  /\ stopped' = (Head(ring) = "fatal_error_msg")
  /\ UNCHANGED pending

(* The queued inbound messages are handed to the enclave.                  *)
Flush ==
  /\ ~stopped
  /\ pending' = 0
  /\ UNCHANGED <<ring, stopped>>

Next ==
  \/ \E m \in Kinds : Write(m)
  \/ Queue
  \/ Deliver
  \/ Flush

SafeSpec == Init /\ [][Next]_vars

(* The host keeps handling and flushing while it runs.                    *)
Spec == SafeSpec /\ WF_vars(Deliver) /\ WF_vars(Flush)

=============================================================================
