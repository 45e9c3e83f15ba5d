------------------------ MODULE MC_HandleRingbuffer ------------------------
(* TLC instance of HandleRingbuffer: max_messages scaled down to 2.       *)
EXTENDS HandleRingbuffer, TLC

=============================================================================
