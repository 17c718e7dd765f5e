------------------------------ MODULE MCSysvars ------------------------------
(* A small instance of Sysvars for TLC. *)
EXTENDS Sysvars

MCSchedules ==
  {[slots_per_epoch |-> 2, leader_schedule_slot_offset |-> 2],
   [slots_per_epoch |-> 0, leader_schedule_slot_offset |-> 0]}
==============================================================================
