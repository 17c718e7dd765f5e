------------------------------ MODULE Sysvars ------------------------------
(***************************************************************************)
(* The sysvars of the virtual machine (svm/src/sysvars.rs and the setters  *)
(* of ffi/src/ffi.rs), and the two ways a program reads them: as an        *)
(* account of the transaction (compile_accounts) and through the sysvar    *)
(* cache of the runtime (setup_sysvar_cache).                              *)
(*                                                                         *)
(* Clock, Rent, EpochSchedule and SlotHashes change after construction;    *)
(* the other four sysvars are constants of the machine and are left out.   *)
(* All hashes are the default hash, so slot_hashes is a list of slots.     *)
(***************************************************************************)
EXTENDS Integers, Sequences, FiniteSets, SequencesExt

CONSTANTS
  MaxEntries,  \* MAX_ENTRIES of SlotHashes, 512 in the code
  Slots,       \* bound: slots clients warp to or set
  Timestamps,  \* bound: unix timestamps clients set
  Epochs,      \* bound: epochs clients set
  Rents,       \* bound: lamports_per_byte clients set
  Schedules,   \* bound: epoch schedules clients set
  Garbage      \* account data that does not decode as the sysvar

ASSUME SysvarsAssumption ==
  /\ MaxEntries \in Nat \ {0}
  /\ 0 \in Slots /\ Slots \subseteq Nat
  /\ 0 \in Timestamps /\ Timestamps \subseteq Int
  /\ 0 \in Epochs /\ Epochs \subseteq Nat
  /\ Rents \subseteq Nat /\ Rents # {}
  /\ Schedules \subseteq [slots_per_epoch : Nat, leader_schedule_slot_offset : Nat]
  /\ Schedules # {}

VARIABLES
  clock,
  epoch_schedule,
  rent,
  slot_hashes,    \* newest first
  stored          \* sysvar accounts in the account database

vars == <<clock, epoch_schedule, rent, slot_hashes, stored>>

SysvarIds == {"Clock", "EpochSchedule", "Rent", "SlotHashes"}

Clock == [slot : Nat, epoch : Nat, leader_schedule_epoch : Nat, unix_timestamp : Int,
          epoch_start_timestamp : Int]

ZeroClock == [slot |-> 0, epoch |-> 0, leader_schedule_epoch |-> 0, unix_timestamp |-> 0,
              epoch_start_timestamp |-> 0]

(***************************************************************************)
(* EpochSchedule without warm-up (external): division by zero gives 0.     *)
(***************************************************************************)
Quotient(n, d) == IF d = 0 THEN 0 ELSE n \div d

get_epoch(slot) == Quotient(slot, epoch_schedule.slots_per_epoch)

get_leader_schedule_epoch(slot) ==
  Quotient(slot + epoch_schedule.leader_schedule_slot_offset, epoch_schedule.slots_per_epoch)

(***************************************************************************)
(* SlotHashes::add (external): a binary search in the descending list,     *)
(* then replace, or insert behind the newer entries, then cut at           *)
(* MAX_ENTRIES.                                                            *)
(***************************************************************************)
Truncate(list) == SubSeq(list, 1, IF Len(list) < MaxEntries THEN Len(list) ELSE MaxEntries)

add(list, slot) ==
  IF slot \in ToSet(list) THEN list
  ELSE LET newer == {i \in DOMAIN list : list[i] > slot}
       IN Truncate(InsertAt(list, Cardinality(newer) + 1, slot))

(* The slots lo .. hi-1, ascending and descending. *)
Ascending(lo, hi)  == [i \in 1 .. (IF lo < hi THEN hi - lo ELSE 0) |-> lo + i - 1]
Descending(lo, hi) == Reverse(Ascending(lo, hi))

-----------------------------------------------------------------------------
set_clock(c) ==
  /\ clock' = c
  /\ UNCHANGED <<epoch_schedule, rent, slot_hashes, stored>>

warp_to_timestamp(timestamp) ==
  /\ clock' = [clock EXCEPT !.unix_timestamp = timestamp]
  /\ UNCHANGED <<epoch_schedule, rent, slot_hashes, stored>>

(* Mutant: the clock is set before the distance is taken. *)
SlotDelta_after_clock(slot) == 0

(* slot.saturating_sub(clock.slot) *)
SlotDelta(slot) == IF slot > clock.slot THEN slot - clock.slot ELSE 0

(* Mutants: the loop starts at the clock; it ends one slot early. *)
LoopSlots_from_clock(slot)  == Ascending(clock.slot, slot)
LoopSlots_ends_early(slot) == Ascending(slot_hashes[1], slot - 1)

(* The slots the loop adds one by one. *)
LoopSlots(slot) == Ascending(slot_hashes[1], slot)

(* Mutant: the rebuilt list has the slot itself, too. *)
warped_hashes_inclusive(slot) ==
  IF SlotDelta(slot) > MaxEntries
  THEN Descending(slot - MaxEntries, slot + 1)
  ELSE FoldLeft(add, slot_hashes, LoopSlots(slot))

warped_hashes(slot) ==
  IF SlotDelta(slot) > MaxEntries
  THEN Descending(slot - MaxEntries, slot)
  ELSE FoldLeft(add, slot_hashes, LoopSlots(slot))

warp_to_slot(slot) ==
  /\ clock' = [ZeroClock EXCEPT !.slot = slot, !.epoch = get_epoch(slot),
                                !.leader_schedule_epoch = get_leader_schedule_epoch(slot)]
  /\ slot_hashes' = warped_hashes(slot)
  /\ UNCHANGED <<epoch_schedule, rent, stored>>

set_rent(r) ==
  /\ rent' = r
  /\ UNCHANGED <<clock, epoch_schedule, slot_hashes, stored>>

set_epoch_schedule(schedule) ==
  /\ epoch_schedule' = schedule
  /\ UNCHANGED <<clock, rent, slot_hashes, stored>>

(* A client stores an account under the address of a sysvar, or a          *)
(* committed chain did that was given one.                                 *)
store_sysvar(id, data) ==
  /\ stored' = [k \in DOMAIN stored \cup {id} |-> IF k = id THEN data ELSE stored[k]]
  /\ UNCHANGED <<clock, epoch_schedule, rent, slot_hashes>>

-----------------------------------------------------------------------------
(***************************************************************************)
(* What a transaction reads, given the sysvar accounts its client lists.   *)
(***************************************************************************)
Own(id) == CASE id = "Clock"         -> clock
             [] id = "EpochSchedule" -> epoch_schedule
             [] id = "Rent"          -> rent
             [] id = "SlotHashes"    -> slot_hashes

merged(given) ==
  [id \in DOMAIN given \cup DOMAIN stored |-> IF id \in DOMAIN given THEN given[id] ELSE stored[id]]

(* compile_accounts: the account list first, the machine's own after that. *)
account_view(given, id) ==
  IF id \in DOMAIN merged(given) THEN merged(given)[id] ELSE Own(id)

(* Mutant: the machine's own sysvar comes first. *)
cache_view_own_first(given, id) == Own(id)

(* setup_sysvar_cache: the account list first, as far as its data decodes; *)
(* the entries still missing come from the machine.                        *)
cache_view(given, id) ==
  IF id \in DOMAIN merged(given) /\ merged(given)[id] # Garbage
  THEN merged(given)[id]
  ELSE Own(id)

-----------------------------------------------------------------------------
ClockValues ==
  {[slot |-> s, epoch |-> e, leader_schedule_epoch |-> 0, unix_timestamp |-> t,
    epoch_start_timestamp |-> 0] : s \in Slots, e \in Epochs, t \in Timestamps}

(* Sysvar data clients put into accounts of their own. *)
SuppliedData(id) == IF id = "Clock" THEN {ZeroClock, Garbage} ELSE {Garbage}

Init ==
  /\ clock = ZeroClock
  /\ epoch_schedule \in Schedules
  /\ rent \in Rents
  /\ slot_hashes = [i \in 1 .. MaxEntries |-> 0]
  /\ stored = [id \in {} |-> Garbage]

Next ==
  \/ \E c \in ClockValues : set_clock(c)
  \/ \E timestamp \in Timestamps : warp_to_timestamp(timestamp)
  \/ \E slot \in Slots : warp_to_slot(slot)
  \/ \E r \in Rents : set_rent(r)
  \/ \E schedule \in Schedules : set_epoch_schedule(schedule)
  \/ \E id \in {"Clock", "Rent"} : \E data \in SuppliedData(id) : store_sysvar(id, data)

Spec == Init /\ [][Next]_vars

-----------------------------------------------------------------------------
(* Every variable holds a value of its type, and slot_hashes stays full.   *)
TypeOK ==
  /\ clock \in Clock
  /\ epoch_schedule \in Schedules
  /\ rent \in Rents
  /\ \A i \in DOMAIN slot_hashes : slot_hashes[i] \in Nat
  /\ Len(slot_hashes) = MaxEntries
  /\ DOMAIN stored \subseteq SysvarIds

(* slot_hashes never has a gap: its entries are consecutive slots down to  *)
(* the padding of zeros, whatever jumps forth and back the clock made, by  *)
(* the loop or by the rebuild (warp_to_slot).                              *)
NoHashGaps ==
  \A i \in 1 .. Len(slot_hashes) - 1 :
    \/ slot_hashes[i] = slot_hashes[i + 1] + 1
    \/ slot_hashes[i] = 0 /\ slot_hashes[i + 1] = 0

(* The newest hash after a warp beyond it is that of the slot before the   *)
(* clock's (warp_to_slot).                                                 *)
WarpReachesNewestHash ==
  [][\A slot \in Slots :
       warp_to_slot(slot) /\ slot > slot_hashes[1]
         => slot_hashes'[1] = clock'.slot - 1]_vars

(* After a warp, whatever came before it, the next one adds at most one    *)
(* more than MAX_ENTRIES hashes one by one: the rebuild takes the longer   *)
(* jumps (warp_to_slot).  A clock set by hand in between may stand far     *)
(* ahead of the newest hash: the loop starts from the hash, the test for   *)
(* the rebuild from the clock.                                             *)
WarpWorkBounded ==
  [][(\E slot \in Slots : warp_to_slot(slot)) =>
       \A next \in Slots :
         SlotDelta(next)' <= MaxEntries => Len(LoopSlots(next))' <= MaxEntries + 1]_vars

(* A program that reads a sysvar account and one that reads the cache see  *)
(* the same, unless the client put data there that is no such sysvar.      *)
ViewsAgree ==
  \A id \in SysvarIds, data \in {ZeroClock, Garbage} :
    \A given \in {[k \in {} |-> data], [k \in {id} |-> data]} :
      account_view(given, id) # Garbage => account_view(given, id) = cache_view(given, id)
=============================================================================
