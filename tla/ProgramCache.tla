---------------------------- MODULE ProgramCache ----------------------------
(***************************************************************************)
(* The programs of the virtual machine (svm/src/program_cache.rs): what is *)
(* registered, what the runtime finds when a program is called, and the    *)
(* accounts the machine makes up for registered programs.                  *)
(*                                                                         *)
(* The machine owns one ProgramCacheForTxBatch for its whole life and      *)
(* lends it to every call (process_message).  The runtime, which is        *)
(* external, keeps what a call deploys, upgrades or closes through the     *)
(* upgradeable loader as modified entries of the cache it was lent, and    *)
(* looks them up before the others.  Its delay of visibility is left out.  *)
(***************************************************************************)
EXTENDS Integers

CONSTANTS
  Programs,        \* addresses of programs
  Builtins,        \* those the machine registers at construction
  ProgramData,     \* programdata address of every program
  Native, V2, V3,  \* the loaders maybe_create_program_accounts tells apart
  OtherLoaders,    \* the other loaders a program may be added under
  Elfs,            \* bound: ELF files clients add and programs deploy
  NoElf,           \* a builtin has none
  Closed,          \* what the runtime finds of a program closed on chain
  NoCall

Loaders == {Native, V2, V3} \cup OtherLoaders

ASSUME ProgramsAssumption ==
  /\ Builtins \subseteq Programs
  /\ DOMAIN ProgramData = Programs
  /\ \A p, q \in Programs : ProgramData[p] = ProgramData[q] => p = q
  /\ \A p \in Programs : ProgramData[p] \notin Programs
  /\ Native # V2 /\ Native # V3 /\ V2 # V3
  /\ OtherLoaders \cap {Native, V2, V3} = {}
  /\ "system" \notin {Native, V2, V3} \cup OtherLoaders
  /\ NoElf \notin Elfs /\ Closed \notin Elfs \cup {NoElf}

VARIABLES
  entries,   \* what is registered: loader and ELF
  cached,    \* the entries of the ProgramCacheForTxBatch
  modified,  \* its modified entries
  call       \* NoCall, or whether the running call commits and what the
             \* runtime found when it began

vars == <<entries, cached, modified, call>>

Entry == [loader : Loaders, elf : Elfs \cup {NoElf, Closed}]
Program(loader, elf) == [loader |-> loader, elf |-> elf]

With(map, p, entry) ==
  [x \in DOMAIN map \cup {p} |-> IF x = p THEN entry ELSE map[x]]

(* ProgramCacheForTxBatch::find *)
found == [p \in DOMAIN modified \cup DOMAIN cached |->
            IF p \in DOMAIN modified THEN modified[p] ELSE cached[p]]

-----------------------------------------------------------------------------
(* Mutants: only the runtime's cache is told; a program already cached is  *)
(* kept.                                                                   *)
replenish_cache_only(p, entry) ==
  /\ cached' = With(cached, p, entry)
  /\ UNCHANGED entries

replenish_keeps_cached(p, entry) ==
  /\ entries' = With(entries, p, entry)
  /\ cached' = IF p \in DOMAIN cached THEN cached ELSE With(cached, p, entry)

replenish(p, entry) ==
  /\ entries' = With(entries, p, entry)
  /\ cached' = With(cached, p, entry)

(* An ELF that does not load panics before anything is replenished. *)
add_program(p, loader, elf) ==
  /\ call = NoCall
  /\ replenish(p, Program(loader, elf))
  /\ UNCHANGED <<modified, call>>

process_message(commit) ==
  /\ call = NoCall
  /\ call' = [commit |-> commit, found |-> found]
  /\ UNCHANGED <<entries, cached, modified>>

(* A running instruction deploys or upgrades a program, or closes one. *)
store_modified_entry(p, elf) ==
  /\ call # NoCall
  /\ elf = Closed => p \in DOMAIN found
  /\ modified' = With(modified, p, Program(V3, elf))
  /\ UNCHANGED <<entries, cached, call>>

(* The call returns, whatever its result: nothing happens to the cache. *)
process_message_returns ==
  /\ call # NoCall
  /\ call' = NoCall
  /\ UNCHANGED <<entries, cached, modified>>

-----------------------------------------------------------------------------
(***************************************************************************)
(* The accounts of a program, and how an address that is not in the        *)
(* account list of a call resolves (the program part of compile_accounts). *)
(***************************************************************************)
Made(owner, executable, elf) == [owner |-> owner, executable |-> executable, elf |-> elf]
EmptyAccount == Made("system", FALSE, NoElf)
Stub         == Made("system", TRUE, NoElf)

maybe_create_program_accounts(p) ==
  IF p \notin DOMAIN entries THEN [k \in {} |-> EmptyAccount]
  ELSE CASE entries[p].loader \in {Native, V2} ->
              [k \in {p} |-> Made(entries[p].loader, TRUE, NoElf)]
         [] entries[p].loader = V3 ->
              [k \in {p, ProgramData[p]} |->
                 IF k = p THEN Made(V3, TRUE, NoElf) ELSE Made(V3, FALSE, entries[p].elf)]
         [] OTHER -> [k \in {p} |-> Stub]

fallbacks(called) ==
  [k \in called \cup UNION {DOMAIN maybe_create_program_accounts(p) : p \in called} |->
     LET makers == {p \in called : k \in DOMAIN maybe_create_program_accounts(p)}
     IN IF makers = {} THEN Stub
        ELSE maybe_create_program_accounts(CHOOSE p \in makers : TRUE)[k]]

resolve(called, k) ==
  IF      k \in DOMAIN fallbacks(called) THEN fallbacks(called)[k]
  ELSE IF k \in DOMAIN entries           THEN maybe_create_program_accounts(k)[k]
  ELSE EmptyAccount

-----------------------------------------------------------------------------
Init ==
  /\ entries = [p \in Builtins |-> Program(Native, NoElf)]
  /\ cached = [p \in Builtins |-> Program(Native, NoElf)]
  /\ modified = [p \in {} |-> Program(V3, NoElf)]
  /\ call = NoCall

Next ==
  \/ \E p \in Programs, loader \in Loaders, elf \in Elfs : add_program(p, loader, elf)
  \/ \E commit \in BOOLEAN : process_message(commit)
  \/ \E p \in Programs \ Builtins, elf \in Elfs \cup {Closed} : store_modified_entry(p, elf)
  \/ process_message_returns

Spec == Init /\ [][Next]_vars

-----------------------------------------------------------------------------
(* Every variable holds a value of its type; what is registered and what   *)
(* the runtime's cache was given are the same programs.                    *)
TypeOK ==
  /\ DOMAIN entries = DOMAIN cached
  /\ DOMAIN entries \subseteq Programs /\ entries \in [DOMAIN entries -> Entry]
  /\ DOMAIN cached \subseteq Programs /\ cached \in [DOMAIN cached -> Entry]
  /\ DOMAIN modified \subseteq Programs /\ modified \in [DOMAIN modified -> Entry]
  /\ call = NoCall \/ call.commit \in BOOLEAN

(* A program that was not redeployed on chain runs under the loader, and   *)
(* from the ELF, that its accounts show to a transaction, however often it *)
(* was added under other loaders, whichever other programs the transaction *)
(* calls (replenish, maybe_create_program_accounts, compile_accounts).     *)
AccountsShowWhatRuns ==
  \A called \in SUBSET Programs, p \in Programs \ DOMAIN modified :
    LET shown == resolve(called, p)
    IN /\ p \notin DOMAIN found => shown.owner \notin Loaders
       /\ p \in DOMAIN found /\ found[p].loader \notin OtherLoaders
            => shown.executable /\ shown.owner = found[p].loader
       /\ p \in called \cap DOMAIN found /\ found[p].loader = V3
            => resolve(called, ProgramData[p]).elf = found[p].elf

(* "Execute a single instruction without committing any state changes":    *)
(* after a simulation the machine finds the programs it found before it    *)
(* (simulate_instruction, process_message).                                *)
SimulationKeepsPrograms ==
  [][process_message_returns /\ ~call.commit => found' = call.found]_vars
=============================================================================
