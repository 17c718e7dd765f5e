------------------------- MODULE ProgramCacheProofs -------------------------
(* Theorems about ProgramCache, for every value of its constants. *)
EXTENDS ProgramCache, TLAPS

(***************************************************************************)
(* The inductive invariant: what is registered and what the runtime's      *)
(* cache was given are not only the same programs but the same entries.    *)
(***************************************************************************)
IInv == TypeOK /\ entries = cached

(* A new machine has its builtins in both. *)
LEMMA InitInv == Init => IInv
BY ProgramsAssumption DEF Init, IInv, TypeOK, Entry, Program, Loaders

(* Setting one program's entry keeps a map from programs to entries one. *)
LEMMA WithType ==
  ASSUME NEW map, DOMAIN map \subseteq Programs, map \in [DOMAIN map -> Entry],
         NEW p \in Programs, NEW entry \in Entry
  PROVE  /\ DOMAIN With(map, p, entry) = DOMAIN map \cup {p}
         /\ DOMAIN With(map, p, entry) \subseteq Programs
         /\ With(map, p, entry) \in [DOMAIN With(map, p, entry) -> Entry]
BY DEF With

(* Every step keeps the invariant. *)
LEMMA NextInv == IInv /\ [Next]_vars => IInv'
<1> SUFFICES ASSUME IInv, [Next]_vars PROVE IInv'
  OBVIOUS
<1> USE DEF IInv, TypeOK
<1>1. ASSUME NEW p \in Programs, NEW loader \in Loaders, NEW elf \in Elfs,
             add_program(p, loader, elf)
      PROVE  IInv'
  <2>1. Program(loader, elf) \in Entry
    BY DEF Program, Entry
  <2>. QED
    BY <1>1, <2>1, WithType DEF add_program, replenish
<1>2. ASSUME NEW commit \in BOOLEAN, process_message(commit)
      PROVE  IInv'
  BY <1>2 DEF process_message
<1>3. ASSUME NEW p \in Programs \ Builtins, NEW elf \in Elfs \cup {Closed},
             store_modified_entry(p, elf)
      PROVE  IInv'
  <2>1. Program(V3, elf) \in Entry
    BY DEF Program, Entry, Loaders
  <2>. QED
    BY <1>3, <2>1, WithType DEF store_modified_entry
<1>4. ASSUME process_message_returns
      PROVE  IInv'
  BY <1>4 DEF process_message_returns
<1>5. CASE UNCHANGED vars
  BY <1>5 DEF vars
<1>. QED
  BY <1>1, <1>2, <1>3, <1>4, <1>5 DEF Next

-----------------------------------------------------------------------------
(* The accounts made for a program are its own and its programdata's. *)
LEMMA MadeAddresses ==
  ASSUME NEW p \in Programs
  PROVE  /\ p \in DOMAIN maybe_create_program_accounts(p) <=> p \in DOMAIN entries
         /\ DOMAIN maybe_create_program_accounts(p) \subseteq {p, ProgramData[p]}
BY DEF maybe_create_program_accounts

(* No other program makes the accounts of a registered one. *)
LEMMA OnlyMaker ==
  ASSUME NEW called \in SUBSET Programs, NEW p \in called, p \in DOMAIN entries,
         NEW k \in DOMAIN maybe_create_program_accounts(p)
  PROVE  fallbacks(called)[k] = maybe_create_program_accounts(p)[k]
<1> DEFINE makers == {q \in called : k \in DOMAIN maybe_create_program_accounts(q)}
<1>1. makers = {p}
  BY MadeAddresses, ProgramsAssumption
<1>2. (CHOOSE q \in makers : TRUE) = p
  BY <1>1
<1>. QED
  BY <1>1, <1>2 DEF fallbacks

(* How a program resolves that is not in the account list: as what is made *)
(* for it if it is registered, else as a stub or an empty account.         *)
LEMMA ResolvesAs ==
  ASSUME NEW called \in SUBSET Programs, NEW p \in Programs
  PROVE  /\ p \in DOMAIN entries => resolve(called, p) = maybe_create_program_accounts(p)[p]
         /\ p \notin DOMAIN entries => resolve(called, p) \in {Stub, EmptyAccount}
<1>1. CASE p \in called /\ p \in DOMAIN entries
  <2>1. p \in DOMAIN maybe_create_program_accounts(p) /\ p \in DOMAIN fallbacks(called)
    BY <1>1, MadeAddresses DEF fallbacks
  <2>2. fallbacks(called)[p] = maybe_create_program_accounts(p)[p]
    BY <1>1, <2>1, OnlyMaker
  <2>. QED
    BY <1>1, <2>1, <2>2 DEF resolve
<1>2. CASE p \in called /\ p \notin DOMAIN entries
  <2>1. \A q \in called : p \notin DOMAIN maybe_create_program_accounts(q)
    BY <1>2, MadeAddresses, ProgramsAssumption
  <2>. QED
    BY <1>2, <2>1 DEF resolve, fallbacks
<1>3. CASE p \notin called
  <2>1. p \notin DOMAIN fallbacks(called)
    BY <1>3, MadeAddresses, ProgramsAssumption DEF fallbacks
  <2>. QED
    BY <2>1 DEF resolve
<1>. QED
  BY <1>1, <1>2, <1>3

(* The invariant gives the property: what runs is what is registered, and  *)
(* what is shown is made from that.                                        *)
LEMMA ShownIsFound == IInv => AccountsShowWhatRuns
<1> SUFFICES ASSUME IInv, NEW called \in SUBSET Programs, NEW p \in Programs \ DOMAIN modified
    PROVE  LET shown == resolve(called, p)
           IN /\ p \notin DOMAIN found => shown.owner \notin Loaders
              /\ p \in DOMAIN found /\ found[p].loader \notin OtherLoaders
                   => shown.executable /\ shown.owner = found[p].loader
              /\ p \in called \cap DOMAIN found /\ found[p].loader = V3
                   => resolve(called, ProgramData[p]).elf = found[p].elf
  BY DEF AccountsShowWhatRuns
<1>1. /\ p \in DOMAIN found <=> p \in DOMAIN entries
      /\ p \in DOMAIN found => found[p] = entries[p] /\ entries[p] \in Entry
  BY DEF IInv, TypeOK, found
<1>2. p \notin DOMAIN found => resolve(called, p).owner \notin Loaders
  BY <1>1, ResolvesAs, ProgramsAssumption DEF Stub, EmptyAccount, Made, Loaders
<1>3. ASSUME p \in DOMAIN found, found[p].loader \notin OtherLoaders
      PROVE  resolve(called, p).executable /\ resolve(called, p).owner = found[p].loader
  <2>1. entries[p].loader \in {Native, V2, V3}
    BY <1>1, <1>3 DEF Entry, Loaders
  <2>2. maybe_create_program_accounts(p)[p] = Made(entries[p].loader, TRUE, NoElf)
    BY <1>1, <1>3, <2>1, ProgramsAssumption DEF maybe_create_program_accounts
  <2>. QED
    BY <1>1, <1>3, <2>2, ResolvesAs DEF Made
<1>4. ASSUME p \in called \cap DOMAIN found, found[p].loader = V3
      PROVE  resolve(called, ProgramData[p]).elf = found[p].elf
  <2>1. /\ ProgramData[p] \in DOMAIN maybe_create_program_accounts(p)
        /\ maybe_create_program_accounts(p)[ProgramData[p]] = Made(V3, FALSE, entries[p].elf)
    <3>1. p \in DOMAIN entries /\ entries[p].loader = V3
      BY <1>1, <1>4
    <3>2. entries[p].loader \notin {Native, V2} /\ ProgramData[p] # p
      BY <3>1, ProgramsAssumption
    <3>3. maybe_create_program_accounts(p) =
            [k \in {p, ProgramData[p]} |->
               IF k = p THEN Made(V3, TRUE, NoElf) ELSE Made(V3, FALSE, entries[p].elf)]
      BY <3>1, <3>2 DEF maybe_create_program_accounts
    <3>. QED
      BY <3>2, <3>3
  <2>2. ProgramData[p] \in DOMAIN fallbacks(called)
    BY <1>4, <2>1 DEF fallbacks
  <2>. QED
    BY <1>1, <1>4, <2>1, <2>2, OnlyMaker DEF resolve, Made
<1>. QED
  BY <1>2, <1>3, <1>4

(* What the machine registers and what the runtime can find stay the same  *)
(* programs, for any loaders and ELF files (replenish).                    *)
THEOREM TypeCorrect == Spec => []TypeOK
<1>1. IInv => TypeOK
  BY DEF IInv
<1>. QED
  BY <1>1, InitInv, NextInv, PTL DEF Spec

(* The accounts shown for a program never name a loader, or hold an ELF,   *)
(* other than the ones it runs under and from, unless it was redeployed.   *)
THEOREM ShowsWhatRuns == Spec => []AccountsShowWhatRuns
BY ShownIsFound, InitInv, NextInv, PTL DEF Spec
=============================================================================
