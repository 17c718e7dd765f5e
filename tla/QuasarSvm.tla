----------------------------- MODULE QuasarSvm -----------------------------
(***************************************************************************)
(* The account database of the virtual machine and the execution of an     *)
(* instruction chain against it (svm/src/svm.rs).                          *)
(*                                                                         *)
(* A call takes several steps: the accounts the client brings are merged   *)
(* with the stored ones, every address the message names is resolved, the  *)
(* instructions run one after the other, and what they left behind is read *)
(* back, committed or discarded, and returned.  Programs run inside the    *)
(* Solana runtime, which is external: an instruction may rewrite the       *)
(* writable accounts it names in any way that conserves lamports, or fail  *)
(* after having rewritten some of them.                                    *)
(*                                                                         *)
(* A client may list an address twice.  Everything the code does with such *)
(* a list depends on the first copy of an address (find) or on the last    *)
(* (insert in a loop), so an account list is a pair of maps, first/last.   *)
(***************************************************************************)
EXTENDS Integers, Sequences, FiniteSets, Functions

CONSTANTS
  Keys,            \* addresses: 32 bytes, so they are finitely many
  InstructionsId,  \* the instructions sysvar
  SysvarIds,       \* the sysvars the VM serves from its own state
  Programs,        \* the programs in the program cache
  LoaderV3,        \* the upgradeable loader
  ProgramData,     \* programdata address of the LOADER_V3 programs
  Kinds,           \* kinds of account contents
  Amounts,         \* token amounts, mint supplies, program-defined payloads
  U64,             \* 2^64: lamports are counted modulo this
  OverflowChecks,  \* builds: u64 addition panics (TRUE: dev) or wraps (FALSE: release)
  MaxTrace,        \* max_instruction_trace_length: top-level instructions fit in it
  BuiltinLamports, \* balance of accounts the VM makes up itself
  RentBalances,    \* values rent.minimum_balance may have
  ClientKeys,      \* bound: addresses clients store accounts under
  Supplied,        \* bound: account states clients store
  GivenLists,      \* bound: account lists clients pass to a call
  Written,         \* bound: account states programs write
  Airdrops,        \* bound: amounts airdropped
  Chains,          \* bound: instruction chains clients submit
  NoTx             \* no call is running

(***************************************************************************)
(* An account: its balance and its contents, which stand for the data, the *)
(* owner and the executable flag (they always travel together here).       *)
(***************************************************************************)
Lamports == 0 .. U64 - 1
Contents == [kind : Kinds, amount : Amounts]
Account  == [lamports : Lamports, contents : Contents]

Holding(kind, balance) == [lamports |-> balance, contents |-> [kind |-> kind, amount |-> 0]]

DefaultAccount == Holding("system", 0)

(* Maps from some of the keys to accounts, and account lists. *)
IsAccountMap(map) == /\ DOMAIN map \subseteq Keys
                     /\ map \in [DOMAIN map -> Account]
IsPairs(pairs)    == /\ pairs = [first |-> pairs.first, last |-> pairs.last]
                     /\ IsAccountMap(pairs.first)
                     /\ IsAccountMap(pairs.last)
                     /\ DOMAIN pairs.first = DOMAIN pairs.last

Instruction == {i \in [program_id : Keys, accounts : SUBSET Keys, writable : SUBSET Keys] :
                  i.writable \subseteq i.accounts}

ASSUME KeysAssumption ==
  /\ IsFiniteSet(Keys)
  /\ InstructionsId \in Keys
  /\ SysvarIds \subseteq Keys \ {InstructionsId}
  /\ Programs \subseteq Keys
  /\ LoaderV3 \in Keys
  /\ ProgramData \in [DOMAIN ProgramData -> Keys]
  /\ DOMAIN ProgramData \subseteq Programs

ASSUME ValuesAssumption ==
  /\ U64 \in Nat \ {0}
  /\ OverflowChecks \subseteq BOOLEAN
  /\ MaxTrace \in Nat
  /\ 0 \in Amounts
  /\ {"system", "stub", "program", "programdata", "sysvar", "instructions", "data"} \subseteq Kinds
  /\ BuiltinLamports \in Lamports
  /\ RentBalances \subseteq Lamports
  /\ Airdrops \subseteq Lamports

ASSUME InputsAssumption ==
  /\ ClientKeys \subseteq Keys
  /\ Supplied \subseteq Account
  /\ \A given \in GivenLists : IsPairs(given)
  /\ Written \subseteq Account
  /\ Chains \subseteq Seq(Instruction)

Tx == [instructions : Chains, given : GivenLists, commit : BOOLEAN]

ASSUME NoTxAssumption == NoTx \notin Tx

VARIABLES
  accounts,             \* the account database
  tx,                   \* the arguments of the running call, or NoTx
  merged,               \* the accounts of the call over those of the database
  transaction_accounts, \* the state of every account the message names
  pc,                   \* the next instruction
  raw_result,           \* "ok" until an instruction fails
  result                \* what the last operation returned

vars == <<accounts, tx, merged, transaction_accounts, pc, raw_result, result>>
running == <<tx, merged, transaction_accounts, pc, raw_result>>

Nothing  == [k \in {} |-> DefaultAccount]
NoPairs  == [first |-> Nothing, last |-> Nothing]
Returned(status, pairs, pre) ==
  [status |-> status, accounts |-> pairs, pre_balances |-> pre]
Unit     == Returned("none", NoPairs, [k \in {} |-> 0])
Panicked == Returned("panic", NoPairs, [k \in {} |-> 0])

Overlay(f, g) ==
  [k \in DOMAIN f \cup DOMAIN g |-> IF k \in DOMAIN f THEN f[k] ELSE g[k]]

Balances(map) == [k \in DOMAIN map |-> map[k].lamports]
Total(map)    == SumFunction(Balances(map))

(***************************************************************************)
(* The legacy message made of a chain: the addresses it names, and which   *)
(* of them may be written.  Writability is a property of the message, not  *)
(* of the single instruction; an address called as a program loses it,     *)
(* unless the upgradeable loader is named too.                             *)
(***************************************************************************)
ProgramIds(chain)  == {chain[i].program_id : i \in DOMAIN chain}
MessageKeys(chain) == ProgramIds(chain) \cup UNION {chain[i].accounts : i \in DOMAIN chain}
Demoted(chain) == IF LoaderV3 \in MessageKeys(chain) THEN {} ELSE ProgramIds(chain)
WritableKeys(chain) ==
  UNION {chain[i].writable : i \in DOMAIN chain} \ Demoted(chain)

-----------------------------------------------------------------------------
(***************************************************************************)
(* The helpers of execute_inner.                                           *)
(***************************************************************************)
merge_accounts(given) ==
  [first |-> Overlay(given.first, accounts), last |-> Overlay(given.last, accounts)]

(* Where an address resolves that the account list does not have. *)
fallback(chain, pairs, k) ==
  LET called == ProgramIds(chain) \ DOMAIN pairs.first
  IN IF      k = InstructionsId        THEN Holding("instructions", 0)
     ELSE IF k \in called \cap Programs THEN Holding("program", BuiltinLamports)
     ELSE IF k \in {ProgramData[p] : p \in called \cap DOMAIN ProgramData}
                                       THEN Holding("programdata", BuiltinLamports)
     ELSE IF k \in called              THEN Holding("stub", 0)
     ELSE IF k \in SysvarIds           THEN Holding("sysvar", BuiltinLamports)
     ELSE IF k \in Programs            THEN Holding("program", BuiltinLamports)
     ELSE DefaultAccount

(* The entry for the instructions sysvar that is pushed behind these, which *)
(* no instruction names, is left out: nothing can write or read it back.   *)
compile_accounts(chain, pairs) ==
  [k \in MessageKeys(chain) |->
     IF k \in DOMAIN pairs.first THEN pairs.first[k] ELSE fallback(chain, pairs, k)]

(* Mutants: accounts left empty are skipped; only one copy is updated. *)
deconstruct_skips_emptied(context, pairs) ==
  LET Resulting(map) == [k \in DOMAIN map |-> IF k \in DOMAIN context /\ context[k].lamports > 0
                                              THEN context[k] ELSE map[k]]
  IN [first |-> Resulting(pairs.first), last |-> Resulting(pairs.last)]

deconstruct_updates_one_copy(context, pairs) ==
  [first |-> [k \in DOMAIN pairs.first |->
                IF k \in DOMAIN context THEN context[k] ELSE pairs.first[k]],
   last  |-> pairs.last]

deconstruct_resulting_accounts(context, pairs) ==
  LET Resulting(map) == [k \in DOMAIN map |-> IF k \in DOMAIN context THEN context[k] ELSE map[k]]
  IN [first |-> Resulting(pairs.first), last |-> Resulting(pairs.last)]

commit_accounts(resulting) == Overlay(resulting.last, accounts)

-----------------------------------------------------------------------------
(***************************************************************************)
(* Operations that write one account of the database.                      *)
(***************************************************************************)
Store(k, account) == accounts' = Overlay([x \in {k} |-> account], accounts)

set_account(k, account) ==
  /\ tx = NoTx
  /\ Store(k, account)
  /\ result' = Unit
  /\ UNCHANGED running

(* Mutant: the balance leaves u64. *)
airdrop_unbounded(k, lamports) ==
  LET existing == IF k \in DOMAIN accounts THEN accounts[k] ELSE DefaultAccount
  IN /\ tx = NoTx
     /\ Store(k, [existing EXCEPT !.lamports = existing.lamports + lamports])
     /\ result' = Unit
     /\ UNCHANGED running

(* The new balance is computed as u64; what else the account holds stays. *)
airdrop(k, lamports) ==
  LET existing == IF k \in DOMAIN accounts THEN accounts[k] ELSE DefaultAccount
      sum      == existing.lamports + lamports
  IN /\ tx = NoTx
     /\ sum < U64 \/ FALSE \in OverflowChecks
     /\ Store(k, [existing EXCEPT !.lamports = sum % U64])
     /\ result' = Unit
     /\ UNCHANGED running

airdrop_panics(k, lamports) ==
  /\ tx = NoTx
  /\ TRUE \in OverflowChecks
  /\ k \in DOMAIN accounts
  /\ accounts[k].lamports + lamports >= U64
  /\ result' = Panicked
  /\ UNCHANGED <<accounts, running>>

(* Whatever is stored under the address is replaced. *)
create_account(k, kind, balance) ==
  /\ tx = NoTx
  /\ Store(k, Holding(kind, balance))
  /\ result' = Unit
  /\ UNCHANGED running

(* set_token_balance (kind "token") and set_mint_supply (kind "mint"):     *)
(* only the amount inside an account that unpacks as that kind changes.    *)
set_amount(kind, k, amount) ==
  /\ tx = NoTx
  /\ k \in DOMAIN accounts
  /\ accounts[k].contents.kind = kind
  /\ Store(k, [accounts[k] EXCEPT !.contents.amount = amount])
  /\ result' = Unit
  /\ UNCHANGED running

set_amount_panics(kind, k) ==
  /\ tx = NoTx
  /\ k \in DOMAIN accounts => accounts[k].contents.kind # kind
  /\ result' = Panicked
  /\ UNCHANGED <<accounts, running>>

-----------------------------------------------------------------------------
(***************************************************************************)
(* execute_inner.                                                          *)
(***************************************************************************)
execute_inner(chain, given, commit) ==
  LET pairs == merge_accounts(given)
  IN /\ tx = NoTx
     /\ Len(chain) <= MaxTrace
     /\ tx' = [instructions |-> chain, given |-> given, commit |-> commit]
     /\ merged' = pairs
     /\ transaction_accounts' = compile_accounts(chain, pairs)
     /\ pc' = 1
     /\ raw_result' = "ok"
     /\ result' = Unit
     /\ UNCHANGED accounts

(* A longer chain does not fit the trace: prepare_top_level_instructions   *)
(* fails and its result is unwrapped with expect.                          *)
execute_inner_panics(chain) ==
  /\ tx = NoTx
  /\ Len(chain) > MaxTrace
  /\ result' = Panicked
  /\ UNCHANGED <<accounts, running>>

(* The accounts the instruction at pc may write. *)
Writable == tx.instructions[pc].accounts \cap WritableKeys(tx.instructions)

(* What a program may leave in them. *)
Writes == [Writable -> Written \cup {transaction_accounts[k] : k \in Writable}]

InstructionPending == tx # NoTx /\ raw_result = "ok" /\ pc <= Len(tx.instructions)

(* Mutant: the next instruction is the same one. *)
instruction_repeats(post) ==
  /\ InstructionPending
  /\ Total(post) = Total(Restrict(transaction_accounts, Writable))
  /\ transaction_accounts' = Overlay(post, transaction_accounts)
  /\ UNCHANGED <<accounts, tx, merged, pc, raw_result, result>>

instruction_succeeds(post) ==
  /\ InstructionPending
  /\ Total(post) = Total(Restrict(transaction_accounts, Writable))
  /\ transaction_accounts' = Overlay(post, transaction_accounts)
  /\ pc' = pc + 1
  /\ UNCHANGED <<accounts, tx, merged, raw_result, result>>

(* A program that fails may have written some of its accounts already. *)
instruction_fails(post) ==
  /\ InstructionPending
  /\ transaction_accounts' = Overlay(post, transaction_accounts)
  /\ raw_result' = "error"
  /\ UNCHANGED <<accounts, tx, merged, pc, result>>

Finished == tx # NoTx /\ (raw_result = "error" \/ pc > Len(tx.instructions))

resulting_pairs ==
  IF raw_result = "ok"
  THEN deconstruct_resulting_accounts(transaction_accounts, merged)
  ELSE merged

(* Mutants: a simulation commits; the balances are taken too late. *)
finish_always_commits ==
  /\ Finished
  /\ accounts' = IF raw_result = "ok" THEN commit_accounts(resulting_pairs) ELSE accounts
  /\ result' = Returned(raw_result, resulting_pairs, Balances(merged.first))
  /\ tx' = NoTx
  /\ merged' = NoPairs
  /\ transaction_accounts' = Nothing
  /\ pc' = 1
  /\ raw_result' = "ok"

finish_late_balances ==
  /\ Finished
  /\ accounts' = IF raw_result = "ok" /\ tx.commit
                 THEN commit_accounts(resulting_pairs)
                 ELSE accounts
  /\ result' = Returned(raw_result, resulting_pairs, Balances(resulting_pairs.first))
  /\ tx' = NoTx
  /\ merged' = NoPairs
  /\ transaction_accounts' = Nothing
  /\ pc' = 1
  /\ raw_result' = "ok"

finish ==
  /\ Finished
  /\ accounts' = IF raw_result = "ok" /\ tx.commit
                 THEN commit_accounts(resulting_pairs)
                 ELSE accounts
  /\ result' = Returned(raw_result, resulting_pairs, Balances(merged.first))
  /\ tx' = NoTx
  /\ merged' = NoPairs
  /\ transaction_accounts' = Nothing
  /\ pc' = 1
  /\ raw_result' = "ok"

-----------------------------------------------------------------------------
Init ==
  /\ accounts = Nothing
  /\ tx = NoTx
  /\ merged = NoPairs
  /\ transaction_accounts = Nothing
  /\ pc = 1
  /\ raw_result = "ok"
  /\ result = Unit

StoreOperation ==
  \E k \in ClientKeys :
    \/ \E account \in Supplied : set_account(k, account)
    \/ \E lamports \in Airdrops : airdrop(k, lamports) \/ airdrop_panics(k, lamports)
    \/ \E kind \in {"system", "data"}, balance \in RentBalances : create_account(k, kind, balance)
    \/ \E kind \in {"token", "mint"} \cap Kinds :
         \/ \E amount \in Amounts : set_amount(kind, k, amount)
         \/ set_amount_panics(kind, k)

ExecutionStep ==
  \/ \E chain \in Chains, given \in GivenLists, commit \in BOOLEAN : execute_inner(chain, given, commit)
  \/ \E chain \in Chains : execute_inner_panics(chain)
  \/ InstructionPending /\ \E post \in Writes : instruction_succeeds(post)
  \/ InstructionPending /\ \E post \in Writes : instruction_fails(post)
  \/ finish

Next == StoreOperation \/ ExecutionStep

Spec == Init /\ [][Next]_vars

-----------------------------------------------------------------------------
(* Every variable holds a value of its type. *)
TypeOK ==
  /\ IsAccountMap(accounts)
  /\ tx \in Tx \cup {NoTx}
  /\ IsPairs(merged)
  /\ IsAccountMap(transaction_accounts)
  /\ pc \in Nat \ {0}
  /\ raw_result \in {"ok", "error"}
  /\ result.status \in {"none", "ok", "error", "panic"}
  /\ IsPairs(result.accounts)

-----------------------------------------------------------------------------
(***************************************************************************)
(* Refinement: the steps of a call are one step of the ledger.             *)
(***************************************************************************)
NoCall == [pending |-> FALSE, given |-> Nothing, writable |-> {}, commit |-> FALSE]

PendingCall ==
  IF tx = NoTx THEN NoCall
  ELSE [pending  |-> TRUE,
        given    |-> [k \in DOMAIN tx.given.first |-> {tx.given.first[k], tx.given.last[k]}],
        writable |-> WritableKeys(tx.instructions),
        commit   |-> tx.commit]

LastReply == [status |-> result.status, accounts |-> result.accounts.last]

L == INSTANCE Ledger WITH store <- accounts, call <- PendingCall, reply <- LastReply

(* A chain is atomic: it takes effect on the database as a whole when its  *)
(* call returns success and commits, and not at all when an instruction    *)
(* fails, when it is simulated or when the call panics; accounts the       *)
(* client brings win over stored ones, and only writable ones change       *)
(* (execute_inner and the methods that call it).                              *)
ImplementsLedger == L!Spec

(* No lamport is created or lost by a committed chain whose writable       *)
(* accounts are all in the account list: what the runtime conserves per    *)
(* instruction survives the merge, the read-back and the commit.           *)
LamportsConserved ==
  [][/\ Finished /\ raw_result = "ok" /\ tx' = NoTx
     /\ tx.commit
     /\ tx.given.first = tx.given.last
     /\ WritableKeys(tx.instructions) \subseteq DOMAIN merged.first
     => Total(accounts') = Total(merged.first)]_vars

(* After a committed success, every account the message names has one      *)
(* state: the first copy in the result (ExecutionResult::account), the     *)
(* last one (the bindings' index) and the stored one agree, even if the    *)
(* client listed it twice.                                                 *)
NamedAccountsUnambiguous ==
  [][/\ Finished /\ raw_result = "ok" /\ tx' = NoTx
     /\ tx.commit
     => \A k \in MessageKeys(tx.instructions) \cap DOMAIN merged.first :
          /\ result'.accounts.first[k] = accounts'[k]
          /\ result'.accounts.last[k] = accounts'[k]]_vars

(* pre_balances are the balances before the call, for stored accounts      *)
(* those of the database, although they are taken after the chain ran.     *)
PreBalancesAreThePast ==
  [][Finished /\ tx' = NoTx
     => \A k \in DOMAIN accounts \ DOMAIN tx.given.first :
          result'.pre_balances[k] = accounts[k].lamports]_vars

-----------------------------------------------------------------------------
(***************************************************************************)
(* What the documentation says and the code does not do.                   *)
(***************************************************************************)
(* "Write resulting accounts back into the stored account database": what  *)
(* a committed chain wrote is stored (commit_accounts).                    *)
CommittedWritesStored ==
  [][/\ Finished /\ raw_result = "ok" /\ tx' = NoTx
     /\ tx.commit
     => \A k \in WritableKeys(tx.instructions) :
          transaction_accounts[k] # DefaultAccount
            => k \in DOMAIN accounts' /\ accounts'[k] = transaction_accounts[k]]_vars

-----------------------------------------------------------------------------
(***************************************************************************)
(* The runtime meters compute units, so every instruction ends, and the    *)
(* caller waits inside execute_inner: a running call takes its next step.  *)
(***************************************************************************)
FairSpec == Spec /\ WF_vars(tx # NoTx /\ Next)

(* Every call returns. *)
EveryCallReturns == (tx # NoTx) ~> (tx = NoTx)
=============================================================================
