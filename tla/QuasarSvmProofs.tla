-------------------------- MODULE QuasarSvmProofs --------------------------
(* Theorems about QuasarSvm, for every value of its constants. *)
EXTENDS QuasarSvm, TLAPS, FiniteSetTheorems, WellFoundedInduction

-----------------------------------------------------------------------------
(***************************************************************************)
(* Account maps.                                                           *)
(***************************************************************************)

(* Overlaying one account map over another gives an account map. *)
LEMMA OverlayType ==
  ASSUME NEW f, NEW g, IsAccountMap(f), IsAccountMap(g)
  PROVE  IsAccountMap(Overlay(f, g))
BY DEF Overlay, IsAccountMap

(* One account under one address is an account map. *)
LEMMA SingleType ==
  ASSUME NEW k \in Keys, NEW account \in Account
  PROVE  IsAccountMap([x \in {k} |-> account])
BY DEF IsAccountMap

(* The accounts the VM makes up itself are accounts. *)
LEMMA HoldingType ==
  ASSUME NEW kind \in Kinds, NEW balance \in Lamports
  PROVE  Holding(kind, balance) \in Account
BY ValuesAssumption DEF Holding, Account, Contents

(* The empty account is an account. *)
LEMMA DefaultType == DefaultAccount \in Account
BY ValuesAssumption, HoldingType DEF DefaultAccount, Lamports

(* The empty map is an account map. *)
LEMMA NothingType == IsAccountMap(Nothing)
BY DEF IsAccountMap, Nothing

(* The empty list is an account list. *)
LEMMA NoPairsType == IsPairs(NoPairs)
BY NothingType DEF IsPairs, NoPairs

-----------------------------------------------------------------------------
(***************************************************************************)
(* Messages.                                                               *)
(***************************************************************************)

(* A message names addresses only, and may write only what it names. *)
LEMMA MessageType ==
  ASSUME NEW chain \in Chains
  PROVE  /\ ProgramIds(chain) \subseteq Keys
         /\ MessageKeys(chain) \subseteq Keys
         /\ WritableKeys(chain) \subseteq MessageKeys(chain)
<1>1. /\ chain \in Seq(Instruction)
      /\ \A i \in DOMAIN chain : chain[i] \in Instruction
  BY InputsAssumption
<1>2. \A i \in DOMAIN chain : /\ chain[i].program_id \in Keys
                              /\ chain[i].accounts \subseteq Keys
                              /\ chain[i].writable \subseteq chain[i].accounts
  BY <1>1 DEF Instruction
<1>. QED
  BY <1>2 DEF ProgramIds, MessageKeys, WritableKeys, Demoted

(* Whatever an address resolves to is an account. *)
LEMMA FallbackType ==
  ASSUME NEW chain, NEW pairs, NEW k
  PROVE  fallback(chain, pairs, k) \in Account
<1>1. /\ Holding("program", BuiltinLamports) \in Account
      /\ Holding("programdata", BuiltinLamports) \in Account
      /\ Holding("stub", 0) \in Account
      /\ Holding("instructions", 0) \in Account
      /\ Holding("sysvar", BuiltinLamports) \in Account
  BY ValuesAssumption, HoldingType DEF Lamports
<1>. QED
  BY <1>1, DefaultType DEF fallback

(* Every address of the message resolves, to an account. *)
LEMMA CompileType ==
  ASSUME NEW chain \in Chains, NEW pairs, IsPairs(pairs)
  PROVE  /\ IsAccountMap(compile_accounts(chain, pairs))
         /\ DOMAIN compile_accounts(chain, pairs) = MessageKeys(chain)
<1>1. \A k \in MessageKeys(chain) : compile_accounts(chain, pairs)[k] \in Account
  BY FallbackType DEF compile_accounts, IsPairs, IsAccountMap
<1>. QED
  BY <1>1, MessageType DEF compile_accounts, IsAccountMap

(* Reading back gives an account list. *)
LEMMA DeconstructType ==
  ASSUME NEW context, NEW pairs, IsAccountMap(context), IsPairs(pairs)
  PROVE  IsPairs(deconstruct_resulting_accounts(context, pairs))
BY DEF deconstruct_resulting_accounts, IsPairs, IsAccountMap

(* Merging gives an account list. *)
LEMMA MergeType ==
  ASSUME NEW given, IsPairs(given), IsAccountMap(accounts)
  PROVE  IsPairs(merge_accounts(given))
<1>1. IsAccountMap(Overlay(given.first, accounts)) /\ IsAccountMap(Overlay(given.last, accounts))
  BY OverlayType DEF IsPairs
<1>2. DOMAIN Overlay(given.first, accounts) = DOMAIN Overlay(given.last, accounts)
  BY DEF IsPairs, Overlay
<1>. QED
  BY <1>1, <1>2 DEF merge_accounts, IsPairs

-----------------------------------------------------------------------------
(***************************************************************************)
(* The inductive invariant.  While a call runs, what it merged is what the *)
(* client and the database say, and the accounts it resolved are those its *)
(* message names, untouched where the message does not let them be         *)
(* written.  The guards make this so; it is here because the types need it *)
(* (an instruction leaves accounts behind since it writes among those the  *)
(* call resolved) and because finish is compared with a ledger that looks  *)
(* at the database at that moment.                                         *)
(***************************************************************************)
SnapshotCurrent ==
  tx # NoTx =>
    /\ merged = merge_accounts(tx.given)
    /\ DOMAIN transaction_accounts = MessageKeys(tx.instructions)
    /\ \A k \in MessageKeys(tx.instructions) \ WritableKeys(tx.instructions) :
         transaction_accounts[k] = compile_accounts(tx.instructions, merged)[k]

IInv == TypeOK /\ SnapshotCurrent

(* A database operation keeps the invariant: it runs between calls. *)
LEMMA StoreOperationInv ==
  ASSUME IInv, StoreOperation
  PROVE  IInv'
<1>1. /\ tx = NoTx
      /\ UNCHANGED running
      /\ result' \in {Unit, Panicked}
  BY DEF StoreOperation, set_account, airdrop, airdrop_panics, create_account,
         set_amount, set_amount_panics
<1>2. IsAccountMap(accounts')
  <2> USE DEF IInv, TypeOK
  <2>1. ASSUME NEW k \in ClientKeys, NEW account \in Account, Store(k, account)
        PROVE  IsAccountMap(accounts')
    BY <2>1, InputsAssumption, SingleType, OverlayType DEF Store
  <2>2. ASSUME NEW k \in ClientKeys, NEW account \in Supplied, set_account(k, account)
        PROVE  IsAccountMap(accounts')
    BY <2>2, <2>1, InputsAssumption DEF set_account
  <2>3. ASSUME NEW k \in ClientKeys, NEW lamports \in Airdrops, airdrop(k, lamports)
        PROVE  IsAccountMap(accounts')
    <3> DEFINE existing == IF k \in DOMAIN accounts THEN accounts[k] ELSE DefaultAccount
               sum      == existing.lamports + lamports
    <3>1. existing \in Account
      BY DefaultType DEF IsAccountMap
    <3>2. sum % U64 \in Lamports
      BY <3>1, ValuesAssumption DEF Account, Lamports
    <3>3. [existing EXCEPT !.lamports = sum % U64] \in Account
      BY <3>1, <3>2 DEF Account
    <3>. QED
      BY <2>3, <3>3, <2>1 DEF airdrop
  <2>4. ASSUME NEW k \in ClientKeys, NEW kind \in {"system", "data"},
               NEW balance \in RentBalances, create_account(k, kind, balance)
        PROVE  IsAccountMap(accounts')
    BY <2>4, <2>1, ValuesAssumption, HoldingType DEF create_account
  <2>5. ASSUME NEW k \in ClientKeys, NEW kind, NEW amount \in Amounts, set_amount(kind, k, amount)
        PROVE  IsAccountMap(accounts')
    <3>1. accounts[k] \in Account
      BY <2>5 DEF set_amount, IsAccountMap
    <3>2. [accounts[k] EXCEPT !.contents.amount = amount] \in Account
      BY <3>1 DEF Account, Contents
    <3>. QED
      BY <2>5, <3>2, <2>1 DEF set_amount
  <2>6. (\/ \E k \in ClientKeys, lamports \in Airdrops : airdrop_panics(k, lamports)
         \/ \E k \in ClientKeys, kind \in Kinds : set_amount_panics(kind, k))
        => IsAccountMap(accounts')
    BY DEF airdrop_panics, set_amount_panics
  <2>. QED
    BY <2>2, <2>3, <2>4, <2>5, <2>6 DEF StoreOperation
<1>3. result'.status \in {"none", "panic"} /\ IsPairs(result'.accounts)
  BY <1>1, NoPairsType DEF Unit, Panicked, Returned
<1>. QED
  BY <1>1, <1>2, <1>3 DEF IInv, TypeOK, SnapshotCurrent, running, IsAccountMap, IsPairs

(* The call starts from its own snapshot. *)
LEMMA ExecuteInv ==
  ASSUME IInv, NEW chain \in Chains, NEW given \in GivenLists, NEW commit \in BOOLEAN,
         execute_inner(chain, given, commit)
  PROVE  IInv'
<1> USE DEF execute_inner
<1>1. IsPairs(merge_accounts(given))
  BY MergeType, InputsAssumption DEF IInv, TypeOK
<1>2. /\ IsAccountMap(compile_accounts(chain, merge_accounts(given)))
      /\ DOMAIN compile_accounts(chain, merge_accounts(given)) = MessageKeys(chain)
  BY <1>1, CompileType
<1>3. tx' \in Tx
  BY DEF Tx
<1>4. TypeOK'
  BY <1>1, <1>2, <1>3, NoPairsType DEF IInv, TypeOK, Unit, Returned, IsAccountMap, IsPairs
<1>5. SnapshotCurrent'
  BY <1>2 DEF SnapshotCurrent, merge_accounts
<1>. QED
  BY <1>4, <1>5 DEF IInv

(* An instruction writes writable accounts of its call, with accounts. *)
LEMMA WritesType ==
  ASSUME IInv, InstructionPending, NEW post \in Writes
  PROVE  /\ IsAccountMap(post)
         /\ DOMAIN post = Writable
         /\ Writable \subseteq WritableKeys(tx.instructions)
         /\ Writable \subseteq DOMAIN transaction_accounts
<1>1. tx \in Tx /\ tx.instructions \in Chains
  BY DEF IInv, TypeOK, InstructionPending, Tx
<1>2. /\ Writable \subseteq WritableKeys(tx.instructions)
      /\ Writable \subseteq MessageKeys(tx.instructions)
      /\ MessageKeys(tx.instructions) \subseteq Keys
  BY <1>1, MessageType DEF Writable
<1>3. DOMAIN transaction_accounts = MessageKeys(tx.instructions)
  BY DEF IInv, SnapshotCurrent, InstructionPending
<1>4. \A k \in Writable : transaction_accounts[k] \in Account
  BY <1>2, <1>3 DEF IInv, TypeOK, IsAccountMap
<1>5. post \in [Writable -> Account]
  BY <1>4, InputsAssumption DEF Writes
<1>. QED
  BY <1>2, <1>3, <1>5 DEF IsAccountMap

(* Whether it succeeds or fails, an instruction keeps the snapshot. *)
LEMMA InstructionInv ==
  ASSUME IInv, InstructionPending, NEW post \in Writes,
         instruction_succeeds(post) \/ instruction_fails(post)
  PROVE  IInv'
<1>1. /\ transaction_accounts' = Overlay(post, transaction_accounts)
      /\ UNCHANGED <<accounts, tx, merged, result>>
      /\ pc' \in {pc, pc + 1}
      /\ raw_result' \in {raw_result, "error"}
  BY DEF instruction_succeeds, instruction_fails
<1>2. IsAccountMap(Overlay(post, transaction_accounts))
  BY WritesType, OverlayType DEF IInv, TypeOK
<1>3. TypeOK'
  BY <1>1, <1>2 DEF IInv, TypeOK, IsAccountMap, IsPairs
<1>4. DOMAIN transaction_accounts' = DOMAIN transaction_accounts
  BY <1>1, WritesType DEF Overlay
<1>5. \A k \in DOMAIN transaction_accounts \ WritableKeys(tx.instructions) :
        transaction_accounts'[k] = transaction_accounts[k]
  BY <1>1, WritesType DEF Overlay
<1>6. SnapshotCurrent'
  BY <1>1, <1>4, <1>5 DEF IInv, SnapshotCurrent, merge_accounts
<1>. QED
  BY <1>3, <1>6 DEF IInv

(* What a call returns is an account list. *)
LEMMA ResultingType ==
  ASSUME IInv
  PROVE  IsPairs(resulting_pairs)
BY DeconstructType DEF IInv, TypeOK, resulting_pairs

(* The end of a call leaves the machine between calls. *)
LEMMA FinishInv ==
  ASSUME IInv, finish
  PROVE  IInv'
<1>1. IsAccountMap(accounts')
  BY ResultingType, OverlayType DEF IInv, TypeOK, finish, commit_accounts, IsPairs
<1>2. /\ result'.status \in {"ok", "error"}
      /\ IsPairs(result'.accounts)
  BY ResultingType DEF IInv, TypeOK, finish, Returned
<1>. QED
  BY <1>1, <1>2, NothingType, NoPairsType
     DEF IInv, TypeOK, SnapshotCurrent, finish, IsAccountMap, IsPairs

(* A call that panics before it began changes nothing. *)
LEMMA PanicInv ==
  ASSUME IInv, NEW chain, execute_inner_panics(chain)
  PROVE  IInv'
<1>1. result'.status = "panic" /\ IsPairs(result'.accounts)
  BY NoPairsType DEF execute_inner_panics, Panicked, Returned
<1>. QED
  BY <1>1 DEF IInv, TypeOK, SnapshotCurrent, execute_inner_panics, running, IsAccountMap, IsPairs,
              merge_accounts

(* A new machine satisfies the invariant. *)
LEMMA InitInv == Init => IInv
BY NothingType, NoPairsType DEF Init, IInv, TypeOK, SnapshotCurrent, Unit, Returned

(* Every step keeps the invariant. *)
LEMMA NextInv == IInv /\ [Next]_vars => IInv'
<1> SUFFICES ASSUME IInv, [Next]_vars PROVE IInv'
  OBVIOUS
<1>1. CASE StoreOperation
  BY <1>1, StoreOperationInv
<1>2. CASE ExecutionStep
  BY <1>2, ExecuteInv, PanicInv, InstructionInv, FinishInv DEF ExecutionStep
<1>3. CASE UNCHANGED vars
  BY <1>3 DEF vars, IInv, TypeOK, SnapshotCurrent, IsAccountMap, IsPairs, merge_accounts
<1>. QED
  BY <1>1, <1>2, <1>3 DEF Next

(* Every variable of the machine always holds a value of its type: no      *)
(* account with a balance beyond u64 is stored, resolved or returned.      *)
THEOREM TypeCorrect == Spec => []TypeOK
<1>1. IInv => TypeOK
  BY DEF IInv
<1>. QED
  BY <1>1, InitInv, NextInv, PTL DEF Spec

-----------------------------------------------------------------------------
(***************************************************************************)
(* What a call returns, and what it leaves in the database.                *)
(***************************************************************************)

(* A running call ends by its last step only. *)
LEMMA CallEndsByFinish ==
  ASSUME Next, tx # NoTx, tx' = NoTx
  PROVE  finish
<1>1. ~StoreOperation
  BY DEF StoreOperation, set_account, airdrop, airdrop_panics, create_account, set_amount,
         set_amount_panics, running
<1>2. \A chain, given, commit : ~execute_inner(chain, given, commit)
  BY DEF execute_inner
<1>3. \A chain : ~execute_inner_panics(chain)
  BY DEF execute_inner_panics
<1>4. \A post : ~instruction_succeeds(post) /\ ~instruction_fails(post)
  BY DEF instruction_succeeds, instruction_fails
<1>. QED
  BY <1>1, <1>2, <1>3, <1>4 DEF Next, ExecutionStep

(* After a committed success, every copy of an account the message names,  *)
(* in the result and in the database, is the same, for all duplicates a    *)
(* client may have listed.                                                 *)
THEOREM NamedAccountsAgree == Spec => NamedAccountsUnambiguous
<1> DEFINE Agree == /\ Finished /\ raw_result = "ok" /\ tx' = NoTx
                    /\ tx.commit
                    => \A k \in MessageKeys(tx.instructions) \cap DOMAIN merged.first :
                         /\ result'.accounts.first[k] = accounts'[k]
                         /\ result'.accounts.last[k] = accounts'[k]
<1>1. ASSUME IInv, Next, Finished, raw_result = "ok", tx' = NoTx, tx.commit,
             NEW k \in MessageKeys(tx.instructions) \cap DOMAIN merged.first
      PROVE  /\ result'.accounts.first[k] = accounts'[k]
             /\ result'.accounts.last[k] = accounts'[k]
  <2>1. finish
    BY <1>1, CallEndsByFinish DEF Finished
  <2>2. /\ result'.accounts = resulting_pairs
        /\ accounts' = Overlay(resulting_pairs.last, accounts)
    BY <1>1, <2>1 DEF finish, Returned, commit_accounts
  <2>3. k \in DOMAIN transaction_accounts /\ k \in DOMAIN merged.last
    BY <1>1 DEF IInv, TypeOK, SnapshotCurrent, IsPairs, Finished
  <2>4. /\ resulting_pairs.first[k] = transaction_accounts[k]
        /\ resulting_pairs.last[k] = transaction_accounts[k]
        /\ k \in DOMAIN resulting_pairs.last
    BY <1>1, <2>3 DEF resulting_pairs, deconstruct_resulting_accounts
  <2>5. accounts'[k] = transaction_accounts[k]
    BY <2>2, <2>4 DEF Overlay
  <2>. QED
    BY <2>2, <2>4, <2>5
<1>2. IInv /\ [Next]_vars => [Agree]_vars
  BY <1>1
<1>. QED
  BY <1>2, InitInv, NextInv, PTL DEF Spec, NamedAccountsUnambiguous

(* The balances a result calls the earlier ones are those the database had *)
(* before the call, whatever the chain did meanwhile.                      *)
THEOREM PreBalancesAreEarlier == Spec => PreBalancesAreThePast
<1> DEFINE Past == Finished /\ tx' = NoTx
                   => \A k \in DOMAIN accounts \ DOMAIN tx.given.first :
                        result'.pre_balances[k] = accounts[k].lamports
<1>1. ASSUME IInv, Next, Finished, tx' = NoTx,
             NEW k \in DOMAIN accounts \ DOMAIN tx.given.first
      PROVE  result'.pre_balances[k] = accounts[k].lamports
  <2>1. finish
    BY <1>1, CallEndsByFinish DEF Finished
  <2>2. merged.first = Overlay(tx.given.first, accounts)
    BY <1>1 DEF IInv, SnapshotCurrent, Finished, merge_accounts
  <2>3. k \in DOMAIN merged.first /\ merged.first[k] = accounts[k]
    BY <2>2 DEF Overlay
  <2>. QED
    BY <2>1, <2>3 DEF finish, Returned, Balances
<1>2. IInv /\ [Next]_vars => [Past]_vars
  BY <1>1
<1>. QED
  BY <1>2, InitInv, NextInv, PTL DEF Spec, PreBalancesAreThePast

-----------------------------------------------------------------------------
(***************************************************************************)
(* Induction over the natural numbers, for a set of numbers.               *)
(***************************************************************************)
LEMMA NaturalsInSet ==
  ASSUME NEW S, 0 \in S, \A n \in S \cap Nat : n + 1 \in S
  PROVE  Nat \subseteq S
<1>. DEFINE T == Nat \ S
<1>1. ASSUME T # {} PROVE FALSE
  <2>. DEFINE R == OpToRel(<, Nat)
  <2>1. IsWellFoundedOn(R, Nat)
    BY NatLessThanWellFounded
  <2>2. R = {p \in Nat \X Nat : p[1] < p[2]}
    BY Zenon DEF OpToRel
  <2>3. T \subseteq Nat
    OBVIOUS
  <2>. HIDE DEF R
  <2>4. PICK n \in T : \A m \in T : ~(<<m, n>> \in R)
    <3>. HIDE DEF T
    <3>. QED
      BY <1>1, <2>1, <2>3, WFMin
  <2>5. \A m \in T : ~(m < n)
    BY <2>2, <2>4
  <2>6. n # 0 /\ n - 1 \in Nat /\ n - 1 \notin T
    BY <2>5
  <2>7. n - 1 \in S \cap Nat
    BY <2>6
  <2>8. (n - 1) + 1 \in S
    BY <2>7
  <2>. QED
    BY <2>6, <2>8
<1>. QED
  BY <1>1

(* Induction over the subsets of a finite set, for a set of sets. *)
LEMMA SubsetsInSet ==
  ASSUME NEW T, IsFiniteSet(T), NEW D, {} \in D,
         \A S \in SUBSET T : S # {} /\ (\A x \in S : S \ {x} \in D) => S \in D
  PROVE  \A S \in SUBSET T : S \in D
<1>. DEFINE N == {n \in Nat : \A S \in SUBSET T : Cardinality(S) = n => S \in D}
<1>1. \A S \in SUBSET T : IsFiniteSet(S) /\ Cardinality(S) \in Nat
  BY FS_Subset, FS_CardinalityType
<1>2. 0 \in N
  <2>1. \A S \in SUBSET T : Cardinality(S) = 0 => S = {}
    BY <1>1, FS_EmptySet
  <2>. QED
    BY <2>1
<1>3. ASSUME NEW n \in N \cap Nat PROVE n + 1 \in N
  <2>1. ASSUME NEW S \in SUBSET T, Cardinality(S) = n + 1 PROVE S \in D
    <3>1. ASSUME NEW x \in S PROVE S \ {x} \in D
      <4>1. Cardinality(S \ {x}) = Cardinality(S) - 1
        BY <1>1, FS_RemoveElement
      <4>2. Cardinality(S \ {x}) = n
        BY <2>1, <4>1
      <4>3. S \ {x} \in SUBSET T
        OBVIOUS
      <4>. QED
        BY <4>2, <4>3
    <3>2. S # {}
      <4>1. Cardinality(S) # 0
        BY <2>1
      <4>. QED
        BY <4>1, FS_EmptySet
    <3>. QED
      BY <3>1, <3>2
  <2>. QED
    BY <2>1
<1>4. Nat \subseteq N
  <2>. HIDE DEF N
  <2>. QED
    BY <1>2, <1>3, NaturalsInSet
<1>. QED
  BY <1>1, <1>4

-----------------------------------------------------------------------------
(***************************************************************************)
(* Sums.                                                                   *)
(***************************************************************************)
Some(s) == CHOOSE x \in s : TRUE

(* F is the function that the sum of f over T recurs in. *)
Summed(f, T, F) ==
  F = [s \in SUBSET T |-> IF s = {} THEN 0 ELSE f[Some(s)] + F[s \ {Some(s)}]]

LEMMA SomeIn == \A s : s # {} => Some(s) \in s
BY DEF Some

LEMMA SummedExists ==
  ASSUME NEW f, NEW T, IsFiniteSet(T)
  PROVE  \E F : Summed(f, T, F)
<1>. DEFINE step(F, s) == IF s = {} THEN 0 ELSE f[Some(s)] + F[s \ {Some(s)}]
            Upto(F, n) == \A s \in SUBSET T : Cardinality(s) <= n => F[s] = step(F, s)
            N == {n \in Nat : \E F : Upto(F, n)}
<1>1. \A S \in SUBSET T : IsFiniteSet(S) /\ Cardinality(S) \in Nat /\ Cardinality(S) <= Cardinality(T)
  BY FS_Subset, FS_CardinalityType
<1>2. 0 \in N
  <2>. DEFINE F == [s \in SUBSET T |-> 0]
  <2>1. \A S \in SUBSET T : Cardinality(S) <= 0 => S = {}
    BY <1>1, FS_EmptySet
  <2>2. Upto(F, 0)
    BY <2>1
  <2>. QED
    BY <2>2
<1>3. ASSUME NEW n \in N \cap Nat PROVE n + 1 \in N
  <2>1. PICK F : Upto(F, n)
    OBVIOUS
  <2>. DEFINE G == [s \in SUBSET T |-> step(F, s)]
  <2>2. ASSUME NEW s \in SUBSET T, Cardinality(s) <= n + 1 PROVE G[s] = step(G, s)
    <3>1. CASE s = {}
      BY <3>1
    <3>2. CASE s # {}
      <4>. DEFINE x == Some(s)
                  r == s \ {x}
      <4>1. x \in s
        BY <3>2, SomeIn
      <4>2. r \in SUBSET T /\ Cardinality(r) = Cardinality(s) - 1
        BY <1>1, <4>1, FS_RemoveElement
      <4>3. Cardinality(r) <= n
        BY <1>1, <2>2, <4>2
      <4>4. F[r] = G[r]
        BY <2>1, <4>2, <4>3
      <4>5. G[s] = f[x] + F[r]
        BY <3>2
      <4>6. step(G, s) = f[x] + G[r]
        BY <3>2
      <4>. QED
        BY <4>4, <4>5, <4>6, Zenon
    <3>. QED
      BY <3>1, <3>2
  <2>3. Upto(G, n + 1)
    BY <2>2
  <2>4. n + 1 \in Nat
    OBVIOUS
  <2>. HIDE DEF G, Upto
  <2>. QED
    BY <2>3, <2>4
<1>4. Nat \subseteq N
  <2>. HIDE DEF N
  <2>. QED
    BY <1>2, <1>3, NaturalsInSet
<1>5. Cardinality(T) \in N
  BY <1>4, FS_CardinalityType
<1>6. PICK F : Upto(F, Cardinality(T))
  BY <1>5
<1>. DEFINE G == [s \in SUBSET T |-> F[s]]
<1>7. ASSUME NEW s \in SUBSET T PROVE G[s] = step(G, s)
  <2>1. F[s] = step(F, s)
    BY <1>1, <1>6
  <2>2. s \ {Some(s)} \in SUBSET T
    OBVIOUS
  <2>3. G[s] = F[s] /\ G[s \ {Some(s)}] = F[s \ {Some(s)}]
    BY <2>2
  <2>. QED
    BY <2>1, <2>3
<1>8. G = [s \in SUBSET T |-> step(G, s)]
  BY <1>7
<1>. HIDE DEF G
<1>. QED
  BY <1>8 DEF Summed

LEMMA SumIsSummed ==
  ASSUME NEW f, NEW T, IsFiniteSet(T)
  PROVE  \E F : Summed(f, T, F) /\ SumFunctionOnSet(f, T) = F[T]
<1>. DEFINE F == CHOOSE F : Summed(f, T, F)
<1>1. Summed(f, T, F)
  BY SummedExists
<1>2. SumFunctionOnSet(f, T) = F[T]
  BY Zenon DEF SumFunctionOnSet, FoldFunctionOnSet, MapThenFoldSet, Summed, Some
<1>. QED
  BY <1>1, <1>2

(* The sum depends on the values in the set only. *)
LEMMA SummedUnique ==
  ASSUME NEW f, NEW T, NEW F, Summed(f, T, F), NEW g, NEW U, NEW G, Summed(g, U, G),
         IsFiniteSet(U), U \subseteq T, \A x \in U : f[x] = g[x]
  PROVE  F[U] = G[U]
<1>. DEFINE D == {s \in SUBSET U : F[s] = G[s]}
<1>1. ASSUME NEW s \in SUBSET U
      PROVE  /\ F[s] = IF s = {} THEN 0 ELSE f[Some(s)] + F[s \ {Some(s)}]
             /\ G[s] = IF s = {} THEN 0 ELSE g[Some(s)] + G[s \ {Some(s)}]
  BY DEF Summed
<1>2. {} \in D
  BY <1>1
<1>3. ASSUME NEW s \in SUBSET U, s # {}, \A x \in s : s \ {x} \in D PROVE s \in D
  <2>1. Some(s) \in s /\ f[Some(s)] = g[Some(s)]
    BY <1>3, SomeIn
  <2>2. F[s \ {Some(s)}] = G[s \ {Some(s)}]
    BY <1>3, <2>1
  <2>. QED
    BY <1>1, <1>3, <2>1, <2>2
<1>4. \A s \in SUBSET U : s \in D
  <2>. HIDE DEF D
  <2>. QED
    BY <1>2, <1>3, SubsetsInSet
<1>. QED
  BY <1>4

Sum(f, S) == SumFunctionOnSet(f, S)

LEMMA SumSame ==
  ASSUME NEW S, IsFiniteSet(S), NEW f, NEW g, \A x \in S : f[x] = g[x]
  PROVE  Sum(f, S) = Sum(g, S)
<1>1. PICK F : Summed(f, S, F) /\ SumFunctionOnSet(f, S) = F[S]
  BY SumIsSummed
<1>2. PICK G : Summed(g, S, G) /\ SumFunctionOnSet(g, S) = G[S]
  BY SumIsSummed
<1>3. F[S] = G[S]
  BY <1>1, <1>2, SummedUnique
<1>. QED
  BY <1>1, <1>2, <1>3 DEF Sum

LEMMA SumEmpty == \A f : Sum(f, {}) = 0
<1>. TAKE f
<1>1. PICK F : Summed(f, {}, F) /\ SumFunctionOnSet(f, {}) = F[{}]
  BY SumIsSummed, FS_EmptySet
<1>2. F[{}] = 0
  BY <1>1 DEF Summed
<1>. QED
  BY <1>1, <1>2 DEF Sum

LEMMA SumSome ==
  ASSUME NEW f, NEW S, IsFiniteSet(S), S # {}
  PROVE  Some(S) \in S /\ Sum(f, S) = f[Some(S)] + Sum(f, S \ {Some(S)})
<1>. DEFINE R == S \ {Some(S)}
<1>1. PICK F : Summed(f, S, F) /\ SumFunctionOnSet(f, S) = F[S]
  BY SumIsSummed
<1>2. IsFiniteSet(R) /\ R \subseteq S
  BY FS_Subset
<1>3. PICK G : Summed(f, R, G) /\ SumFunctionOnSet(f, R) = G[R]
  BY <1>2, SumIsSummed
<1>4. F[R] = G[R]
  <2>. HIDE DEF R
  <2>. QED
    BY <1>1, <1>2, <1>3, SummedUnique
<1>5. F[S] = f[Some(S)] + F[R]
  BY <1>1 DEF Summed
<1>. QED
  BY <1>1, <1>3, <1>4, <1>5, SomeIn DEF Sum

LEMMA SumNat ==
  ASSUME NEW T, IsFiniteSet(T), NEW f, \A x \in T : f[x] \in Nat
  PROVE  \A S \in SUBSET T : Sum(f, S) \in Nat
<1>. DEFINE D == {S \in SUBSET T : Sum(f, S) \in Nat}
<1>1. {} \in D
  BY SumEmpty
<1>2. ASSUME NEW S \in SUBSET T, S # {}, \A x \in S : S \ {x} \in D PROVE S \in D
  <2>1. IsFiniteSet(S)
    BY FS_Subset
  <2>2. Some(S) \in S /\ Sum(f, S) = f[Some(S)] + Sum(f, S \ {Some(S)})
    BY <1>2, <2>1, SumSome
  <2>3. Sum(f, S \ {Some(S)}) \in Nat
    BY <1>2, <2>2
  <2>. QED
    BY <2>2, <2>3
<1>3. \A S \in SUBSET T : S \in D
  <2>. HIDE DEF D
  <2>. QED
    BY <1>1, <1>2, SubsetsInSet
<1>. QED
  BY <1>3

(* Any element may be added last. *)
LEMMA SumRemove ==
  ASSUME NEW T, IsFiniteSet(T), NEW f, \A x \in T : f[x] \in Nat
  PROVE  \A S \in SUBSET T : \A x \in S : Sum(f, S) = f[x] + Sum(f, S \ {x})
<1>. DEFINE D == {S \in SUBSET T : \A x \in S : Sum(f, S) = f[x] + Sum(f, S \ {x})}
<1>1. {} \in D
  OBVIOUS
<1>2. ASSUME NEW S \in SUBSET T, S # {}, \A x \in S : S \ {x} \in D PROVE S \in D
  <2>. DEFINE c == Some(S)
  <2>1. IsFiniteSet(S)
    BY FS_Subset
  <2>2. c \in S /\ Sum(f, S) = f[c] + Sum(f, S \ {c})
    BY <1>2, <2>1, SumSome
  <2>. HIDE DEF c
  <2>3. ASSUME NEW x \in S, x # c PROVE Sum(f, S) = f[x] + Sum(f, S \ {x})
    <3>1. S \ {c} \in D /\ S \ {x} \in D /\ x \in S \ {c} /\ c \in S \ {x}
      BY <1>2, <2>2, <2>3
    <3>2. Sum(f, S \ {c}) = f[x] + Sum(f, (S \ {c}) \ {x})
      BY <3>1
    <3>3. Sum(f, S \ {x}) = f[c] + Sum(f, (S \ {x}) \ {c})
      BY <3>1
    <3>4. (S \ {c}) \ {x} = (S \ {x}) \ {c} /\ (S \ {x}) \ {c} \in SUBSET T
      OBVIOUS
    <3>5. Sum(f, (S \ {x}) \ {c}) \in Nat /\ f[x] \in Nat /\ f[c] \in Nat
      BY <2>2, <3>4, SumNat
    <3>6. Sum(f, (S \ {c}) \ {x}) = Sum(f, (S \ {x}) \ {c})
      BY <3>4
    <3>. QED
      BY <2>2, <3>2, <3>3, <3>5, <3>6
  <2>. QED
    BY <2>2, <2>3
<1>3. \A S \in SUBSET T : S \in D
  <2>. HIDE DEF D
  <2>. QED
    BY <1>1, <1>2, SubsetsInSet
<1>. QED
  BY <1>3

LEMMA SumUnion ==
  ASSUME NEW A, NEW B, IsFiniteSet(A), IsFiniteSet(B), A \cap B = {},
         NEW f, \A x \in A \cup B : f[x] \in Nat
  PROVE  /\ Sum(f, A) \in Nat /\ Sum(f, B) \in Nat
         /\ Sum(f, A \cup B) = Sum(f, A) + Sum(f, B)
<1>. DEFINE T == A \cup B
            D == {S \in SUBSET A : Sum(f, S \cup B) = Sum(f, S) + Sum(f, B)}
<1>1. IsFiniteSet(T)
  BY FS_Union
<1>2. \A S \in SUBSET T : Sum(f, S) \in Nat /\ \A x \in S : Sum(f, S) = f[x] + Sum(f, S \ {x})
  <2>1. \A x \in T : f[x] \in Nat
    OBVIOUS
  <2>. HIDE DEF T
  <2>. QED
    BY <1>1, <2>1, SumNat, SumRemove
<1>3. {} \in D
  <2>1. {} \cup B = B /\ Sum(f, {}) = 0 /\ Sum(f, B) \in Nat
    BY <1>2, SumEmpty
  <2>. QED
    BY <2>1
<1>4. ASSUME NEW S \in SUBSET A, S # {}, \A x \in S : S \ {x} \in D PROVE S \in D
  <2>1. PICK x : x \in S
    BY <1>4
  <2>2. Sum(f, (S \ {x}) \cup B) = Sum(f, S \ {x}) + Sum(f, B)
    BY <1>4, <2>1
  <2>3. /\ S \in SUBSET T /\ S \cup B \in SUBSET T /\ x \in S \cup B /\ S \ {x} \in SUBSET T
        /\ B \in SUBSET T
    BY <2>1
  <2>4. Sum(f, S) = f[x] + Sum(f, S \ {x})
    BY <1>2, <2>1, <2>3
  <2>5. Sum(f, S \cup B) = f[x] + Sum(f, (S \cup B) \ {x})
    BY <1>2, <2>3
  <2>6. (S \cup B) \ {x} = (S \ {x}) \cup B
    BY <2>1
  <2>7. Sum(f, S \ {x}) \in Nat /\ Sum(f, B) \in Nat /\ f[x] \in Nat
    BY <1>2, <2>1, <2>3
  <2>8. Sum(f, S \cup B) = f[x] + Sum(f, (S \ {x}) \cup B)
    BY <2>5, <2>6
  <2>9. Sum(f, S \cup B) = Sum(f, S) + Sum(f, B)
    BY <2>2, <2>4, <2>7, <2>8
  <2>. QED
    BY <2>9
<1>5. \A S \in SUBSET A : S \in D
  <2>. HIDE DEF D
  <2>. QED
    BY <1>3, <1>4, SubsetsInSet
<1>6. A \in SUBSET T /\ B \in SUBSET T
  OBVIOUS
<1>. QED
  BY <1>2, <1>5, <1>6

-----------------------------------------------------------------------------
(***************************************************************************)
(* Lamports.                                                               *)
(***************************************************************************)
(* The total of a map is that of its two parts. *)
LEMMA TotalParts ==
  ASSUME NEW map, IsAccountMap(map), NEW A
  PROVE  LET inside == Restrict(map, DOMAIN map \cap A)
             outside == Restrict(map, DOMAIN map \ A)
         IN  /\ Total(inside) \in Nat /\ Total(outside) \in Nat
             /\ Total(map) = Total(inside) + Total(outside)
<1>. DEFINE M == DOMAIN map
            f == Balances(map)
<1>1. \A S \in SUBSET M : Total(Restrict(map, S)) = Sum(f, S)
  <2>. SUFFICES ASSUME NEW S \in SUBSET M
                PROVE  Total(Restrict(map, S)) = Sum(f, S)
    OBVIOUS
  <2>. DEFINE g == Balances(Restrict(map, S))
  <2>1. DOMAIN g = S /\ \A k \in S : g[k] = f[k]
    BY DEF Balances, Restrict
  <2>2. Total(Restrict(map, S)) = Sum(g, S)
    BY <2>1, Zenon DEF Total, SumFunction, Sum
  <2>3. IsFiniteSet(S)
    BY KeysAssumption, FS_Subset DEF IsAccountMap
  <2>. HIDE DEF f, g
  <2>. QED
    BY <2>1, <2>2, <2>3, SumSame
<1>2. map = Restrict(map, M)
  BY DEF IsAccountMap, Restrict
<1>3. Total(map) = Sum(f, M)
  BY <1>1, <1>2
<1>4. \A k \in M : f[k] \in Nat
  BY ValuesAssumption DEF IsAccountMap, Account, Lamports, Balances
<1>5. IsFiniteSet(M \cap A) /\ IsFiniteSet(M \ A)
  BY KeysAssumption, FS_Subset DEF IsAccountMap
<1>6. (M \cap A) \cup (M \ A) = M /\ (M \cap A) \cap (M \ A) = {}
  OBVIOUS
<1>. HIDE DEF f, M
<1>7. /\ Sum(f, M \cap A) \in Nat /\ Sum(f, M \ A) \in Nat
      /\ Sum(f, (M \cap A) \cup (M \ A)) = Sum(f, M \cap A) + Sum(f, M \ A)
  BY <1>4, <1>5, <1>6, SumUnion
<1>8. /\ Total(Restrict(map, M \cap A)) = Sum(f, M \cap A)
      /\ Total(Restrict(map, M \ A)) = Sum(f, M \ A)
  BY <1>1
<1>. QED
  BY <1>3, <1>6, <1>7, <1>8 DEF M

(* While nothing fails, the accounts of a call hold together what they     *)
(* held when it resolved them.                                             *)
Conserved ==
  tx # NoTx /\ raw_result = "ok" =>
    Total(transaction_accounts) = Total(compile_accounts(tx.instructions, merged))

LEMMA InstructionConserves ==
  ASSUME IInv, NEW post \in Writes, instruction_succeeds(post)
  PROVE  Total(transaction_accounts') = Total(transaction_accounts)
<1>. DEFINE old == transaction_accounts
            new == Overlay(post, old)
            D == DOMAIN old
<1>1. /\ InstructionPending /\ transaction_accounts' = new
      /\ Total(post) = Total(Restrict(old, Writable))
  BY DEF instruction_succeeds
<1>2. IsAccountMap(post) /\ DOMAIN post = Writable /\ Writable \subseteq D
  BY <1>1, WritesType
<1>3. IsAccountMap(old) /\ IsAccountMap(new) /\ DOMAIN new = D
  BY <1>2, OverlayType DEF IInv, TypeOK, Overlay
<1>4. Restrict(new, D \cap Writable) = post
  BY <1>2 DEF Overlay, Restrict, IsAccountMap
<1>5. Restrict(new, D \ Writable) = Restrict(old, D \ Writable)
  BY <1>2 DEF Overlay, Restrict
<1>6. D \cap Writable = Writable
  BY <1>2
<1>. HIDE DEF new
<1>7. Total(new) = Total(post) + Total(Restrict(old, D \ Writable))
  <2>1. Total(new) = Total(Restrict(new, DOMAIN new \cap Writable))
                       + Total(Restrict(new, DOMAIN new \ Writable))
    BY <1>3, TotalParts
  <2>. QED
    BY <2>1, <1>3, <1>4, <1>5
<1>8. Total(old) = Total(Restrict(old, Writable)) + Total(Restrict(old, D \ Writable))
  BY <1>3, <1>6, TotalParts
<1>. QED
  BY <1>1, <1>7, <1>8

LEMMA ConservedInv == IInv /\ Conserved /\ [Next]_vars => Conserved'
<1>. SUFFICES ASSUME IInv, Conserved, [Next]_vars, (tx # NoTx)', (raw_result = "ok")'
              PROVE  Total(transaction_accounts')
                       = Total(compile_accounts(tx'.instructions, merged'))
  BY DEF Conserved, compile_accounts, fallback
<1>1. ASSUME StoreOperation PROVE FALSE
  BY <1>1 DEF StoreOperation, set_account, airdrop, airdrop_panics, create_account, set_amount,
              set_amount_panics, running
<1>2. ASSUME NEW chain, NEW given, NEW commit, execute_inner(chain, given, commit)
      PROVE  transaction_accounts' = compile_accounts(tx'.instructions, merged')
  BY <1>2 DEF execute_inner
<1>3. ASSUME NEW chain, execute_inner_panics(chain) PROVE FALSE
  BY <1>3 DEF execute_inner_panics, running
<1>4. ASSUME NEW post \in Writes, instruction_succeeds(post)
      PROVE  Total(transaction_accounts') = Total(compile_accounts(tx'.instructions, merged'))
  <2>1. Total(transaction_accounts') = Total(transaction_accounts)
    BY <1>4, InstructionConserves
  <2>2. tx # NoTx /\ raw_result = "ok" /\ tx' = tx /\ merged' = merged
    BY <1>4 DEF instruction_succeeds, InstructionPending
  <2>. QED
    BY <2>1, <2>2 DEF Conserved
<1>5. ASSUME NEW post, instruction_fails(post) PROVE FALSE
  BY <1>5 DEF instruction_fails
<1>6. ASSUME finish PROVE FALSE
  BY <1>6 DEF finish
<1>7. CASE UNCHANGED vars
  BY <1>7 DEF vars, Conserved
<1>. QED
  BY <1>1, <1>2, <1>3, <1>4, <1>5, <1>6, <1>7 DEF Next, ExecutionStep

(* What a committed chain leaves in the database holds as many lamports as *)
(* what went in, at any number of accounts and instructions: nothing is    *)
(* lost between the merge, the instructions, the read-back and the commit. *)
THEOREM LamportsAreConserved == Spec => LamportsConserved
<1>. DEFINE Kept ==
       /\ Finished /\ raw_result = "ok" /\ tx' = NoTx
       /\ tx.commit
       /\ tx.given.first = tx.given.last
       /\ WritableKeys(tx.instructions) \subseteq DOMAIN merged.first
       => Total(accounts') = Total(merged.first)
<1>1. ASSUME IInv, Conserved, Next, Finished, raw_result = "ok", tx' = NoTx, tx.commit,
             tx.given.first = tx.given.last,
             WritableKeys(tx.instructions) \subseteq DOMAIN merged.first
      PROVE  Total(accounts') = Total(merged.first)
  <2>. DEFINE old == merged.first
              now == transaction_accounts
              start == compile_accounts(tx.instructions, merged)
              K == MessageKeys(tx.instructions)
              M == DOMAIN old
  <2>1. finish /\ tx # NoTx
    BY <1>1, CallEndsByFinish DEF Finished
  <2>2. /\ merged.last = old /\ DOMAIN accounts \subseteq M
        /\ old = Overlay(tx.given.first, accounts)
    BY <1>1, <2>1 DEF IInv, SnapshotCurrent, merge_accounts, Overlay
  <2>3. DOMAIN now = K /\ IsAccountMap(now) /\ IsAccountMap(old)
    BY <1>1, <2>1 DEF IInv, TypeOK, SnapshotCurrent, IsPairs
  <2>4. tx.instructions \in Chains
    BY <1>1, <2>1 DEF IInv, TypeOK, Tx
  <2>5. IsAccountMap(start) /\ DOMAIN start = K
    BY <1>1, <2>4, CompileType DEF IInv, TypeOK
  <2>6. accounts' = Overlay(resulting_pairs.last, accounts)
    BY <1>1, <2>1 DEF finish, commit_accounts
  <2>7. /\ DOMAIN resulting_pairs.last = M
        /\ \A k \in M : resulting_pairs.last[k] = IF k \in K THEN now[k] ELSE old[k]
    BY <1>1, <2>2, <2>3 DEF resulting_pairs, deconstruct_resulting_accounts
  <2>8. /\ IsAccountMap(accounts') /\ DOMAIN accounts' = M
        /\ \A k \in M : accounts'[k] = IF k \in K THEN now[k] ELSE old[k]
    <3>1. IsAccountMap(accounts')
      BY <1>1, <2>1, FinishInv DEF IInv, TypeOK
    <3>. QED
      BY <3>1, <2>2, <2>6, <2>7 DEF Overlay
  <2>9. \A k \in K \cap M : start[k] = old[k]
    BY DEF compile_accounts
  <2>10. \A k \in K \ M : now[k] = start[k]
    BY <1>1, <2>1 DEF IInv, SnapshotCurrent
  <2>11. Total(now) = Total(start)
    BY <1>1, <2>1 DEF Conserved
  <2>. HIDE DEF old, now, start, K
  <2>12. /\ Restrict(accounts', M \cap K) = Restrict(now, K \cap M)
         /\ Restrict(accounts', M \ K) = Restrict(old, M \ K)
         /\ Restrict(now, K \ M) = Restrict(start, K \ M)
         /\ Restrict(start, K \cap M) = Restrict(old, M \cap K)
    BY <2>8, <2>9, <2>10 DEF Restrict
  <2>13. /\ Total(Restrict(accounts', M \cap K)) \in Nat
         /\ Total(accounts') = Total(Restrict(accounts', M \cap K)) + Total(Restrict(accounts', M \ K))
    BY <2>8, TotalParts
  <2>14. /\ Total(Restrict(now, K \ M)) \in Nat /\ Total(Restrict(now, K \cap M)) \in Nat
         /\ Total(now) = Total(Restrict(now, K \cap M)) + Total(Restrict(now, K \ M))
    BY <2>3, TotalParts
  <2>15. /\ Total(Restrict(start, K \cap M)) \in Nat
         /\ Total(start) = Total(Restrict(start, K \cap M)) + Total(Restrict(start, K \ M))
    BY <2>5, TotalParts
  <2>16. Total(old) = Total(Restrict(old, M \cap K)) + Total(Restrict(old, M \ K))
    BY <2>3, TotalParts
  <2>17. Total(Restrict(now, K \cap M)) = Total(Restrict(start, K \cap M))
    <3>1. ASSUME NEW a \in Nat, NEW b \in Nat, NEW c \in Nat, a + b = c + b PROVE a = c
      BY <3>1
    <3>2. Total(Restrict(now, K \ M)) = Total(Restrict(start, K \ M))
      BY <2>12
    <3>3. Total(Restrict(now, K \cap M)) + Total(Restrict(now, K \ M))
            = Total(Restrict(start, K \cap M)) + Total(Restrict(now, K \ M))
      BY <2>11, <2>14, <2>15, <3>2
    <3>. QED
      BY <2>14, <2>15, <3>1, <3>3
  <2>18. Total(accounts') = Total(old)
    BY <2>12, <2>13, <2>16, <2>17
  <2>. QED
    BY <2>18 DEF old
<1>2. Init => Conserved
  BY DEF Init, Conserved
<1>3. IInv /\ Conserved /\ [Next]_vars => [Kept]_vars
  BY <1>1
<1>. QED
  BY <1>2, <1>3, ConservedInv, InitInv, NextInv, PTL DEF Spec, LamportsConserved

-----------------------------------------------------------------------------
(***************************************************************************)
(* Refinement: the machine implements the ledger.                          *)
(***************************************************************************)
LEMMA LedgerInit == Init => L!Init
BY DEF Init, L!Init, PendingCall, LastReply, NoCall, L!NoCall, L!Empty, Nothing, Unit, Returned,
       NoPairs

(* Between two calls nothing is pending. *)
LEMMA IdleCall == ASSUME tx = NoTx PROVE PendingCall = L!NoCall
BY DEF PendingCall, NoCall, L!NoCall, L!Empty, Nothing

(* A database operation writes one account, or panics and writes nothing. *)
LEMMA StoreOperationRefines ==
  ASSUME IInv, StoreOperation
  PROVE  L!Next
<1>1. /\ tx = NoTx
      /\ UNCHANGED running
      /\ PendingCall = L!NoCall
      /\ UNCHANGED PendingCall
  BY IdleCall DEF StoreOperation, set_account, airdrop, airdrop_panics, create_account,
         set_amount, set_amount_panics, running, PendingCall
<1>2. ASSUME NEW k \in ClientKeys, NEW account, Store(k, account), result' = Unit
      PROVE  L!Put(k)
  <2>1. accounts' = L!Overlay([x \in {k} |-> account], accounts)
    BY <1>2 DEF Store, Overlay, L!Overlay
  <2>2. k \in DOMAIN accounts' /\ accounts'[k] = account
    BY <2>1 DEF L!Overlay
  <2>3. accounts'[k] \in Account
    BY <2>2, StoreOperationInv, InputsAssumption DEF IInv, TypeOK, IsAccountMap
  <2>4. LastReply'.status = "none"
    BY <1>2 DEF LastReply, Unit, Returned
  <2>5. [x \in {k} |-> accounts'[k]] = [x \in {k} |-> account]
    BY <2>2
  <2>. QED
    BY <1>1, <2>1, <2>2, <2>3, <2>4, <2>5 DEF L!Put
<1>3. ASSUME result' = Panicked, UNCHANGED accounts
      PROVE  L!Panic
  BY <1>1, <1>3 DEF L!Panic, LastReply, Panicked, Returned
<1>4. \/ \E k \in ClientKeys : \E account : Store(k, account) /\ result' = Unit
      \/ result' = Panicked /\ UNCHANGED accounts
  BY DEF StoreOperation, set_account, airdrop, airdrop_panics, create_account,
         set_amount, set_amount_panics
<1>. QED
  BY <1>2, <1>3, <1>4, InputsAssumption DEF L!Next

(* Merging and resolving is the submission of the call. *)
LEMMA ExecuteRefines ==
  ASSUME NEW chain \in Chains, NEW given \in GivenLists, NEW commit \in BOOLEAN,
         execute_inner(chain, given, commit)
  PROVE  L!Submit
<1>1. tx' \in Tx /\ tx' # NoTx
  BY NoTxAssumption DEF execute_inner, Tx
<1>2. PendingCall = L!NoCall /\ PendingCall'.pending
  BY <1>1, IdleCall DEF execute_inner, PendingCall
<1>3. LastReply'.status = "none" /\ UNCHANGED accounts
  BY DEF execute_inner, LastReply, Unit, Returned
<1>. QED
  BY <1>2, <1>3 DEF L!Submit

(* A call whose chain is too long panics before anything is submitted. *)
LEMMA PanicRefines ==
  ASSUME NEW chain, execute_inner_panics(chain)
  PROVE  L!Panic
<1>1. PendingCall = L!NoCall /\ UNCHANGED PendingCall
  BY IdleCall DEF execute_inner_panics, running, PendingCall
<1>2. LastReply'.status = "panic" /\ UNCHANGED accounts
  BY DEF execute_inner_panics, LastReply, Panicked, Returned
<1>. QED
  BY <1>1, <1>2 DEF L!Panic

(* The steps in between are invisible. *)
LEMMA InstructionRefines ==
  ASSUME NEW post, instruction_succeeds(post) \/ instruction_fails(post)
  PROVE  UNCHANGED L!ledgerVars
BY DEF instruction_succeeds, instruction_fails, L!ledgerVars, PendingCall, LastReply

(* What the call knows of an account is one of the copies it was given, or *)
(* the stored account.                                                     *)
LEMMA MergedIsKnown ==
  ASSUME IInv, tx # NoTx
  PROVE  /\ DOMAIN merged.first = DOMAIN L!Known
         /\ DOMAIN merged.last = DOMAIN L!Known
         /\ \A k \in DOMAIN L!Known : /\ merged.first[k] \in L!Known[k]
                                     /\ merged.last[k] \in L!Known[k]
<1>1. IsPairs(tx.given)
  BY InputsAssumption DEF IInv, TypeOK, Tx
<1>2. PendingCall.given = [k \in DOMAIN tx.given.first |-> {tx.given.first[k], tx.given.last[k]}]
  BY DEF PendingCall
<1>3. /\ merged.first = Overlay(tx.given.first, accounts)
      /\ merged.last = Overlay(tx.given.last, accounts)
  BY DEF IInv, SnapshotCurrent, merge_accounts
<1>4. /\ DOMAIN tx.given.last = DOMAIN tx.given.first
      /\ DOMAIN PendingCall.given = DOMAIN tx.given.first
      /\ \A k \in DOMAIN tx.given.first :
           PendingCall.given[k] = {tx.given.first[k], tx.given.last[k]}
  BY <1>1, <1>2 DEF IsPairs
<1>. HIDE DEF PendingCall
<1>. QED
  BY <1>3, <1>4 DEF L!Known, Overlay

(* What the call returns keeps everything it may not write. *)
LEMMA ResultingIsKnown ==
  ASSUME IInv, tx # NoTx
  PROVE  /\ DOMAIN resulting_pairs.last = DOMAIN L!Known
         /\ \A k \in DOMAIN L!Known :
              /\ resulting_pairs.last[k] \in Account
              /\ raw_result = "error" => resulting_pairs.last[k] \in L!Known[k]
              /\ k \notin WritableKeys(tx.instructions) => resulting_pairs.last[k] \in L!Known[k]
<1>1. DOMAIN resulting_pairs.last = DOMAIN L!Known
  BY MergedIsKnown DEF resulting_pairs, deconstruct_resulting_accounts
<1>2. \A k \in DOMAIN L!Known : resulting_pairs.last[k] \in Account
  BY <1>1, ResultingType DEF IsPairs, IsAccountMap
<1>3. ASSUME NEW k \in DOMAIN L!Known, raw_result = "error"
      PROVE  resulting_pairs.last[k] \in L!Known[k]
  BY <1>3, MergedIsKnown DEF resulting_pairs
<1>4. ASSUME NEW k \in DOMAIN L!Known, k \notin WritableKeys(tx.instructions), raw_result = "ok"
      PROVE  resulting_pairs.last[k] \in L!Known[k]
  <2>1. resulting_pairs.last[k] = IF k \in DOMAIN transaction_accounts
                                  THEN transaction_accounts[k] ELSE merged.last[k]
    BY <1>4, MergedIsKnown DEF resulting_pairs, deconstruct_resulting_accounts
  <2>2. k \in DOMAIN transaction_accounts => transaction_accounts[k] = merged.first[k]
    BY <1>4, MergedIsKnown DEF IInv, SnapshotCurrent, compile_accounts
  <2>. QED
    BY <2>1, <2>2, MergedIsKnown
<1>. QED
  BY <1>1, <1>2, <1>3, <1>4 DEF IInv, TypeOK

(* The return of a call is the success or the failure of the ledger's. *)
LEMMA FinishRefines ==
  ASSUME IInv, finish
  PROVE  L!Succeed \/ L!Fail
<1>1. /\ tx # NoTx
      /\ PendingCall.pending
      /\ PendingCall.commit = tx.commit
      /\ PendingCall.writable = WritableKeys(tx.instructions)
      /\ PendingCall' = L!NoCall
  BY DEF finish, Finished, PendingCall, NoCall, L!NoCall, L!Empty, Nothing
<1>2. LastReply' = [status |-> raw_result, accounts |-> resulting_pairs.last]
  BY DEF finish, LastReply, Returned
<1>5. /\ DOMAIN LastReply'.accounts = DOMAIN L!Known
      /\ LastReply'.accounts = resulting_pairs.last
      /\ LastReply'.status = raw_result
  BY <1>1, <1>2, ResultingIsKnown
<1>3. CASE raw_result = "ok"
  <2>1. accounts' = IF tx.commit THEN L!Overlay(resulting_pairs.last, accounts) ELSE accounts
    BY <1>3 DEF finish, commit_accounts, Overlay, L!Overlay
  <2>. QED
    BY <1>1, <1>5, <1>3, <2>1, ResultingIsKnown DEF L!Succeed
<1>4. CASE raw_result = "error"
  <2>1. UNCHANGED accounts
    BY <1>4 DEF finish
  <2>. QED
    BY <1>1, <1>5, <1>4, <2>1, ResultingIsKnown DEF L!Fail
<1>. QED
  BY <1>3, <1>4 DEF IInv, TypeOK

(* Every step of the machine is a step of the ledger, or invisible. *)
LEMMA NextRefines == IInv /\ [Next]_vars => [L!Next]_(L!ledgerVars)
<1> SUFFICES ASSUME IInv, [Next]_vars PROVE L!Next \/ UNCHANGED L!ledgerVars
  OBVIOUS
<1>1. CASE StoreOperation
  BY <1>1, StoreOperationRefines
<1>2. CASE ExecutionStep
  BY <1>2, ExecuteRefines, PanicRefines, InstructionRefines, FinishRefines
     DEF ExecutionStep, L!Next
<1>3. CASE UNCHANGED vars
  BY <1>3 DEF vars, L!ledgerVars, PendingCall, LastReply
<1>. QED
  BY <1>1, <1>2, <1>3 DEF Next

(* Chains are atomic.  For all addresses, accounts, chains and behaviours  *)
(* of programs, a call, committed or simulated, acts on the account        *)
(* database like the one indivisible step of the ledger.                   *)
THEOREM Refinement == Spec => ImplementsLedger
BY InitInv, NextInv, LedgerInit, NextRefines, PTL DEF Spec, ImplementsLedger, L!Spec
=============================================================================
