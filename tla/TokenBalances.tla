--------------------------- MODULE TokenBalances ---------------------------
(***************************************************************************)
(* The lists of a result that are matched by position: the accounts, and   *)
(* the token balances before and after a call, whose account_index points  *)
(* into them (svm/src/svm.rs). An execution is one step here; QuasarSvm    *)
(* has its steps. What matters is which list an index counts in, the order *)
(* the lists are built in, and which account decimals come from.           *)
(***************************************************************************)
EXTENDS Naturals, Sequences, SequencesExt

CONSTANTS
  Addresses,     (* addresses of accounts                                  *)
  MintAddresses, (* those that mints live at                               *)
  Amounts,       (* token amounts                                          *)
  Decimals,      (* decimals of mints                                      *)
  MaxList        (* bound: accounts a client passes with a call            *)

ASSUME ConstantsAssumption ==
  /\ MintAddresses \subseteq Addresses
  /\ Amounts \subseteq Nat /\ Decimals \subseteq Nat /\ MaxList \in Nat

(* What the length of the data and unpack make of an account. *)
Token(m, amount) == [shape |-> "token", mint |-> m, amount |-> amount]
Mint(d) == [shape |-> "mint", decimals |-> d]
Other == [shape |-> "other"]

Contents == {Other} \cup {Mint(d) : d \in Decimals}
              \cup {Token(m, n) : m \in MintAddresses, n \in Amounts}

(* A list of (address, contents) pairs. *)
Pairs == [key : Addresses, acct : Contents]

VARIABLES
  accounts,  (* the account database                                       *)
  passed,    (* the accounts the client passed with the last call          *)
  result     (* the last ExecutionResult, or NoResult                      *)

vars == <<accounts, passed, result>>

NoResult == [ok |-> TRUE, accounts |-> <<>>, pre |-> <<>>, post |-> <<>>]

-----------------------------------------------------------------------------
Keys(list) == {list[i].key : i \in DOMAIN list}

(* The first pair of the list with this key. *)
find(list, k) ==
  list[CHOOSE i \in DOMAIN list : list[i].key = k /\ \A j \in 1 .. i - 1 : list[j].key # k].acct

(* The stored accounts the client did not pass, in any order, then what it *)
(* passed.                                                                 *)
merge_accounts(list) ==
  { [i \in DOMAIN ks |-> [key |-> ks[i], acct |-> accounts[ks[i]]]] \o list :
      ks \in SetToSeqs(DOMAIN accounts \ Keys(list)) }

(* Every listed address with the state the context has for it; a copy of   *)
(* an address that the message does not name stays as it is.               *)
deconstruct_resulting_accounts(list, new) ==
  [i \in DOMAIN list |-> IF list[i].key \in DOMAIN new
                         THEN [list[i] EXCEPT !.acct = new[list[i].key]]
                         ELSE list[i]]

(* One after the other the accounts are inserted: the last copy remains. *)
last(list, k) == find(Reverse(list), k)

commit_accounts(resulting) ==
  [k \in DOMAIN accounts \cup Keys(resulting) |->
     IF k \in Keys(resulting) THEN last(resulting, k) ELSE accounts[k]]

(* Mutant: the decimals of a mint that is not the first account are not found. *)
decimals_of_first_only(list, m) ==
  IF list[1].key = m /\ list[1].acct.shape = "mint" THEN list[1].acct.decimals ELSE 0

(* The first account with the address of the mint decides; one that is no  *)
(* mint, or none at all, counts as no decimals.                            *)
decimals_of(list, m) ==
  IF m \in Keys(list) /\ find(list, m).shape = "mint" THEN find(list, m).decimals ELSE 0

IsToken(pair) == pair.acct.shape = "token"

(* Mutant: accounts are numbered from one past their place. *)
token_balance_one_late(list, i) ==
  [account_index |-> i + 1, mint |-> list[i].acct.mint, amount |-> list[i].acct.amount,
   decimals |-> decimals_of(list, list[i].acct.mint)]

token_balance(list, i) ==
  [account_index |-> i, mint |-> list[i].acct.mint, amount |-> list[i].acct.amount,
   decimals |-> decimals_of(list, list[i].acct.mint)]

(* The places of the token accounts in the list, in order. *)
TokenPlaces(list) ==
  LET places[n \in 0 .. Len(list)] ==
        IF n = 0 THEN <<>>
        ELSE IF IsToken(list[n]) THEN Append(places[n - 1], n) ELSE places[n - 1]
  IN places[Len(list)]

(* Mutant: accounts are numbered after those that hold no tokens are left out. *)
extract_token_balances_numbers_late(list) ==
  LET places == TokenPlaces(list)
  IN [n \in DOMAIN places |-> [token_balance(list, places[n]) EXCEPT !.account_index = n]]

(* One entry per token account, numbered by its place in the whole list. *)
extract_token_balances(list) ==
  LET places == TokenPlaces(list)
  IN [n \in DOMAIN places |-> token_balance(list, places[n])]

-----------------------------------------------------------------------------
Init ==
  /\ accounts = <<>>
  /\ passed = <<>>
  /\ result = NoResult

(* Mutant: both lists of balances are made from the resulting accounts. *)
token_balances_late(merged, resulting) ==
  <<extract_token_balances(resulting), extract_token_balances(resulting)>>

token_balances(merged, resulting) ==
  <<extract_token_balances(merged), extract_token_balances(resulting)>>

(* A call with this list, of which merge_accounts has made merged; resulting *)
(* is what the call returns.                                                 *)
execute_inner(list, merged, ok, resulting, stored) ==
  LET balances == token_balances(merged, resulting)
  IN /\ passed' = list
     /\ result' = [ok |-> ok, accounts |-> resulting, pre |-> balances[1], post |-> balances[2]]
     /\ accounts' = stored

(* The instructions leave the states new behind, of the listed addresses     *)
(* that the message names. What is returned is stored too unless the call is *)
(* a simulation.                                                             *)
succeed(list, merged) ==
  \E named \in SUBSET Keys(merged) : \E new \in [named -> Contents] :
    LET resulting == deconstruct_resulting_accounts(merged, new)
    IN \E stored \in {accounts, commit_accounts(resulting)} :
         execute_inner(list, merged, TRUE, resulting, stored)

fail(list, merged) == execute_inner(list, merged, FALSE, merged, accounts)

(* The client is done with a result; results do not influence later calls. *)
drop_result ==
  /\ result # NoResult
  /\ passed' = <<>>
  /\ result' = NoResult
  /\ UNCHANGED accounts

Next ==
  \/ /\ result = NoResult
     /\ \E list \in BoundedSeq(Pairs, MaxList) : \E merged \in merge_accounts(list) :
          succeed(list, merged) \/ fail(list, merged)
  \/ drop_result

Spec == Init /\ [][Next]_vars

-----------------------------------------------------------------------------
(* Types of the variables. *)
TypeOK ==
  /\ DOMAIN accounts \subseteq Addresses
  /\ \A k \in DOMAIN accounts : accounts[k] \in Contents
  /\ \A i \in DOMAIN result.accounts : result.accounts[i] \in Pairs
  /\ \A list \in {result.pre, result.post} : \A i \in DOMAIN list :
       /\ list[i].account_index \in DOMAIN result.accounts
       /\ list[i].mint \in MintAddresses /\ list[i].amount \in Amounts
       /\ list[i].decimals \in Decimals \cup {0}

(* The entries of post_token_balances are the token accounts of            *)
(* result.accounts, each once, each with the index of its own account and  *)
(* with the amount and mint found there.                                   *)
PostMatchesAccounts ==
  /\ {result.post[n].account_index : n \in DOMAIN result.post}
       = {i \in DOMAIN result.accounts : IsToken(result.accounts[i])}
  /\ \A n \in DOMAIN result.post :
       LET e == result.post[n]
       IN result.accounts[e.account_index].acct = Token(e.mint, e.amount)

(* What one account held before the call, by the client's list or else by  *)
(* the database.                                                           *)
Held(k, acct) ==
  \/ \E i \in DOMAIN passed' : passed'[i] = [key |-> k, acct |-> acct]
  \/ k \notin Keys(passed') /\ k \in DOMAIN accounts /\ accounts[k] = acct

(* An index of pre_token_balances names, in the accounts of the same       *)
(* result, the account that held this amount before the call, even when    *)
(* the account is no token account any more; and every account that held   *)
(* tokens has an entry. The amount is scaled by the decimals that its mint *)
(* had before the call, when the mint was known in one state.              *)
PreNamesTheHolders ==
  [][ result = NoResult =>
      /\ \A n \in DOMAIN result'.pre :
           LET e == result'.pre[n]
           IN /\ Held(result'.accounts[e.account_index].key, Token(e.mint, e.amount))
              /\ \A d \in Decimals :
                   {s \in Contents : Held(e.mint, s)} = {Mint(d)} => e.decimals = d
      /\ \A k \in Addresses, m \in MintAddresses, a \in Amounts :
           Held(k, Token(m, a)) =>
             \E n \in DOMAIN result'.pre :
               LET e == result'.pre[n]
               IN result'.accounts[e.account_index].key = k /\ e.mint = m /\ e.amount = a ]_vars

(* In one result, all balances of a mint are scaled alike, and by the      *)
(* decimals of the mint when the result has it in one state only.          *)
DecimalsAreTheMints ==
  \A n \in DOMAIN result.post :
    LET e == result.post[n]
        states == {result.accounts[i].acct :
                     i \in {j \in DOMAIN result.accounts : result.accounts[j].key = e.mint}}
    IN /\ \A o \in DOMAIN result.post :
            result.post[o].mint = e.mint => result.post[o].decimals = e.decimals
       /\ \A d \in Decimals : states = {Mint(d)} => e.decimals = d
=============================================================================
