------------------------------- MODULE Ledger -------------------------------
(***************************************************************************)
(* What a client of the account database is promised, with the execution   *)
(* of a transaction as one indivisible step.                               *)
(*                                                                         *)
(* The store maps addresses to accounts.  A client changes one account at  *)
(* a time, or submits a call: the accounts it brings along (which hide the *)
(* stored ones), the addresses its instructions may write, and whether a   *)
(* success is kept.  A call either succeeds as a whole, and then only      *)
(* writable accounts differ from what the client and the store supplied,   *)
(* or fails as a whole, and then the store is what it was.                 *)
(***************************************************************************)
EXTENDS Integers

CONSTANTS
  Keys,       \* account addresses
  Account     \* account states

VARIABLES
  store,      \* the account database
  call,       \* the pending call, or NoCall
  reply       \* what the last operation returned

ledgerVars == <<store, call, reply>>

(* f, and g wherever f is undefined. *)
Overlay(f, g) ==
  [k \in DOMAIN f \cup DOMAIN g |-> IF k \in DOMAIN f THEN f[k] ELSE g[k]]

Empty  == [k \in {} |-> TRUE]
NoCall == [pending |-> FALSE, given |-> Empty, writable |-> {}, commit |-> FALSE]

(* What the pending call may take each account to be.  It brings a set of  *)
(* states per address, because a client can list an address more than      *)
(* once; what it brings hides what is stored.                              *)
Known ==
  [k \in DOMAIN call.given \cup DOMAIN store |->
     IF k \in DOMAIN call.given THEN call.given[k] ELSE {store[k]}]

Init ==
  /\ store = Empty
  /\ call = NoCall
  /\ reply = [status |-> "none", accounts |-> Empty]

(* A direct write of one account. *)
Put(k) ==
  /\ call = NoCall
  /\ k \in DOMAIN store'
  /\ store' = Overlay([x \in {k} |-> store'[k]], store)
  /\ store'[k] \in Account
  /\ reply'.status = "none"
  /\ UNCHANGED call

Submit ==
  /\ call = NoCall
  /\ call'.pending
  /\ reply'.status = "none"
  /\ UNCHANGED store

Succeed ==
  /\ call.pending
  /\ call' = NoCall
  /\ reply'.status = "ok"
  /\ DOMAIN reply'.accounts = DOMAIN Known
  /\ \A k \in DOMAIN Known : /\ reply'.accounts[k] \in Account
                            /\ k \notin call.writable => reply'.accounts[k] \in Known[k]
  /\ store' = IF call.commit THEN Overlay(reply'.accounts, store) ELSE store

Fail ==
  /\ call.pending
  /\ call' = NoCall
  /\ reply'.status = "error"
  /\ DOMAIN reply'.accounts = DOMAIN Known
  /\ \A k \in DOMAIN Known : reply'.accounts[k] \in Known[k]
  /\ UNCHANGED store

(* The operation did not return: nothing was changed on its behalf. *)
Panic ==
  /\ call = NoCall
  /\ reply'.status = "panic"
  /\ UNCHANGED <<store, call>>

Next == \/ \E k \in Keys : Put(k)
        \/ Submit
        \/ Succeed
        \/ Fail
        \/ Panic

Spec == Init /\ [][Next]_ledgerVars
=============================================================================
