---------------------------- MODULE MCQuasarSvm ----------------------------
(* Small instances of QuasarSvm for TLC. *)
EXTENDS QuasarSvm

CONSTANTS payer, dest, prog, pdata, loader, ixs, clock

MCKeys        == {payer, dest, prog, pdata, loader, ixs, clock}
MCProgramData == [p \in {prog} |-> pdata]
MCKinds       == {"system", "stub", "program", "programdata", "sysvar", "instructions",
                  "data", "token", "mint"}

Token(balance, amount) ==
  [lamports |-> balance, contents |-> [kind |-> "token", amount |-> amount]]

MCSupplied == {Holding("system", 2), Token(1, 0)}
MCWritten  == {Holding("system", 0), Holding("system", 1), Token(1, 1)}

List(map)           == [first |-> map, last |-> map]
One(k, account)     == [x \in {k} |-> account]
Both(a, b)          == [x \in {payer, dest} |-> IF x = payer THEN a ELSE b]
MCGivenLists ==
  {NoPairs,
   List(Both(Holding("system", 2), Token(1, 0))),
   List(One(ixs, Holding("instructions", 0))),
   [first |-> One(payer, Holding("system", 1)), last |-> One(payer, Holding("system", 2))]}

(* A transfer, an instruction that only looks at accounts, one that writes *)
(* a single account, and one that rewrites a program that is called next;  *)
(* clock and pdata resolve without being supplied.                         *)
Transfer == [program_id |-> prog, accounts |-> {payer, dest}, writable |-> {payer, dest}]
Look     == [program_id |-> prog, accounts |-> {payer, ixs, clock, pdata}, writable |-> {}]
Touch    == [program_id |-> prog, accounts |-> {dest}, writable |-> {dest}]
Upgrade  == [program_id |-> loader, accounts |-> {prog}, writable |-> {prog}]
MCChains == {<<>>, <<Transfer, Look>>, <<Upgrade, Touch>>, <<Touch, Touch, Touch>>}
=============================================================================
