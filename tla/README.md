# Verification of Quasar SVM

TLA+ models of the Quasar SVM, a Solana virtual machine for tests: a Rust crate
(`svm/`), a C interface over it (`ffi/`), and Node and Python clients
(`bindings/`). The models are checked with TLC and theorems about them are
proved with TLAPS. Line numbers refer to the repository's files.

## Inventory

| Part | State | Operations | Modules |
|---|---|---|---|
| **QuasarSvm** (`svm/src/svm.rs`) | account database, logger, compute budget | `set_account`, `airdrop`, `create_account`, `set_token_balance`, `set_mint_supply`; `process_*` and `simulate_*`, all through `execute_inner` | `Ledger`, `QuasarSvm` |
| **Sysvars** (`svm/src/sysvars.rs`) | clock, epoch schedule, rent, slot hashes and four constant sysvars | `warp_to_slot`, `warp_to_timestamp`, setters; account view and cache view | `Sysvars` |
| **ProgramCache** (`svm/src/program_cache.rs`) | registered programs (`entries`), the runtime's `ProgramCacheForTxBatch` | `add_program`, `maybe_create_program_accounts`; lent to every call | `ProgramCache` |
| **Log and execution trace** (`svm.rs` 403-412, 607-762) | a log collector per call | log parser, join of its results with the runtime's frames | `Trace` |
| **Token balances** (`svm.rs` 338-361, 555-605, `token.rs`) | none | token balances before and after a call, with indexes and decimals | `TokenBalances` |
| **Errors** (`svm/src/error.rs`, `wire.rs` 240-270, `index.ts`, `types.py`) | none | the tables between an error of the runtime and what a test sees | `Errors` |
| **Wire format** (`ffi/src/wire.rs`, the clients' (de)serialisers) | a reader's position | bounds-checked reader, writer | `Wire` |
| **C interface** (`ffi/src/ffi.rs`, `ffi/src/error.rs`) | machines behind handles, a thread-local last error, result buffers | one function per operation, each with null checks, most with `catch_unwind` | `Machines`, `Ffi` |
| **Node, Python** (`bindings/`) | a handle and a freed flag | construction, calls, free, finalizer | `Ffi`, `Wire`, `Errors` |
| **Solana runtime** | transaction context, compute meter, loaders | external crates | by what it may do |

How they interact: a call takes `&mut self`. It merges the client's accounts
over the database's, asks the program cache and the sysvars for the accounts
nobody supplied, builds the runtime's transaction context and sysvar cache,
lends the runtime the program cache, runs the instructions in order up to the
first error, reads accounts back from the context, and, when all succeeded and
the call is not a simulation, writes them to the database. The result gets the
log, a trace joined from the log and the runtime's frames, and token balances
from the merged and the read-back list. Over the C interface the request arrives
as bytes, which are decoded completely before anything runs, and the result
leaves as a buffer that the client copies and gives back.

There is no concurrency inside a machine; what is hard there is what a *sequence*
of steps does: partial failure of a chain, copies of one account in several
places, duplicate addresses, state that outlives a call, records that are matched
by position only, and boundary values. Around the machine there is concurrency:
threads, finalizers that run between the steps of a method, one allocator, and an
error text that is read by a second call. `PROJECT.json` lists the hazards with
their lines.

What makes each part correct:

* database and execution: a chain is atomic, nothing is lost or duplicated
  between context, result and database, results describe the right moment;
* sysvars: both views of a sysvar agree, slot hashes have no gaps, a warp
  changes what it says and its work is bounded;
* program cache: what is shown for a program is what runs; a simulation leaves
  nothing behind;
* trace and balances: a trace describes the calls that happened; balances and
  decimals are attributed to the right account;
* errors: a failure is seen as a failure, under its own name, in every language;
* wire: both ends walk the same fields, and damage is never executed in part;
* C interface and clients: a machine and a buffer are used while they live and
  freed once, no machine is forgotten, an exception carries its own text, a
  failed call has changed nothing.

## Modules

### Ledger: what a client is promised

An execution is one step here. A call brings accounts, which hide stored ones,
a set of writable addresses, and whether it commits. `Succeed` returns a state
for every account it knew, changed at writable addresses only, and stores that
iff the call commits; `Fail` returns what the call was given; `Panic` and `Fail`
leave the store alone. A client that lists an address twice has given a set of
states, and the promise is one of them.

### QuasarSvm: database and execution

| TLA+ | code |
|---|---|
| `accounts` | `QuasarSvm::accounts` |
| `tx` | the arguments of the running `execute_inner` |
| `merged` | its local `merged` |
| `transaction_accounts` | the accounts of the `TransactionContext` |
| `pc`, `raw_result` | the loop of `process_message` |
| `result` | the last `ExecutionResult` (status, accounts, `pre_balances`) |

`execute_inner` models the method up to the loop (merge, `compile_accounts`,
context), `instruction_succeeds` and `instruction_fails` one turn of the loop
each, `finish` everything after it. A call that is longer than the instruction
trace panics in `prepare_top_level_instructions(..).expect(..)`
(`execute_inner_panics`). `airdrop` computes modulo 2^64 or panics, depending
on the build profile (`OverflowChecks`).

Abstractions. An account is a balance and its contents; data, owner and
executable flag are one value because they always travel together here. An
account list is a pair of maps, `first` and `last`: the code takes the first
copy of a duplicate (`find`) or the last (`insert` in a loop) and nothing else.
A program is any rewrite of the accounts that its instruction and the message
let it write; it conserves lamports when it succeeds (the runtime checks the
sum) and need not when it fails. Whether writability needs ownership, signers,
rent checks and calls between programs is the runtime's business: every such
outcome is one of these rewrites. `MessageKeys` and `WritableKeys` are what a
legacy message makes of the instructions: an address that is called as a
program is not writable unless the upgradeable loader is named too, and no
address is reserved, because the code passes an empty set (`svm.rs` 455).

### Sysvars

`warp_to_slot` with its two branches: `warped_hashes` rebuilds the list when the
jump is longer than `MAX_ENTRIES`, else adds slot by slot from the newest hash.
`SlotHashes::add` and `EpochSchedule` without warm-up are external and modelled
by what they compute. Hashes are all the default hash, so the list is a list of
slots. `account_view` is the sysvar part of `compile_accounts`, `cache_view` is
`setup_sysvar_cache`; `stored` are the sysvar accounts clients put into the
database. The setters are those of `ffi.rs`, which assign the fields that Rust
clients assign directly.

### ProgramCache

`entries` and `cached` are the two maps `replenish` writes; `modified` are the
modified entries the runtime keeps in the cache it is lent; `found` is the
lookup, modified entries first. `store_modified_entry` is a running instruction
that deploys, upgrades or closes a program. `resolve` is the program part of
`compile_accounts`. The runtime hides a deployment until the next slot; this
delay is left out.

### Trace

`calls` is what really ran, `stack` what is running; `log` is the log collector
with its byte limit. A line is what the parser can tell of it: an invocation with
its level, a consumption with its units, a success, a failure, or something else.
`invoke`, `return`, `refuse` and `program_log` are the runtime (external):
`invoke` logs a line and pushes a frame; `return` logs units if the program is
metered, then the outcome, and a failure passes through every open invocation;
`refuse` is a call of a program that is not loaded, which leaves a frame and no
line. `execute_inner` replaces the collector and prepares all top-level
frames, `finish` parses and joins. `parse_logs` folds `parse_line` over the
lines: its stack and counter are those of `parse_log_results` (`svm.rs` 607-648).
`InstructionFrames` is the order of the transaction context: all top-level
frames are prepared before the first one runs (`svm.rs` 806), and the nested ones
come behind them. `logged` of a call is a history: the call ended before the
collector dropped a line. Results of such calls must be right even if the log fills up
later, when only the shorter ones of the lines that follow are still recorded.

### TokenBalances

The lists are kept in their order here, because it is positions that are matched.
`merge_accounts` puts the stored accounts, in any order of the hash map, before
those the client passed; `deconstruct_resulting_accounts` keeps that order,
gives all copies of an address that the message names the state it has in the
context, and leaves to each copy of another address its own (`svm.rs` 542).
`commit_accounts` inserts one after the other, so the last copy is stored.
An account is a token account with its mint, a mint with its decimals, or
something else, as its length and `unpack` decide. Decimals come from the first
copy of the mint in the same list, and 0 is taken when there is none.

### Wire

A format is a list of fields, written down once for each end in that end's order:
Python's `serialize_*` and Node's `serialize*` against `read_*` of `wire.rs`, and
`serialize_result` against Python's `deserialize_result` and Node's
`deserializeResult`. Node has two writers of requests; `web3.js/wire.ts` is the one
modelled, and `kit/wire.ts` writes the same fields. An end takes the first field from its list and
writes or reads it over a buffer of bytes; a length, a count or an option's tag
decides what is put in front of the remaining fields (`rest`). `hand_over` may
cut a request anywhere or append a byte. `read_field` is `Reader` with its bounds
check, `end_of_fields` the test for trailing bytes, which the clients do not
have for results. Results arrive as they were written, in the same process, so it
does not matter that the clients' slices end silently at the end of a buffer. Values of fixed fields are left out, so no two ways of reading
them are compared. `Reader` computes `pos + n` in `usize`, which is 64 bits wide
wherever the library is built, while lengths are `u32`; the sum cannot leave it.

### Errors

One call: the runtime's outcome, and what a test sees of it in Rust, Node and
Python. The tables are sequences, so a status is a position, as in the code.
`as_i32` is the cast of a custom code, with its width a constant (`HalfRange`).
The errors without a status (`unmapped_status`) are represented by three: the two that
Rust names and one that nobody does.

### Machines: what a client of the C interface is promised

Every object has a machine of its own, and there are no addresses, threads or
frames. `Begin` starts a call, which may do what the object's machine allows: create
one where there is none, use or free the one that is there. `Effect` is the one
step by which it changes the machine, `Fail` the end of a call that changes
nothing, and a call on a machine that is created or used may end either way; freeing
only succeeds. `Abort` is the end of the process.

### Ffi: the C interface under its clients

| TLA+ | code |
|---|---|
| `boxes` | the machines, each at the address `Box::into_raw` gave it |
| `results` | the buffers of `write_result_out` not yet freed |
| `LAST_ERROR` | the thread-local of `error.rs` |
| `objects` | instances of the clients' class: stage, handle, freed flag |
| `frames` | per thread a method in progress and a finalizer on top of it |

The functions of the interface are `quasar_svm_*`; `process_transaction` takes
three steps (decode, run and commit, write out), since each may fail and the
hazards are between them. Everything below "The clients" is `base.ts`,
`__init__.py` and `_ffi.py`: a constructor makes a machine and adds programs, a
method enters the library, looks at the code, and raises or goes on. A
finalizer may begin between any two steps of a method on the same thread, but
not while that thread is inside the library. Node finalizes between methods
only, which is one of these behaviours. Addresses are used again as soon as they
are free, so a second free or a call on a freed handle would hit another
object's machine, and `CallsOnOwnMachine` would see it.

`ImplementsMachines` maps this to `Machines`: `Handle` is the address an object's
machine is at, if it has one, read from the object or from the frame that is
about to write it there (a machine exists before its constructor knows the handle,
and is gone before the flag is set); `Stands` is where the call stands. The steps of
an execution between `called` and its end are one `Effect` or one `Fail`; raising,
reading the result and giving it back are seen only as the `Return`.

A panic unwinds into `catch_unwind` or ends the process (`Profiles`); the
release profile sets `panic = "abort"` (`Cargo.toml` 16). The end of a process is
`abort`: everything is as at the start, another process begins.

Assumed of clients: methods of one object do not overlap, and after `free` only
`free` is called. The interface takes `&mut`, nothing in it checks either, and
what happens otherwise is undefined. A second `free` is stopped by the flag and
is no step. Null handles are passed, since a caller of the C interface may do so.

### Proof and MC modules

The modules `...Proofs` hold the theorems, one for each module but
`Ledger` and `Machines`, whose refinements are proved in `QuasarSvmProofs` and
`FfiProofs`; the modules `MC...` hold the instances. Operators introduced by a comment
"Mutant" are deliberate mistakes; no action uses them. They show that a property
notices the mistake when it takes the place of the definition below it.

## Runs

| Run | Shows |
|---|---|
| `store` | types; the refinement `ImplementsLedger`; `LamportsConserved`, `NamedAccountsUnambiguous`, `PreBalancesAreThePast`; and `EveryCallReturns` |
| `warp` | types; `NoHashGaps`, `ViewsAgree`, `WarpReachesNewestHash`, after warps forth and back and clocks set by hand; `WarpWorkBounded`, of a warp that directly follows a warp |
| `programs` | types; `AccountsShowWhatRuns` |
| `trace` | types; `ParserFollowsStack`, `TraceMatchesCalls` |
| `tokens` | types; `PostMatchesAccounts`, `DecimalsAreTheMints`, `PreNamesTheHolders` |
| `wire` | types; `ReaderFollowsWriter`, `AcceptedIsSent`, `DamageIsNoticed`, `EveryBufferIsDecided` |
| `errors` | types; `StatusTellsFailure`, `NodeAgreesWithRust`, `PythonAgreesOnFirstCodes` |
| `clients` | types; `RaisedIsOwn`, `CallsOnOwnMachine`, `MachinesAreHeld`, `ResultsAreHeld`, `FailedCallsChangeNothing`, `GarbageIsFreed`; the refinement `ImplementsMachines` |
| `lost_write`, `simulation`, `failed_call`, `python_errors` | one divergence each, see Findings |

Bounds, and why they are enough:

* `store`: two client addresses, a program with its programdata, the upgradeable
  loader, the instructions sysvar and one other sysvar; lamports modulo 3, so that
  both an airdrop that leaves the range and a transfer that conserves occur, in
  builds with and without overflow checks; chains of zero and two instructions,
  and one of three, that does not fit `MaxTrace` = 2. Two addresses are enough for
  a transfer, an untouched bystander and a duplicate; two instructions for a
  failure after a success. The account lists contain none, one and both client
  addresses, the instructions sysvar, and one address twice with different
  balances.
* `warp`: `MAX_ENTRIES` is 3, and the slots 0, 1, 2, 4, 5, 9 make jumps of every
  length below, at and above it, forth and back.
* `programs`: one builtin and two programs, four loaders, two ELF files.
* `trace`: chains of up to two instructions, four calls, three levels, one line
  written by a program, two values of units. Every tree of that size with a
  failure anywhere occurs; a parser that mixes up two siblings, or a caller and
  its callee, needs no more. With the limit of 14 the logs of the larger trees overflow
  (a line counts 2 if it has units or an error, else 1), some of them early enough
  that later calls have an invocation in the log and no result, or the reverse; those
  with less metering stay complete. In `failed_call` the limit of 99 is out of reach:
  the call it shows is one that was refused.
* `tokens`: three addresses, one of which is a mint's, with either of two decimals,
  and lists of up to two accounts, copies included; the two other addresses are
  interchangeable, so TLC may permute them.
* `wire`: widths 4, 3 and 2 instead of 32, 8 and 4: fields of different width
  stay different. Up to two elements and one byte in requests, one of each in a
  result; byte strings without a byte are tried in Python's requests only, since
  Node's have the same reader.
* `errors`: all errors, and the 128 custom codes of a range of 2 * 64.
* `clients`: two each of threads, objects, addresses and buffers: a finalizer
  of the one object inside a method of the other, and an address that
  goes from the one to the other, need two.

The bounds that exist only for TLC are the constants marked "bound". The
theorems do not depend on them.

Fairness. `QuasarSvm!FairSpec` is weak fairness of the steps of a *running* call:
the caller is inside `execute_inner` with `&mut self`, and the compute meter
makes each instruction end, so a running call always takes its next step.
`Wire!FairSpec` is weak fairness of the reading end, which is a loop.
`Ffi!FairSpec` is weak fairness of each thread's step once it is in a method or
finalizer, and strong fairness of the collector for each object: moments
between methods come again and again, and at one of them it finds the object.
It is strong because such a moment ends when the next method begins, and it is
asked of these moments only, since only they exist in both clients; "Native memory
is freed automatically by the GC" (`README.md` 201). Nothing is assumed of when
clients call, drop or free.

Deadlock is checked in every run: a client can always do something.

## Findings

* `lost_write`: read-back covers the merged list only (`svm.rs` 526-544). An
  account that a committed chain creates at an address nobody supplied is
  neither in the result nor in the database.
* `simulation`: a program deployed in a simulated call stays callable, because
  the runtime's cache lives as long as the machine (`svm.rs` 773). This rests on
  the runtime keeping modified entries in the cache it is given.
* `failed_call`: an entry of the trace whose result is not in the log says
  success (`svm.rs` 746). A call of a program that is not loaded logs nothing. A
  failure whose line the full collector drops ends there too, but no run shows it.
* `python_errors`: from -11 on the Python table gives other names to the
  statuses than `wire.rs` does (`types.py` 208-226), and the custom error 0 is sent
  as the status of a success (`wire.rs` 247).

Further divergences met while reading, with no run of their own:

* the instructions sysvar is pushed according to the account list (`svm.rs` 479,
  515), where the comment above (513) says according to the message: it is in
  the context twice when the message names it, and missing when only the list
  has it;
* an airdrop onto a large balance wraps in the release profile (`svm.rs` 216).
  Where overflow is checked it panics, and `ImplementsLedger` says that the database
  is as it was;
* `warp_to_slot` rebuilds the clock from the default and loses the timestamps
  (`sysvars.rs` 102), where `svm/README.md` 140 says "updates clock.slot +
  slot_hashes";
* the trace joins frames, top-level ones first (`svm.rs` 806), with results in the
  order of the log (744). In a chain in which another program than that of the
  last instruction calls programs, levels and numbers no longer fit, so results and
  units are lost or belong to other calls. `TraceMatchesCalls` is about the other
  chains (`FramesFollowLog`);
* a line of a program that contains " success" (683) closes its invocation;
* the documentation of the result in `wire.rs` (45-56) ends at the error message,
  after which balances, token balances and the trace follow (322);
* custom codes from 2^31 on arrive as negative numbers (`wire.rs` 247), that is as
  named errors, in both clients; Node shows -21, which is
  `BuiltinProgramsMustConsumeComputeUnits`, as `ComputeBudgetExceeded`
  (`index.ts` 49); errors without a status are shown as `InvalidArgument`;
* a bundled program that is disabled (`web3.js/README.md` 100) is there all the
  same: `quasar_svm_new` registers all of them (`ffi.rs` 26);
* Python's `set_rent` raises `TypeError`: it passes one argument of three
  (`__init__.py` 213, `_ffi.py` 161);
* a bad ELF ends the process in the release profile (`Cargo.toml` 16), where
  `__init__.py` 163 promises a `RuntimeError`.

## Proofs

Every invariant and every safety property of the passing runs is a theorem, for every
value of the constants that the named assumptions admit. What each proof
rests on follows, component by component.

### QuasarSvmProofs

For all addresses, accounts, chains, account lists and
program behaviours, from the named assumptions of `QuasarSvm`. One of them is
that there are finitely many addresses, which are 32 bytes long: a sum over the
accounts needs it.

* `TypeCorrect`: `Spec => []TypeOK`
* `NamedAccountsAgree`: `Spec => NamedAccountsUnambiguous`
* `PreBalancesAreEarlier`: `Spec => PreBalancesAreThePast`
* `LamportsAreConserved`: `Spec => LamportsConserved`
* `Refinement`: `Spec => ImplementsLedger`

The inductive invariant is `TypeOK /\ SnapshotCurrent`. The second, stated in
`QuasarSvmProofs`, says that while a call runs the merged list is what its arguments
and the database give, and that only what its message lets it write has changed;
nobody can write the database in the meantime, so it is a step of the argument and no
property of its own. Neither is inductive alone: that an instruction leaves accounts of the right type behind needs its
writable addresses to be among those resolved (`SnapshotCurrent`), and that a
new snapshot covers the message needs the types. The refinement needs the
snapshot as well: at `finish` the ledger looks at what the call knows *then*, the
code at the copy it made when the call began. The argument maps database
operations to `Put` or `Panic`, `execute_inner` to `Submit`, instructions to
stuttering, `finish` to `Succeed` or `Fail`.

Lamports need one more invariant, `Conserved`: while nothing has failed, the
accounts of a call hold together what they held when they were resolved. The sum of
the database after a commit is then put together from the accounts the message
names, which hold what they held before, and the rest, which nobody touched;
`SumUnion` and `SumSame` say that a sum may be split and compared like this.

### ProgramCacheProofs

For all programs, loaders and ELF files whose programdata
addresses are distinct and are no program's:

* `TypeCorrect`: `Spec => []TypeOK`
* `ShowsWhatRuns`: `Spec => []AccountsShowWhatRuns`

The inductive invariant adds `entries = cached` to the types: the property
compares what is made from the one with what is found in the other.

### SysvarsProofs

For every `MAX_ENTRIES` above zero, all slots, timestamps, schedules and stored
accounts:

* `TypesKept`: `Spec => []TypeOK`
* `NoHashGapsEver`: `Spec => []NoHashGaps`
* `ViewsAgreeAlways`: `Spec => []ViewsAgree`
* `WarpReachesNewestHashAlways`: `Spec => WarpReachesNewestHash`
* `WarpWorkBoundedAlways`: `Spec => WarpWorkBounded`

The inductive invariant is `TypeOK /\ Gapless(slot_hashes)`, where `Gapless` is
`NoHashGaps` of any full list of slots. The first slot of such a list is its
newest (`FirstIsNewest`), so `SlotHashes::add`, which sorts a slot in and drops
the last, keeps the list gapless only for the newest slot or the one after it
(`AddNext`). `WarpedHashes` shows, by induction over the turns of the loop, that these
are the slots it adds, does the same for the rebuild, and says what the newest
entry becomes; the two properties of warps are read off that. `ViewsAgree`
needs no invariant: it holds of every list of supplied and stored accounts.

### TraceProofs

For chains, calls, programs' lines and units of any number and a log limit of any
size. `MaxChain <= MaxCalls`, between the two bounds of the model, says that every
instruction of a chain may be invoked; it is only about chains the model admits.

* `TypesKept`: `Spec => []TypeOK`
* `ParserFollowsStackAlways`: `Spec => []ParserFollowsStack`
* `TraceMatchesCallsAlways`: `Spec => []TraceMatchesCalls`

The inductive invariant has five parts. `Types` adds to the types that the stack
holds exactly the running calls, each at its level. `Counts` bounds the top-level
calls and the calls that are still to come. `Following` is what the parser
has made of the log so far, if the log is intelligible: its stack is the running
calls, its counter has passed every call that was logged, and it has a result, the
right one, for each of those that is over and none for those that run. `Settling`
holds of full logs too: a call that ended in time has its result in the parser's
table, its number has been used, and its invocation is not on the parser's stack, so
no later line can touch it (`SettlesLine`), recorded or dropped (`SettlesRecord`).
When a call ends in a complete log, `Following` says that it is settled
(`FollowingSettles`). `Traced`
says of a finished call what the properties say. `ParserFollowsStack` alone is not
inductive, because a failure unwinds through every open call, and the parser must
then have the right number for each of them, and because a result must not be
overwritten by a later line. `ParseReturn` is the lemma about the lines of one
return. For `TraceMatchesCalls` the frames have to be in the order of the calls
(`FramesInOrder`). They are if the top-level calls come before the nested ones,
because then they are the calls up to some number (`NoGaps`), and if in addition no
prepared frame without a call stands between the two: every instruction was reached,
or there are no nested calls.

### TokenBalancesProofs

For lists of any length, any database that is finite, and any behaviour of the
call towards token accounts and mints:

* `TypesKept`: `Spec => []TypeOK`
* `PostMatchesAccountsAlways`: `Spec => []PostMatchesAccounts`
* `DecimalsAreTheMintsAlways`: `Spec => []DecimalsAreTheMints`
* `PreNamesTheHoldersAlways`: `Spec => PreNamesTheHolders`

The invariant says that a result's balances were made from *some* merged list that
has the addresses of the result's accounts, place by place (`Reports`); this list
is gone when the properties look at the result, so it is a bound variable.
`PlacesComplete` says of `TokenPlaces` that it lists the places of token accounts,
all of them and no others; `Merged` says of `merge_accounts` that everything in the merged list
is stored or passed, and everything stored and not passed, or passed, is in it.

### WireProofs

For every format of `wire.rs`, any number of elements and bytes, any widths, and
damage anywhere:

* `TypesKept`: `Spec => []TypeOK`
* `ReaderFollowsWriterAlways`: `Spec => []ReaderFollowsWriter`
* `AcceptedIsSentAlways`: `Spec => []AcceptedIsSent`
* `DamageIsNoticedAlways`: `Spec => []DamageIsNoticed`

The inductive invariant says that there is one walk through the message for both
ends: a list of fields still to come (`T`) and a position (`P`) for every field
sent, each made from the one before it by `rest` and by the length of the field
(`Walk`). The writer is at its end; the reader is at one of its places,
`T[Len(got)]` and `P[Len(got)]`. As long as a field lies within the buffer, its
first byte says what was sent (`Buffered`), also after damage, because damage cuts or
appends at the end. So the reader can only go astray by meeting the end
of the buffer, early or late, and that is what it tests for. That both ends of a
format list the same fields is `EndsAgree`; that fields contain fields at most
twice (`FieldsNested`) is what keeps the lists typed.

### FfiProofs

For any sets of threads, objects, addresses and buffers and either or
both profiles, assuming only that `Null` is none of the values it stands for
the absence of:

* `TypesKept`: `Spec => []TypeOK`
* `RaisedIsOwnAlways`, `CallsOnOwnMachineAlways`, `MachinesAreHeldAlways`,
  `ResultsAreHeldAlways`, `FailedCallsChangeNothingAlways`: `Spec => []` each of
  the safety invariants of the run `clients`
* `Refinement`: `Spec => ImplementsMachines`

The inductive invariant `IInv` adds four facts to the types, `RaisedIsOwn` and
`ResultsAreHeld`; the other properties follow from them:

* `Shaped`: what a frame looks like at each point of each function, and how it
  fits its object (a finalizer's object is "finalizing", a constructor's is
  "constructing", any other's is live and not freed);
* `Exclusive`: two frames are never about one object, which is what the
  assumptions on clients and the stages of objects amount to;
* `Held`: the machine at an address belongs to an object exactly when that object,
  or the frame that is about it, has this address as a handle not yet freed;
* `Untouched`: until a call changes its machine, and if it fails, the machine is
  the one it found.

`CallsOnOwnMachine` is not inductive alone because a machine is lost long before
it is missed: what must be kept is that nobody else can reach the address in the
meantime. A step changes one frame and its object and machine, so preservation is
proved once, in `StepInv`, from four facts about a step: it moves one frame
(`Moves`), leaves the objects, machines and buffers of others alone (`Keeps`),
reports in its own thread's error (`Reports`), and hands over what the
frame held (`Hands`). Each action has then to show these four.

The refinement uses the same invariant. `Exclusive` makes the frame that is about an
object unique, so the mapping is known from any frame one has in hand
(`FramesFound`); `Held` says that the machine found through it is this object's and
through no other object's handle, so that a step on one address changes the machine of
one object (`MachineStep`). What remains is to show for each action that it is
a `Begin`, `Effect`, `Fail` or `Return` of its frame's object, an `Abort`, or no step
(`QuietStep`). After an execution has taken effect nothing it does can fail any more,
so no `Fail` follows an `Effect`.

### ErrorsProofs

For machine integers of every width that has room for the named
errors:

* `StatusTellsFailureAlways`: `Spec => []StatusTellsFailure`
* `NodeAgreesWithRustAlways`: `Spec => []NodeAgreesWithRust`
* `PythonAgreesOnFirstCodesAlways`: `Spec => []PythonAgreesOnFirstCodes`
* `TypesKept`: `Spec => []TypeOK`

The inductive invariant (`Seen`) says that the three outcomes are those of the runtime's
error; the rest is arithmetic of the cast and a walk through the tables.

### Induction, and what stays model-checked

What a fold, a sum or a recursive function computes for inputs of every length is
an induction over data. The library states induction for an operator, which the
provers cannot instantiate, so it is used here for a *set*: `NaturalsInSet` says
that a set which contains 0 and the successor of each of its numbers contains
all numbers, and `SubsetsInSet` does the same for the subsets of a finite set; both are proved from the
library's theorem on least elements. A recursive function is first shown to exist,
step by step (`FoldedExists`, `PlacedExists`, `AmongExists`), and then known
by its equations (`FoldSteps`, `PlacesSteps`, `PositionsSteps`). This is why
`TokenPlaces` and `Positions` are written as recursive functions. The lemmas on
induction and folds stand in each module that uses them.

Only model-checked is liveness, which is beyond the proof system:
`EveryCallReturns`, `EveryBufferIsDecided` and `GarbageIsFreed`.

## Not modelled

* The contents of programs and of the runtime. What they may do to accounts, the
  cache and the log is in the modules that need it. The visibility delay of
  deployments is the runtime's.
* Calls on one handle that overlap, and interrupts that Python delivers between
  two bytecodes: the first is undefined, and nothing handles the second.
* Memory: reservations for announced counts (`wire.rs` 202), sizes of buffers.
* Values of wire fields, and conversions between the clients' types and those of
  web3.js, kit and solders; account, token and mint factories and the builders,
  which fill in values and keep no state.
* The data of the instructions sysvar, formatting of logs and token amounts.
* Programs called by programs only, whose programdata resolves as empty
  (`svm.rs` 503), and in general facts that span machine parts: `QuasarSvm`,
  `Sysvars` and `ProgramCache` are separate modules, and each sees of the others
  what it reads from them. A composition of the three, in which a deployment
  writes both an account and the cache, is what a next version should add.
* Packaging, examples, bundled program binaries.
