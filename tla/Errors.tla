------------------------------- MODULE Errors -------------------------------
(***************************************************************************)
(* The outcome of a call on its way to a test. The runtime's error becomes *)
(* a ProgramError for Rust tests (svm/src/error.rs). For other clients it  *)
(* becomes a status number (ffi/src/wire.rs), from which each client makes *)
(* an error of its own again. The tables are the code's; custom error      *)
(* codes are machine integers, and the status is one of half their range.  *)
(***************************************************************************)
EXTENDS Integers, Sequences, FiniteSets

CONSTANT HalfRange  (* 2^31: custom codes are below 2 * HalfRange, statuses
                       in -HalfRange .. HalfRange - 1                      *)

(* There is room for the named errors among the negative statuses. *)
ASSUME HalfRangeAssumption == HalfRange \in Nat /\ HalfRange > 25

(* Named errors of the runtime that have a status of their own, at minus   *)
(* their position.                                                         *)
program_error_to_i32 ==
  <<"InvalidArgument", "InvalidInstructionData", "InvalidAccountData", "AccountDataTooSmall",
    "InsufficientFunds", "IncorrectProgramId", "MissingRequiredSignature",
    "AccountAlreadyInitialized", "UninitializedAccount", "NotEnoughAccountKeys",
    "AccountBorrowFailed", "MaxSeedLengthExceeded", "InvalidSeeds", "BorshIoError",
    "AccountNotRentExempt", "UnsupportedSysvar", "IllegalOwner",
    "MaxAccountsDataAllocationsExceeded", "InvalidRealloc", "MaxInstructionTraceLengthExceeded",
    "BuiltinProgramsMustConsumeComputeUnits", "InvalidAccountOwner", "ArithmeticOverflow",
    "Immutable", "IncorrectAuthority">>

Coded == {program_error_to_i32[i] : i \in 1 .. 25}

(* The other errors of the runtime that matter here: two that Rust names,  *)
(* and one for all that nobody names.                                      *)
Uncoded == {"MissingAccount", "ComputationalBudgetExceeded", "GenericError"}

(* raw_result of a call. *)
Ok == [kind |-> "ok"]
Err(name) == [kind |-> "err", name |-> name]
Custom(n) == [kind |-> "custom", code |-> n]

CustomCodes == 0 .. 2 * HalfRange - 1

RawResults == {Ok} \cup {Err(e) : e \in Coded \cup Uncoded} \cup {Custom(n) : n \in CustomCodes}

-----------------------------------------------------------------------------
(* The names Rust tests see. *)

RuntimeNames ==
  {"AccountBorrowFailed", "MaxSeedLengthExceeded", "UnsupportedSysvar", "IllegalOwner",
   "MaxAccountsDataAllocationsExceeded", "InvalidRealloc", "MaxInstructionTraceLengthExceeded",
   "BuiltinProgramsMustConsumeComputeUnits", "GenericError"}

program_error_from(raw) ==
  CASE raw.kind = "custom" -> raw
    [] raw.kind = "err" /\ raw.name \in RuntimeNames -> Err("Runtime")
    [] raw = Err("NotEnoughAccountKeys") -> Err("MissingAccount")
    [] raw = Err("ComputationalBudgetExceeded") -> Err("ComputeBudgetExceeded")
    [] OTHER -> raw

(* ExecutionResult::status, is_ok, assert_error. *)
status(raw) == IF raw = Ok THEN Ok ELSE program_error_from(raw)

-----------------------------------------------------------------------------
(* The status of the wire format. *)

(* Mutant: errors without a ProgramError are not given a code. *)
unmapped_status_none == 0

(* What an error that is no ProgramError is sent as: as an invalid argument. *)
unmapped_status == -1

(* Mutant: the status is as wide as the custom code. *)
as_i32_unsigned(n) == n

(* A conversion of u32 to i32 keeps the bits. *)
as_i32(n) == IF n < HalfRange THEN n ELSE n - 2 * HalfRange

code_of(name) == IF name \in Coded
                 THEN -(CHOOSE i \in 1 .. 25 : program_error_to_i32[i] = name)
                 ELSE unmapped_status

serialize_status(raw) ==
  CASE raw.kind = "ok" -> 0
    [] raw.kind = "custom" -> as_i32(raw.code)
    [] raw.kind = "err" -> code_of(raw.name)

-----------------------------------------------------------------------------
(* What clients make of a status. A name at a position stands for minus    *)
(* that number; the Runtime error carries the message.                     *)

(* Mutant: the Node table counts on without leaving numbers out. *)
NodeNames_dense ==
  <<"InvalidArgument", "InvalidInstructionData", "InvalidAccountData", "AccountDataTooSmall",
    "InsufficientFunds", "IncorrectProgramId", "MissingRequiredSignature",
    "AccountAlreadyInitialized", "UninitializedAccount", "MissingAccount", "InvalidSeeds",
    "BorshIoError", "AccountNotRentExempt", "ComputeBudgetExceeded", "InvalidAccountOwner",
    "ArithmeticOverflow", "Immutable", "IncorrectAuthority">>

NodeNames ==
  <<"InvalidArgument", "InvalidInstructionData", "InvalidAccountData", "AccountDataTooSmall",
    "InsufficientFunds", "IncorrectProgramId", "MissingRequiredSignature",
    "AccountAlreadyInitialized", "UninitializedAccount", "MissingAccount", "Runtime", "Runtime",
    "InvalidSeeds", "BorshIoError", "AccountNotRentExempt", "Runtime", "Runtime", "Runtime",
    "Runtime", "Runtime", "ComputeBudgetExceeded", "InvalidAccountOwner", "ArithmeticOverflow",
    "Immutable", "IncorrectAuthority">>

(* Mutant: two neighbours of the Python table are swapped. *)
PythonNames_swapped ==
  <<"InvalidArgument", "InvalidInstructionData", "InvalidAccountData", "AccountDataTooSmall",
    "InsufficientFunds", "IncorrectProgramId", "MissingRequiredSignature",
    "UninitializedAccount", "AccountAlreadyInitialized", "MissingAccount">>

PythonNames ==
  <<"InvalidArgument", "InvalidInstructionData", "InvalidAccountData", "AccountDataTooSmall",
    "InsufficientFunds", "IncorrectProgramId", "MissingRequiredSignature",
    "AccountAlreadyInitialized", "UninitializedAccount", "MissingAccount", "InvalidSeeds",
    "ArithmeticOverflow", "AccountNotRentExempt", "InvalidAccountOwner", "IncorrectAuthority",
    "Immutable", "BorshIoError", "ComputeBudgetExceeded">>

client_status(names, n) ==
  CASE n = 0 -> Ok
    [] n > 0 -> Custom(n)
    [] n < 0 /\ -n \in 1 .. Len(names) -> Err(names[-n])
    [] OTHER -> Err("Runtime")

programErrorFromStatus(n) == client_status(NodeNames, n)
program_error_from_status(n) == client_status(PythonNames, n)

-----------------------------------------------------------------------------
VARIABLES
  raw_result,  (* ExecutionResult::raw_result of the last call             *)
  rust,        (* what a Rust test sees                                    *)
  node,        (* what a Node test sees                                    *)
  python       (* what a Python test sees                                  *)

vars == <<raw_result, rust, node, python>>

(* Before a call there is nothing to see, which is written as Ok. *)
Init == raw_result = Ok /\ rust = Ok /\ node = Ok /\ python = Ok

(* A call returns and its outcome takes the three ways. *)
call_returns(raw) ==
  /\ raw_result' = raw
  /\ rust' = status(raw)
  /\ node' = programErrorFromStatus(serialize_status(raw))
  /\ python' = program_error_from_status(serialize_status(raw))

Next == \E raw \in RawResults : call_returns(raw)

Spec == Init /\ [][Next]_vars

-----------------------------------------------------------------------------
(* The variants of ProgramError, which all clients have. *)
Names ==
  {"InvalidArgument", "InvalidInstructionData", "InvalidAccountData", "AccountDataTooSmall",
   "InsufficientFunds", "IncorrectProgramId", "MissingRequiredSignature",
   "AccountAlreadyInitialized", "UninitializedAccount", "MissingAccount", "InvalidSeeds",
   "ArithmeticOverflow", "AccountNotRentExempt", "InvalidAccountOwner", "IncorrectAuthority",
   "Immutable", "BorshIoError", "ComputeBudgetExceeded", "Runtime"}

(* Types of the variables: a test only ever sees its own variants. *)
TypeOK ==
  /\ raw_result \in RawResults
  /\ rust \in {Ok} \cup {Err(e) : e \in Names} \cup {Custom(n) : n \in CustomCodes}
  /\ {node, python} \subseteq
       {Ok} \cup {Err(e) : e \in Names} \cup {Custom(n) : n \in 1 .. HalfRange - 1}

(* Every client can tell a failed call from a successful one, unless the   *)
(* error is the custom error 0. About the status, which is the only thing  *)
(* clients look at for this.                                               *)
StatusTellsFailure ==
  raw_result # Custom(0) =>
    \A seen \in {rust, node, python} : seen = Ok <=> raw_result = Ok

(* Errors that have a status of their own and custom errors from 1 up to    *)
(* the largest positive status.                                             *)
SentByName ==
  \/ raw_result.kind = "err" /\ raw_result.name \in Coded
  \/ raw_result.kind = "custom" /\ raw_result.code \in 1 .. HalfRange - 1

(* What Rust names and the format can tell, Node names alike: the table of  *)
(* index.ts is that of wire.rs, seen through that of error.rs.              *)
NodeAgreesWithRust == SentByName /\ rust # Err("Runtime") => node = rust

(* Python does the same for custom errors and the first ten codes.          *)
PythonAgreesOnFirstCodes ==
  /\ SentByName /\ raw_result.kind = "custom" => python = rust
  /\ SentByName /\ raw_result.kind = "err" /\ -code_of(raw_result.name) \in 1 .. 10 =>
       python = rust

(* What types.py:200-202 says of the status: "0 = success (not an error)",  *)
(* "Positive = Custom error with code" and "Negative = Known Solana error   *)
(* variant". So what Python shows of an error is that error.                *)
PythonNamesTheError ==
  /\ python = Ok => raw_result = Ok
  /\ raw_result.kind = "custom" => python = raw_result
  /\ SentByName /\ raw_result.kind = "err" /\ python # Err("Runtime") => python = rust
=============================================================================
