---------------------------- MODULE ErrorsProofs ----------------------------
(* Theorems about Errors, for integers of every width: the conversions to  *)
(* and from a status lose names, and never the difference of failure and   *)
(* success.                                                                *)
EXTENDS Errors, TLAPS

(* What everyone sees is made from the outcome of the call. *)
Seen ==
  /\ raw_result \in RawResults
  /\ rust = status(raw_result)
  /\ node = programErrorFromStatus(serialize_status(raw_result))
  /\ python = program_error_from_status(serialize_status(raw_result))

(* An outcome is a success, a named error or a custom error. *)
LEMMA Outcomes ==
  ASSUME NEW raw \in RawResults
  PROVE  \/ raw = Ok
         \/ \E e \in Coded \cup Uncoded : raw = Err(e)
         \/ \E n \in CustomCodes : raw = Custom(n)
BY DEF RawResults

(* The kinds of an outcome exclude each other. *)
LEMMA Kinds ==
  ASSUME NEW e, NEW n
  PROVE  /\ Ok.kind = "ok" /\ Err(e).kind = "err" /\ Custom(n).kind = "custom"
         /\ Err(e).name = e /\ Custom(n).code = n
         /\ Err(e) # Ok /\ Custom(n) # Ok /\ Err(e) # Custom(n)
BY DEF Ok, Err, Custom

(* A named error is sent as a negative number that stands for a name. *)
LEMMA CodeRange ==
  ASSUME NEW e
  PROVE  code_of(e) \in -25 .. -1
<1>1. CASE e \in Coded
  <2>1. \E i \in 1 .. 25 : program_error_to_i32[i] = e
    BY <1>1 DEF Coded
  <2>2. PICK i \in 1 .. 25 : i = CHOOSE j \in 1 .. 25 : program_error_to_i32[j] = e
    BY <2>1
  <2>3. code_of(e) = -i
    BY <1>1, <2>2 DEF code_of
  <2>. QED
    BY <2>3
<1>2. CASE e \notin Coded
  BY <1>2 DEF code_of, unmapped_status
<1>. QED
  BY <1>1, <1>2

(* A custom code becomes 0 only if it is 0, and else fits the status. *)
LEMMA CustomRange ==
  ASSUME NEW n \in CustomCodes
  PROVE  as_i32(n) \in -HalfRange .. HalfRange - 1 /\ (as_i32(n) = 0 <=> n = 0)
BY HalfRangeAssumption DEF CustomCodes, as_i32

(* A client makes a success of 0 and of nothing else, whatever its table. *)
LEMMA ClientTellsZero ==
  ASSUME NEW names, NEW n \in Int
  PROVE  client_status(names, n) = Ok <=> n = 0
<1>1. CASE n = 0
  BY <1>1 DEF client_status
<1>2. CASE n > 0
  BY <1>2, Kinds DEF client_status
<1>3. CASE n < 0
  BY <1>3, Kinds DEF client_status
<1>. QED
  BY <1>1, <1>2, <1>3

(* The status is 0 for a success and the custom error 0. *)
LEMMA ZeroStatus ==
  ASSUME NEW raw \in RawResults
  PROVE  /\ serialize_status(raw) \in Int
         /\ serialize_status(raw) = 0 <=> raw = Ok \/ raw = Custom(0)
<1>1. CASE raw = Ok
  BY <1>1, Kinds DEF serialize_status
<1>2. CASE \E e \in Coded \cup Uncoded : raw = Err(e)
  BY <1>2, Kinds, CodeRange DEF serialize_status
<1>3. CASE \E n \in CustomCodes : raw = Custom(n)
  <2>1. PICK n \in CustomCodes : raw = Custom(n)
    BY <1>3
  <2>2. serialize_status(raw) = as_i32(n)
    BY <2>1, Kinds DEF serialize_status
  <2>3. raw # Ok /\ (raw = Custom(0) <=> n = 0)
    BY <2>1, Kinds DEF Custom
  <2>. QED
    BY <2>2, <2>3, CustomRange, HalfRangeAssumption
<1>. QED
  BY <1>1, <1>2, <1>3, Outcomes

(* Rust sees a success only where there is one. *)
LEMMA RustTellsFailure ==
  ASSUME NEW raw \in RawResults
  PROVE  status(raw) = Ok <=> raw = Ok
BY Kinds DEF status, program_error_from

(* What is seen is always made from the last outcome. *)
LEMMA SeenAlways == Spec => []Seen
<1>1. Init => Seen
  <2>1. Ok \in RawResults
    BY DEF RawResults
  <2>2. serialize_status(Ok) = 0 /\ status(Ok) = Ok
    BY Kinds DEF serialize_status, status
  <2>3. programErrorFromStatus(0) = Ok /\ program_error_from_status(0) = Ok
    BY DEF programErrorFromStatus, program_error_from_status, client_status
  <2>. QED
    BY <2>1, <2>2, <2>3 DEF Init, Seen
<1>2. Seen /\ [Next]_vars => Seen'
  BY DEF Seen, Next, call_returns, vars
<1>. QED
  BY <1>1, <1>2, PTL DEF Spec

-----------------------------------------------------------------------------
(* For integers of any width, every client tells a failed call from a      *)
(* successful one, the custom error 0 excepted: StatusTellsFailure of      *)
(* wire.rs and the tables of both clients.                                 *)
THEOREM StatusTellsFailureAlways == Spec => []StatusTellsFailure
<1>1. Seen => StatusTellsFailure
  <2> SUFFICES ASSUME Seen, raw_result # Custom(0)
               PROVE  /\ rust = Ok <=> raw_result = Ok
                      /\ node = Ok <=> raw_result = Ok
                      /\ python = Ok <=> raw_result = Ok
    BY DEF StatusTellsFailure
  <2>1. serialize_status(raw_result) \in Int
        /\ (serialize_status(raw_result) = 0 <=> raw_result = Ok)
    BY ZeroStatus DEF Seen
  <2>. QED
    BY <2>1, RustTellsFailure, ClientTellsZero
       DEF Seen, programErrorFromStatus, program_error_from_status
<1>. QED
  BY <1>1, SeenAlways, PTL

-----------------------------------------------------------------------------
(* Position by position, the table of Node has the name that Rust has for  *)
(* the error at that position, unless Rust has none.                       *)
LEMMA TablesAgree ==
  ASSUME NEW i \in 1 .. 25
  PROVE  \/ program_error_to_i32[i] \in RuntimeNames
         \/ program_error_to_i32[i] = "NotEnoughAccountKeys" /\ NodeNames[i] = "MissingAccount"
         \/ /\ NodeNames[i] = program_error_to_i32[i]
            /\ NodeNames[i] \notin {"NotEnoughAccountKeys", "ComputationalBudgetExceeded"}
<1>1. i \in 1 .. 10 \/ i \in 11 .. 25
  OBVIOUS
<1>2. CASE i \in 1 .. 10
  <2>1. \/ i = 1 \/ i = 2 \/ i = 3 \/ i = 4 \/ i = 5 \/ i = 6 \/ i = 7 \/ i = 8 \/ i = 9 \/ i = 10
    BY <1>2
  <2>. QED
    BY <2>1 DEF program_error_to_i32, NodeNames, RuntimeNames
<1>3. CASE i \in 11 .. 25
  <2>1. \/ i = 11 \/ i = 12 \/ i = 13 \/ i = 14 \/ i = 15 \/ i = 16 \/ i = 17 \/ i = 18
        \/ i = 19 \/ i = 20 \/ i = 21 \/ i = 22 \/ i = 23 \/ i = 24 \/ i = 25
    BY <1>3
  <2>. QED
    BY <2>1 DEF program_error_to_i32, NodeNames, RuntimeNames
<1>. QED
  BY <1>1, <1>2, <1>3

(* Where wire.rs has a code for an error and error.rs a name, the table of *)
(* index.ts has that name for that code, and custom codes arrive as they   *)
(* are, for integers of any width.                                         *)
THEOREM NodeAgreesWithRustAlways == Spec => []NodeAgreesWithRust
<1>1. Seen => NodeAgreesWithRust
  <2> SUFFICES ASSUME Seen, SentByName, rust # Err("Runtime")
               PROVE  node = rust
    BY DEF NodeAgreesWithRust
  <2>1. CASE raw_result.kind = "custom" /\ raw_result.code \in 1 .. HalfRange - 1
    <3>1. PICK n \in 1 .. HalfRange - 1 : raw_result = Custom(n)
      <4>1. PICK n \in CustomCodes : raw_result = Custom(n)
        BY <2>1, Outcomes, Kinds DEF Seen
      <4>. QED
        BY <2>1, <4>1, Kinds
    <3>2. serialize_status(raw_result) = n
      BY <3>1, Kinds, HalfRangeAssumption DEF serialize_status, as_i32
    <3>3. node = Custom(n)
      BY <3>2, HalfRangeAssumption DEF Seen, programErrorFromStatus, client_status
    <3>4. rust = Custom(n)
      BY <3>1, Kinds DEF Seen, status, program_error_from
    <3>. QED
      BY <3>3, <3>4
  <2>2. CASE raw_result.kind = "err" /\ raw_result.name \in Coded
    <3>1. PICK e \in Coded : raw_result = Err(e)
      BY <2>2, Outcomes, Kinds DEF Seen
    <3>2. \E j \in 1 .. 25 : program_error_to_i32[j] = e
      BY DEF Coded
    <3>3. PICK i \in 1 .. 25 : i = CHOOSE j \in 1 .. 25 : program_error_to_i32[j] = e
      BY <3>2
    <3>4. program_error_to_i32[i] = e
      BY <3>2, <3>3
    <3>5. serialize_status(raw_result) = -i
      <4>1. code_of(e) = -i
        BY <3>3 DEF code_of
      <4>. QED
        BY <4>1, <3>1, Kinds DEF serialize_status
    <3>6. Len(NodeNames) = 25
      BY DEF NodeNames
    <3>7. node = Err(NodeNames[i])
      BY <3>5, <3>6 DEF Seen, programErrorFromStatus, client_status
    <3>8. e \notin RuntimeNames
      <4>1. rust = program_error_from(Err(e)) /\ Err(e).kind = "err" /\ Err(e).name = e
        BY <3>1, Kinds DEF Seen, status
      <4>2. e \in RuntimeNames => program_error_from(Err(e)) = Err("Runtime")
        <5>1. e \in RuntimeNames =>
                Err(e) # Err("NotEnoughAccountKeys") /\ Err(e) # Err("ComputationalBudgetExceeded")
          BY Kinds DEF RuntimeNames
        <5>. QED
          BY <4>1, <5>1 DEF program_error_from
      <4>. QED
        BY <4>1, <4>2
    <3>9. CASE e = "NotEnoughAccountKeys" /\ NodeNames[i] = "MissingAccount"
      <4>1. rust = Err("MissingAccount")
        BY <3>1, <3>8, <3>9, Kinds DEF Seen, status, program_error_from
      <4>. QED
        BY <4>1, <3>7, <3>9
    <3>10. CASE /\ NodeNames[i] = e
                /\ e \notin {"NotEnoughAccountKeys", "ComputationalBudgetExceeded"}
      <4>1. Err(e) # Err("NotEnoughAccountKeys") /\ Err(e) # Err("ComputationalBudgetExceeded")
        BY <3>10, Kinds
      <4>2. rust = Err(e)
        BY <3>1, <3>8, <4>1, Kinds DEF Seen, status, program_error_from
      <4>. QED
        BY <4>2, <3>7, <3>10
    <3>. QED
      BY <3>4, <3>8, <3>9, <3>10, TablesAgree
  <2>. QED
    BY <2>1, <2>2 DEF SentByName
<1>. QED
  BY <1>1, SeenAlways, PTL

-----------------------------------------------------------------------------
(* The first ten codes have a name in Rust, and it is the one Python has.  *)
LEMMA FirstTablesAgree ==
  ASSUME NEW i \in 1 .. 10
  PROVE  /\ program_error_to_i32[i] \notin RuntimeNames
         /\ \/ program_error_to_i32[i] = "NotEnoughAccountKeys" /\ PythonNames[i] = "MissingAccount"
            \/ /\ PythonNames[i] = program_error_to_i32[i]
               /\ PythonNames[i] \notin {"NotEnoughAccountKeys", "ComputationalBudgetExceeded"}
<1>1. \/ i = 1 \/ i = 2 \/ i = 3 \/ i = 4 \/ i = 5 \/ i = 6 \/ i = 7 \/ i = 8 \/ i = 9 \/ i = 10
  OBVIOUS
<1>. QED
  BY <1>1 DEF program_error_to_i32, PythonNames, RuntimeNames

(* What Rust makes of an error that it has a name for.                     *)
LEMMA RustNames ==
  ASSUME NEW e, e \notin RuntimeNames
  PROVE  /\ e = "NotEnoughAccountKeys" => program_error_from(Err(e)) = Err("MissingAccount")
         /\ e = "ComputationalBudgetExceeded" =>
              program_error_from(Err(e)) = Err("ComputeBudgetExceeded")
         /\ e \notin {"NotEnoughAccountKeys", "ComputationalBudgetExceeded"} =>
              program_error_from(Err(e)) = Err(e)
<1>1. Err(e).kind = "err" /\ Err(e).name = e
  BY Kinds
<1>2. \A x : Err(e) = Err(x) => e = x
  BY Kinds
<1>. QED
  BY <1>1, <1>2 DEF program_error_from

(* Python names the errors with the first ten codes as Rust does, and      *)
(* custom codes arrive as they are, for integers of any width: the table   *)
(* of types.py as far as it follows wire.rs.                               *)
THEOREM PythonAgreesOnFirstCodesAlways == Spec => []PythonAgreesOnFirstCodes
<1>1. ASSUME Seen, SentByName, raw_result.kind = "custom" PROVE python = rust
  <2>1. PICK n \in CustomCodes : raw_result = Custom(n)
    BY <1>1, Outcomes, Kinds DEF Seen
  <2>2. n \in 1 .. HalfRange - 1
    BY <1>1, <2>1, Kinds DEF SentByName
  <2>3. serialize_status(raw_result) = n
    BY <2>1, <2>2, Kinds, HalfRangeAssumption DEF serialize_status, as_i32
  <2>4. python = Custom(n)
    BY <1>1, <2>2, <2>3, HalfRangeAssumption DEF Seen, program_error_from_status, client_status
  <2>5. rust = Custom(n)
    BY <1>1, <2>1, Kinds DEF Seen, status, program_error_from
  <2>. QED
    BY <2>4, <2>5
<1>2. ASSUME Seen, SentByName, raw_result.kind = "err", -code_of(raw_result.name) \in 1 .. 10
      PROVE  python = rust
  <2>1. PICK e \in Coded : raw_result = Err(e)
    BY <1>2, Outcomes, Kinds DEF Seen, SentByName
  <2>2. \E j \in 1 .. 25 : program_error_to_i32[j] = e
    BY DEF Coded
  <2>3. PICK i \in 1 .. 25 : i = CHOOSE j \in 1 .. 25 : program_error_to_i32[j] = e
    BY <2>2
  <2>4. program_error_to_i32[i] = e
    BY <2>2, <2>3
  <2>5. code_of(e) = -i
    BY <2>3 DEF code_of
  <2>6. serialize_status(raw_result) = -i /\ i \in 1 .. 10
    BY <1>2, <2>1, <2>5, Kinds DEF serialize_status
  <2>7. Len(PythonNames) = 18
    BY DEF PythonNames
  <2>8. python = Err(PythonNames[i])
    BY <1>2, <2>6, <2>7 DEF Seen, program_error_from_status, client_status
  <2>9. rust = program_error_from(Err(e))
    BY <1>2, <2>1, Kinds DEF Seen, status
  <2>. QED
    BY <2>4, <2>6, <2>8, <2>9, FirstTablesAgree, RustNames
<1>3. Seen => PythonAgreesOnFirstCodes
  BY <1>1, <1>2 DEF PythonAgreesOnFirstCodes
<1>. QED
  BY <1>3, SeenAlways, PTL

-----------------------------------------------------------------------------
(* Every name in the tables is a variant that all clients have.            *)
LEMMA NamesInTables ==
  /\ \A i \in 1 .. Len(NodeNames) : NodeNames[i] \in Names
  /\ \A i \in 1 .. Len(PythonNames) : PythonNames[i] \in Names
<1>1. ASSUME NEW i \in 1 .. Len(NodeNames) PROVE NodeNames[i] \in Names
  <2>1. \/ i = 1 \/ i = 2 \/ i = 3 \/ i = 4 \/ i = 5 \/ i = 6 \/ i = 7 \/ i = 8 \/ i = 9
        \/ i = 10 \/ i = 11 \/ i = 12 \/ i = 13 \/ i = 14 \/ i = 15 \/ i = 16 \/ i = 17
        \/ i = 18 \/ i = 19 \/ i = 20 \/ i = 21 \/ i = 22 \/ i = 23 \/ i = 24 \/ i = 25
    BY <1>1 DEF NodeNames
  <2>. QED
    BY <2>1 DEF NodeNames, Names
<1>2. ASSUME NEW i \in 1 .. Len(PythonNames) PROVE PythonNames[i] \in Names
  <2>1. \/ i = 1 \/ i = 2 \/ i = 3 \/ i = 4 \/ i = 5 \/ i = 6 \/ i = 7 \/ i = 8 \/ i = 9
        \/ i = 10 \/ i = 11 \/ i = 12 \/ i = 13 \/ i = 14 \/ i = 15 \/ i = 16 \/ i = 17
        \/ i = 18
    BY <1>2 DEF PythonNames
  <2>. QED
    BY <2>1 DEF PythonNames, Names
<1>. QED
  BY <1>1, <1>2

(* Nothing but the errors of the runtime that have a name of their own is  *)
(* passed on by Rust under its name.                                       *)
LEMMA PassedOn ==
  ASSUME NEW e \in Coded \cup Uncoded, e \notin RuntimeNames,
         e \notin {"NotEnoughAccountKeys", "ComputationalBudgetExceeded"}
  PROVE  e \in Names
<1>1. CASE e \in Uncoded
  BY <1>1 DEF Uncoded, Names, RuntimeNames
<1>2. CASE e \in Coded
  <2>1. PICK i \in 1 .. 25 : program_error_to_i32[i] = e
    BY <1>2 DEF Coded
  <2>2. e = NodeNames[i] /\ Len(NodeNames) = 25
    BY <2>1, TablesAgree DEF NodeNames
  <2>. QED
    BY <2>2, NamesInTables
<1>. QED
  BY <1>1, <1>2

(* A client shows a variant it has, or a positive custom code.             *)
LEMMA ClientTypes ==
  ASSUME NEW n \in -HalfRange .. HalfRange - 1, NEW names,
         \A i \in 1 .. Len(names) : names[i] \in Names
  PROVE  client_status(names, n) \in
           {Ok} \cup {Err(e) : e \in Names} \cup {Custom(k) : k \in 1 .. HalfRange - 1}
<1>1. CASE n = 0
  BY <1>1 DEF client_status
<1>2. CASE n > 0
  <2>1. n \in 1 .. HalfRange - 1
    BY <1>2, HalfRangeAssumption
  <2>. QED
    BY <1>2, <2>1 DEF client_status
<1>3. CASE n < 0
  <2>1. "Runtime" \in Names
    BY DEF Names
  <2>. QED
    BY <1>3, <2>1 DEF client_status
<1>. QED
  BY <1>1, <1>2, <1>3, HalfRangeAssumption

(* Every way of an outcome ends in a variant that the client has, for      *)
(* integers of any width: the tables of error.rs, index.ts and types.py.   *)
THEOREM TypesKept == Spec => []TypeOK
<1>1. ASSUME Seen PROVE rust \in {Ok} \cup {Err(e) : e \in Names} \cup {Custom(n) : n \in CustomCodes}
  <2>1. CASE raw_result = Ok
    BY <1>1, <2>1 DEF Seen, status
  <2>2. CASE \E e \in Coded \cup Uncoded : raw_result = Err(e)
    <3>1. PICK e \in Coded \cup Uncoded : raw_result = Err(e)
      BY <2>2
    <3>2. rust = program_error_from(Err(e))
      BY <1>1, <3>1, Kinds DEF Seen, status
    <3>3. CASE e \in RuntimeNames
      <4>1. program_error_from(Err(e)) = Err("Runtime")
        <5>1. Err(e).kind = "err" /\ Err(e).name = e
          BY Kinds
        <5>2. Err(e) # Err("NotEnoughAccountKeys") /\ Err(e) # Err("ComputationalBudgetExceeded")
          BY <3>3, Kinds DEF RuntimeNames
        <5>. QED
          BY <3>3, <5>1, <5>2 DEF program_error_from
      <4>2. "Runtime" \in Names
        BY DEF Names
      <4>. QED
        BY <3>2, <4>1, <4>2
    <3>4. CASE e \notin RuntimeNames
      <4>1. {"MissingAccount", "ComputeBudgetExceeded"} \subseteq Names
        BY DEF Names
      <4>. QED
        BY <3>2, <3>4, <4>1, RustNames, PassedOn
    <3>. QED
      BY <3>3, <3>4
  <2>3. CASE \E n \in CustomCodes : raw_result = Custom(n)
    BY <1>1, <2>3, Kinds DEF Seen, status, program_error_from
  <2>. QED
    BY <1>1, <2>1, <2>2, <2>3, Outcomes DEF Seen
<1>2. ASSUME NEW raw \in RawResults PROVE serialize_status(raw) \in -HalfRange .. HalfRange - 1
  <2>1. CASE raw = Ok
    BY <2>1, Kinds, HalfRangeAssumption DEF serialize_status
  <2>2. CASE \E e \in Coded \cup Uncoded : raw = Err(e)
    BY <2>2, Kinds, CodeRange, HalfRangeAssumption DEF serialize_status
  <2>3. CASE \E n \in CustomCodes : raw = Custom(n)
    BY <2>3, Kinds, CustomRange DEF serialize_status
  <2>. QED
    BY <2>1, <2>2, <2>3, Outcomes
<1>3. Seen => TypeOK
  BY <1>1, <1>2, ClientTypes, NamesInTables
     DEF Seen, TypeOK, programErrorFromStatus, program_error_from_status
<1>. QED
  BY <1>3, SeenAlways, PTL
=============================================================================
