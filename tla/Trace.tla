------------------------------- MODULE Trace -------------------------------
(***************************************************************************)
(* The log of a call and the execution trace that is made from it          *)
(* (svm/src/svm.rs). The runtime leaves two records of what it ran: the    *)
(* instruction frames of the transaction context, and log lines. The code  *)
(* parses the lines, numbers the invocations it meets, and joins both by   *)
(* (nesting level, number). The lines of a log carry no call identity, so  *)
(* the join is right only when both records list the same calls in the     *)
(* same order.                                                             *)
(***************************************************************************)
EXTENDS Naturals, Sequences, FiniteSets, SequencesExt

CONSTANTS
  ProgramLines,     (* what programs write into the log                   *)
  LogLimit,         (* the byte limit of the LogCollector                 *)
  Units,            (* compute units a call may consume                   *)
  MaxChain,         (* bound: instructions of a chain                     *)
  MaxCalls,         (* bound: invocations of a chain                      *)
  MaxHeight,        (* the runtime's limit on nested calls                *)
  MaxProgramLines   (* bound: lines written by programs in a chain        *)

Kinds == {"invoke", "consumed", "success", "failed", "other"}

ASSUME ConstantsAssumption ==
  /\ \A l \in ProgramLines : l.kind \in Kinds /\ l.n \in Nat /\ l.bytes \in Nat
  /\ Units \subseteq Nat
  /\ {LogLimit, MaxChain, MaxCalls, MaxHeight, MaxProgramLines} \subseteq Nat
  /\ MaxChain <= MaxCalls

VARIABLES
  phase,    (* "idle", "running", or "done"                               *)
  chain,    (* the number of instructions of the running call             *)
  calls,    (* what really ran, in the order of invocation; logged: ended *)
            (* before the log dropped a line (a history, for properties)  *)
  stack,    (* the invocations in progress, as positions in calls         *)
  failing,  (* whether an instruction has failed                          *)
  log,      (* the LogCollector                                           *)
  trace     (* ExecutionResult::execution_trace of the last call          *)

vars == <<phase, chain, calls, stack, failing, log, trace>>

-----------------------------------------------------------------------------
(* The log collector. A line that would reach the byte limit is dropped; a *)
(* shorter one that comes later may still fit.                             *)

NewLog == [lines |-> <<>>, bytes |-> 0, limit_warning |-> FALSE]

runtime_line(kind, n) ==
  [kind |-> kind, n |-> n, bytes |-> IF kind \in {"consumed", "failed"} THEN 2 ELSE 1]

Truncated == [kind |-> "other", n |-> 0, bytes |-> 0]

record_line(l, line) ==
  IF l.bytes + line.bytes < LogLimit
  THEN [l EXCEPT !.lines = Append(@, line), !.bytes = @ + line.bytes]
  ELSE [l EXCEPT !.lines = IF l.limit_warning THEN @ ELSE Append(@, Truncated),
                 !.limit_warning = TRUE]

drain_logs == log.lines

-----------------------------------------------------------------------------
(* The parser. A line counts as what the text it contains says; who wrote  *)
(* it is not looked at.                                                    *)

parse_invoke_log(line) == line.kind = "invoke"
parse_consumed_log(line) == line.kind = "consumed"

(* Mutant: only success lines are result lines. *)
parse_result_log_success_only(line) == IF line.kind = "success" THEN {0} ELSE {}

(* The code of a result line, if it is one: every failure is code 1. *)
parse_result_log(line) == IF line.kind = "success" THEN {0}
                          ELSE IF line.kind = "failed" THEN {1} ELSE {}

EmptyParser == [stack |-> <<>>, counter |-> 0, results |-> <<>>]

entry(results, key) ==
  IF key \in DOMAIN results THEN results[key] ELSE [result |-> 0, units |-> 0]

put(results, key, e) ==
  [k \in DOMAIN results \cup {key} |-> IF k = key THEN e ELSE results[k]]

(* One turn of the parser's loop. A result or a consumption without an open *)
(* invocation is skipped.                                                   *)
parse_line(p, line) ==
  LET top == Last(p.stack)
      open == p.stack # <<>>
  IN CASE parse_invoke_log(line) ->
            [p EXCEPT !.stack = Append(@, <<IF line.n = 0 THEN 0 ELSE line.n - 1, p.counter>>),
                      !.counter = @ + 1]
       [] parse_consumed_log(line) /\ open ->
            [p EXCEPT !.results = put(@, top, [entry(@, top) EXCEPT !.units = line.n])]
       [] parse_result_log(line) # {} /\ open ->
            [p EXCEPT !.results = put(@, top, [entry(@, top) EXCEPT
                                                 !.result = CHOOSE c \in parse_result_log(line) : TRUE]),
                      !.stack = Front(@)]
       [] OTHER -> p

parse_logs(lines) == FoldLeft(parse_line, EmptyParser, lines)
parse_log_results(lines) == parse_logs(lines).results

-----------------------------------------------------------------------------
(* The frames of the transaction context, as positions in calls: all       *)
(* top-level instructions, in the order in which they were prepared, then  *)
(* the calls they made. Instructions that a failed chain never reached are *)
(* frames of no call (0), at nesting level 0.                              *)

Positions(depths) ==
  LET among[n \in 0 .. Len(calls)] ==
        IF n = 0 THEN <<>>
        ELSE IF calls[n].depth \in depths THEN Append(among[n - 1], n) ELSE among[n - 1]
  IN among[Len(calls)]

InstructionFrames ==
  LET top == Positions({0})
  IN [i \in 1 .. chain |-> IF i \in DOMAIN top THEN top[i] ELSE 0]
       \o Positions(1 .. MaxHeight)

(* Mutant: levels are looked up as they are logged, counted from one. *)
extract_execution_trace_levels_from_one(frames, lines) ==
  LET results == parse_log_results(lines)
      level(c) == IF c = 0 THEN 1 ELSE calls[c].depth + 1
      found(i) == entry(results, <<level(frames[i]), i - 1>>)
  IN [i \in DOMAIN frames |->
        [call |-> frames[i], stack_depth |-> level(frames[i]),
         result |-> found(i).result, units |-> found(i).units]]

(* "call" stands for the program, the accounts and the data of the frame. *)
extract_execution_trace(frames, lines) ==
  LET results == parse_log_results(lines)
      level(c) == IF c = 0 THEN 0 ELSE calls[c].depth
      found(i) == entry(results, <<level(frames[i]), i - 1>>)
  IN [i \in DOMAIN frames |->
        [call |-> frames[i], stack_depth |-> level(frames[i]),
         result |-> found(i).result, units |-> found(i).units]]

-----------------------------------------------------------------------------
Init ==
  /\ phase = "idle"
  /\ chain = 0
  /\ calls = <<>>
  /\ stack = <<>>
  /\ failing = FALSE
  /\ log = NewLog
  /\ trace = <<>>

reset_logger == log' = NewLog

(* A call begins: the log is new and so is the transaction context. *)
execute_inner(n) ==
  /\ phase # "running"
  /\ phase' = "running"
  /\ reset_logger
  /\ chain' = n
  /\ calls' = <<>>
  /\ stack' = <<>>
  /\ failing' = FALSE
  /\ trace' = <<>>

TopLevelCalls == Cardinality({c \in DOMAIN calls : calls[c].depth = 0})

(* Mutant: a program at the deepest level may still call another.          *)
MayInvoke_one_too_deep ==
  /\ phase = "running" /\ ~failing
  /\ Len(stack) <= MaxHeight
  /\ \/ stack = <<>> /\ TopLevelCalls < chain
     \/ stack # <<>> /\ Len(calls) + chain - TopLevelCalls < MaxCalls

(* The next top-level instruction, or a call by the running program, which *)
(* leaves room for the top-level instructions to come.                     *)
MayInvoke ==
  /\ phase = "running" /\ ~failing
  /\ Len(stack) < MaxHeight
  /\ \/ stack = <<>> /\ TopLevelCalls < chain
     \/ stack # <<>> /\ Len(calls) + chain - TopLevelCalls < MaxCalls

invocation(outcome) ==
  [depth |-> Len(stack), outcome |-> outcome, units |-> 0, metered |-> FALSE,
   logged |-> FALSE]

invoke ==
  /\ MayInvoke
  /\ calls' = Append(calls, invocation("running"))
  /\ stack' = Append(stack, Len(calls) + 1)
  /\ log' = record_line(log, runtime_line("invoke", Len(stack) + 1))
  /\ UNCHANGED <<phase, chain, failing, trace>>

(* The program is not in the cache: the frame exists, no line is written.  *)
(* compile_accounts gives such a program a stub account, so the call gets  *)
(* this far.                                                               *)
refuse ==
  /\ MayInvoke
  /\ calls' = Append(calls, invocation("refused"))
  /\ failing' = TRUE
  /\ UNCHANGED <<phase, chain, stack, log, trace>>

(* An invocation ends. A program whose callee failed fails too. Programs   *)
(* that run in the virtual machine report what they consumed, builtins do  *)
(* not.                                                                    *)
return(outcome, metered, units) ==
  /\ stack # <<>>
  /\ failing => outcome = "failed"
  /\ log' = LET l == IF metered THEN record_line(log, runtime_line("consumed", units)) ELSE log
            IN record_line(l, runtime_line(outcome, 0))
  /\ calls' = [calls EXCEPT ![Last(stack)] =
                 [@ EXCEPT !.outcome = outcome, !.metered = metered, !.units = units,
                           !.logged = ~log'.limit_warning]]
  /\ stack' = Front(stack)
  /\ failing' = (outcome = "failed")
  /\ UNCHANGED <<phase, chain, trace>>

program_log(line) ==
  /\ stack # <<>> /\ ~failing
  /\ Len(SelectSeq(log.lines, LAMBDA l : l \in ProgramLines)) < MaxProgramLines
  /\ log' = record_line(log, line)
  /\ UNCHANGED <<phase, chain, calls, stack, failing, trace>>

(* The chain is over: the result gets its trace. *)
finish ==
  /\ phase = "running" /\ stack = <<>>
  /\ failing \/ TopLevelCalls = chain
  /\ phase' = "done"
  /\ trace' = extract_execution_trace(InstructionFrames, drain_logs)
  /\ UNCHANGED <<chain, calls, stack, failing, log>>

Next ==
  \/ \E n \in 0 .. MaxChain : execute_inner(n)
  \/ invoke
  \/ refuse
  \/ \E outcome \in {"success", "failed"}, units \in Units : return(outcome, TRUE, units)
  \/ \E outcome \in {"success", "failed"} : return(outcome, FALSE, 0)
  \/ \E line \in ProgramLines : program_log(line)
  \/ finish

Spec == Init /\ [][Next]_vars

-----------------------------------------------------------------------------
(* Types of the variables. *)
TypeOK ==
  /\ phase \in {"idle", "running", "done"}
  /\ chain \in 0 .. MaxChain
  /\ \A i \in DOMAIN calls :
       calls[i] \in [depth : 0 .. MaxHeight - 1, units : Units \cup {0}, metered : BOOLEAN, logged : BOOLEAN,
                     outcome : {"running", "success", "failed", "refused"}]
  /\ Len(calls) <= MaxCalls
  /\ \A i \in DOMAIN stack : stack[i] \in DOMAIN calls /\ calls[stack[i]].depth = i - 1
  /\ failing \in BOOLEAN
  /\ \A i \in DOMAIN log.lines : log.lines[i].kind \in Kinds
  /\ \A i \in DOMAIN trace : trace[i].call \in 0 .. Len(calls)

ProgramsWritePlainLines == \A l \in ProgramLines : l.kind = "other"

(* A log that tells the whole story: complete, and without lines of        *)
(* programs that look like lines of the runtime.                           *)
Intelligible == ~log.limit_warning /\ ProgramsWritePlainLines

(* Frames are in the order of the log, although all top-level instructions *)
(* are in front: no program called another, or the last instruction of the *)
(* chain was reached and only its program did.                             *)
FramesFollowLog ==
  \/ \A i \in DOMAIN calls : calls[i].depth = 0
  \/ /\ TopLevelCalls = chain
     /\ \A i, j \in DOMAIN calls : i < j /\ calls[j].depth = 0 => calls[i].depth = 0

(* While a call runs, the parser, stopped anywhere in an intelligible log, *)
(* has exactly the running invocations on its stack, each with its own     *)
(* level and number. This is what parse_log_results relies on when it pops *)
(* one entry per result line without looking at the program.               *)
ParserFollowsStack ==
  phase = "running" /\ Intelligible =>
    parse_logs(log.lines).stack = [i \in DOMAIN stack |-> <<i - 1, stack[i] - 1>>]

(* Every executed call is in the trace once, with its own level; if it     *)
(* ended before the log dropped a line, its result is 0 exactly when it    *)
(* succeeded, and the units are those it reported. In a full log shorter   *)
(* lines of later calls still arrive, and close invocations that are not   *)
(* theirs: they must not spoil what was settled before. About the join of  *)
(* frames and log results in extract_execution_trace.                      *)
TraceMatchesCalls ==
  phase = "done" /\ ProgramsWritePlainLines /\ FramesFollowLog =>
    \A c \in DOMAIN calls : \E i \in DOMAIN trace :
      /\ \A j \in DOMAIN trace : trace[j].call = c <=> j = i
      /\ trace[i].stack_depth = calls[c].depth
      /\ calls[c].logged =>
           /\ trace[i].result = 0 <=> calls[c].outcome = "success"
           /\ trace[i].units = calls[c].units

(* svm.rs:104 says of an executed instruction "Execution result: 0 =       *)
(* success, error code otherwise (parsed from logs)".                      *)
FailuresHaveErrorCodes ==
  phase = "done" => \A i \in DOMAIN trace :
    trace[i].call # 0 /\ calls[trace[i].call].outcome \in {"failed", "refused"} =>
      trace[i].result # 0
=============================================================================
