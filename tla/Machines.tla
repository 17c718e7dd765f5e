------------------------------ MODULE Machines ------------------------------
(***************************************************************************)
(* What the clients of the C interface are promised: every object has a    *)
(* machine of its own, which changes only by the calls made on that object *)
(* and by each of them in one step.                                        *)
(*                                                                         *)
(* There are no addresses here, no threads and no errors of threads.  A    *)
(* call takes effect once, somewhere between its begin and its return, or  *)
(* fails and changes nothing; a machine is made for an object that has     *)
(* none and freed once.  A panic may end the process and all machines.     *)
(***************************************************************************)
CONSTANTS
  Objects,    \* client objects
  Machine,    \* what a machine may be
  Null        \* no machine

VARIABLES
  machines,   \* the machine of every object, or Null
  calls       \* where the call on every object stands

machinesVars == <<machines, calls>>

Init ==
  /\ machines = [o \in Objects |-> Null]
  /\ calls = [o \in Objects |-> "none"]

(* A constructor makes several calls, and gives up at the first that fails. *)
Begin(o) ==
  /\ calls[o] \in {"none", "done"}
  /\ \E call \in IF machines[o] = Null THEN {"create"} ELSE {"use", "free"} :
       calls' = [calls EXCEPT ![o] = call]
  /\ UNCHANGED machines

(* The one step by which a call takes effect. *)
Effect(o) ==
  /\ \/ calls[o] \in {"create", "use"} /\ machines'[o] \in Machine
     \/ calls[o] = "free" /\ machines'[o] = Null
  /\ machines' = [machines EXCEPT ![o] = machines'[o]]
  /\ calls' = [calls EXCEPT ![o] = "done"]

Fail(o) ==
  /\ calls[o] \in {"create", "use"}
  /\ calls' = [calls EXCEPT ![o] = "failed"]
  /\ UNCHANGED machines

Return(o) ==
  /\ calls[o] \in {"done", "failed"}
  /\ calls' = [calls EXCEPT ![o] = "none"]
  /\ UNCHANGED machines

Abort == machines' = [o \in Objects |-> Null] /\ calls' = [o \in Objects |-> "none"]

Next ==
  \/ \E o \in Objects : Begin(o) \/ Effect(o) \/ Fail(o) \/ Return(o)
  \/ Abort

Spec == Init /\ [][Next]_machinesVars
=============================================================================
