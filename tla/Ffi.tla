--------------------------------- MODULE Ffi ---------------------------------
(***************************************************************************)
(* The C interface (ffi/src/ffi.rs, ffi/src/error.rs) under the Python and *)
(* Node clients: who frees machines and result buffers, which error text a *)
(* client gets to see, and what a call that fails leaves behind.           *)
(*                                                                         *)
(* A thread runs methods of client objects; between the steps of a method  *)
(* the collector may run the finalizer of another object on the same       *)
(* thread. Clients are assumed to pass an object between threads only      *)
(* while no method of it runs, and to call no method but free on an object *)
(* they have freed; the interface takes both for granted (&mut *svm).      *)
(***************************************************************************)
EXTENDS Integers

CONSTANTS
  Threads,
  Objects,       (* instances of the client's QuasarSvm class              *)
  Addresses,     (* where the allocator may put a machine                  *)
  Buffers,       (* where it may put a result                              *)
  Null,          (* the null pointer, and "none" of everything else        *)
  Bundled,       (* programs that come with the library                    *)
  Own,           (* programs of clients                                    *)
  Profiles,      (* what a panic may do: "abort", as in the release
                    profile, or "unwind", as in the others                 *)
  Versions       (* what the accounts, programs and settings of a machine
                    may be                                                 *)

ASSUME ConstantsAssumption ==
  /\ Profiles \subseteq {"abort", "unwind"}
  /\ Null \notin Threads \cup Objects \cup Addresses \cup Buffers \cup Bundled \cup Own

Errors == {"Null pointer argument", "Panic during SVM creation", "Panic while loading program",
           "Invalid data", "Panic during transaction execution"}

(* The error codes of error.rs that are used. *)
QUASAR_OK == 0
QUASAR_ERR_NULL_POINTER == -1

(* Mutant: a program that does not load is reported like text that is no UTF-8. *)
QUASAR_ERR_PROGRAM_LOAD_as_utf8 == -2

QUASAR_ERR_PROGRAM_LOAD == -3
QUASAR_ERR_EXECUTION == -4
QUASAR_ERR_INTERNAL == -99

(* A machine. Whose it is, only the model knows.                            *)
Machine == [owner : Objects, version : Versions]

ASSUME NullAssumption == Null \notin Errors \cup Machine

VARIABLES
  boxes,       (* the machine at every address, or Null                    *)
  results,     (* result buffers not yet freed                             *)
  LAST_ERROR,  (* the message of every thread, or Null                     *)
  objects,     (* the client objects                                       *)
  frames       (* what every thread is doing, by method or finalizer       *)

vars == <<boxes, results, LAST_ERROR, objects, frames>>

Contexts == Threads \X {"method", "finalizer"}

Object == [stage : {"unborn", "constructing", "live", "garbage", "finalizing"},
           ptr : Addresses \cup {Null}, freed : BOOLEAN]

Unborn == [stage |-> "unborn", ptr |-> Null, freed |-> FALSE]

(* A method or finalizer in progress: the C function it calls, where it    *)
(* stands, the arguments, the programs a constructor has yet to add, what  *)
(* the function returned, and for the properties why it failed and what    *)
(* the machine was when the function was entered.                          *)
Idle == [fn |-> "none", at |-> "none", obj |-> Null, ptr |-> Null, program |-> Null,
         todo |-> {}, code |-> QUASAR_OK, buffer |-> Null, cause |-> Null, before |-> Null]

(* A thread executes its finalizer if it has one, and else its method. *)
Top(c) == c[2] = "finalizer" \/ frames[<<c[1], "finalizer">>] = Idle

At(c, fn, at) ==
  Top(c) /\ frames[c].fn = fn /\ frames[c].at = at

(* Inside the library the collector of this thread does not run. *)
InLibrary(c) == frames[c].at \in {"called", "chain", "write"}

AtRest(t) == frames[<<t, "method">>] = Idle /\ frames[<<t, "finalizer">>] = Idle

Unused(o) == \A c \in Contexts : frames[c].obj # o

-----------------------------------------------------------------------------
(* The last error (error.rs). *)

set_last_error(t, message) == [LAST_ERROR EXCEPT ![t] = message]
clear_last_error(t) == [LAST_ERROR EXCEPT ![t] = Null]
last_error_ptr(t) == LAST_ERROR[t]

-----------------------------------------------------------------------------
(* The functions of the interface (ffi.rs). *)

moves(c, at) == frames' = [frames EXCEPT ![c].at = at]

returns(c) == moves(c, "returned")

(* Every function but svm_free, result_free and last_error clears the last *)
(* error; it then returns this one, and nothing else has changed.          *)
fails(c, code, message) ==
  /\ LAST_ERROR' = set_last_error(c[1], message)
  /\ frames' = [frames EXCEPT ![c].at = "returned", ![c].code = code, ![c].cause = message]
  /\ UNCHANGED <<boxes, results, objects>>

succeeds(c) == LAST_ERROR' = clear_last_error(c[1])

(* In a profile that aborts on panics the process is gone, and another one *)
(* begins; catch_unwind catches a panic only in one that unwinds.          *)
abort ==
  /\ boxes' = [a \in Addresses |-> Null]
  /\ results' = {}
  /\ LAST_ERROR' = [t \in Threads |-> Null]
  /\ objects' = [o \in Objects |-> Unborn]
  /\ frames' = [c \in Contexts |-> Idle]

panics(c, code, message) ==
  \/ "unwind" \in Profiles /\ fails(c, code, message)
  \/ "abort" \in Profiles /\ abort

quasar_svm_new(c) ==
  /\ At(c, "svm_new", "called")
  /\ \/ panics(c, QUASAR_OK, "Panic during SVM creation")
     \/ /\ succeeds(c)
        /\ \E a \in Addresses, v \in Versions :
             /\ boxes[a] = Null
             /\ boxes' = [boxes EXCEPT ![a] = [owner |-> frames[c].obj, version |-> v]]
             /\ frames' = [frames EXCEPT ![c].at = "returned", ![c].ptr = a]
        /\ UNCHANGED <<results, objects>>

(* Mutant: the error is cleared here like everywhere else. *)
quasar_svm_free_clears(c) ==
  /\ At(c, "svm_free", "called")
  /\ boxes' = [boxes EXCEPT ![frames[c].ptr] = Null]
  /\ succeeds(c)
  /\ returns(c)
  /\ UNCHANGED <<results, objects>>

quasar_svm_free(c) ==
  /\ At(c, "svm_free", "called")
  /\ boxes' = [boxes EXCEPT ![frames[c].ptr] = Null]
  /\ returns(c)
  /\ UNCHANGED <<results, LAST_ERROR, objects>>

null_pointer(c) ==
  /\ \E fn \in {"add_program", "set", "process_transaction"} : At(c, fn, "called")
  /\ frames[c].ptr = Null
  /\ fails(c, QUASAR_ERR_NULL_POINTER, "Null pointer argument")

changes(a) == \E v \in Versions \ {boxes[a].version} : boxes' = [boxes EXCEPT ![a].version = v]

(* The ELF of a client may not load, which panics before it is registered. *)
quasar_svm_add_program(c) ==
  /\ At(c, "add_program", "called") /\ frames[c].ptr # Null
  /\ \/ /\ frames[c].program \in Own
        /\ panics(c, QUASAR_ERR_PROGRAM_LOAD, "Panic while loading program")
     \/ /\ succeeds(c)
        /\ changes(frames[c].ptr)
        /\ returns(c)
        /\ UNCHANGED <<results, objects>>

(* set_clock, warp_to_slot, set_rent, set_epoch_schedule, set_compute_budget. *)
quasar_svm_set(c) ==
  /\ At(c, "set", "called") /\ frames[c].ptr # Null
  /\ succeeds(c)
  /\ changes(frames[c].ptr)
  /\ returns(c)
  /\ UNCHANGED <<results, objects>>

(* Both buffers are read before anything is executed; which of them was    *)
(* damaged is in the text, and otherwise makes no difference.              *)
quasar_svm_process_transaction(c) ==
  /\ At(c, "process_transaction", "called") /\ frames[c].ptr # Null
  /\ \/ fails(c, QUASAR_ERR_EXECUTION, "Invalid data")
     \/ /\ succeeds(c)
        /\ moves(c, "chain")
        /\ UNCHANGED <<boxes, results, objects>>

(* Mutant: accounts are stored before the chain is known to be executable. *)
process_instruction_chain_stores_first(c) ==
  /\ At(c, "process_transaction", "chain")
  /\ \/ /\ moves(c, "write")
        /\ UNCHANGED LAST_ERROR
     \/ /\ LAST_ERROR' = set_last_error(c[1], "Panic during transaction execution")
        /\ frames' = [frames EXCEPT ![c].at = "returned", ![c].code = QUASAR_ERR_INTERNAL,
                                    ![c].cause = "Panic during transaction execution"]
  /\ changes(frames[c].ptr)
  /\ UNCHANGED <<results, objects>>

(* The chain panics before it is run, or runs and commits, or fails and    *)
(* leaves the accounts alone, which is a result like any other.            *)
process_instruction_chain(c) ==
  /\ At(c, "process_transaction", "chain")
  /\ \/ panics(c, QUASAR_ERR_INTERNAL, "Panic during transaction execution")
     \/ /\ changes(frames[c].ptr) \/ UNCHANGED boxes
        /\ moves(c, "write")
        /\ UNCHANGED <<results, LAST_ERROR, objects>>

write_result_out(c) ==
  /\ At(c, "process_transaction", "write")
  /\ \E b \in Buffers \ results :
       /\ results' = results \cup {b}
       /\ frames' = [frames EXCEPT ![c].at = "returned", ![c].buffer = b]
  /\ UNCHANGED <<boxes, LAST_ERROR, objects>>

-----------------------------------------------------------------------------
(* The clients (base.ts, __init__.py, _ffi.py). *)

enter(c, fn, o, p, program, todo) ==
  frames' = [frames EXCEPT ![c] =
               [Idle EXCEPT !.fn = fn, !.at = "called", !.obj = o, !.ptr = p,
                            !.program = program, !.todo = todo,
                            !.before = IF p = Null THEN Null ELSE boxes[p]]]

(* The programs a configuration asks for are added by the constructor. *)
construct(t, o, wanted) ==
  /\ AtRest(t)
  /\ objects[o].stage = "unborn"
  /\ objects' = [objects EXCEPT ![o] = [Unborn EXCEPT !.stage = "constructing"]]
  /\ enter(<<t, "method">>, "svm_new", o, Null, Null, wanted)
  /\ UNCHANGED <<boxes, results, LAST_ERROR>>

MayCall(t, o) ==
  /\ AtRest(t)
  /\ objects[o].stage = "live" /\ ~objects[o].freed
  /\ Unused(o)

(* A method that calls one function. A client that uses the interface     *)
(* directly may pass a null pointer.                                       *)
method(t, o, fn, program) ==
  /\ MayCall(t, o)
  /\ \E p \in {objects[o].ptr, Null} : enter(<<t, "method">>, fn, o, p, program, {})
  /\ UNCHANGED <<boxes, results, LAST_ERROR, objects>>

free(t, o) ==
  /\ MayCall(t, o)
  /\ enter(<<t, "method">>, "svm_free", o, objects[o].ptr, Null, {})
  /\ UNCHANGED <<boxes, results, LAST_ERROR, objects>>

(* The last reference to an object goes away. *)
drop(o) ==
  /\ objects[o].stage = "live" /\ Unused(o)
  /\ objects' = [objects EXCEPT ![o].stage = "garbage"]
  /\ UNCHANGED <<boxes, results, LAST_ERROR, frames>>

(* Python finalizes anywhere between the steps of a method; Node does so   *)
(* between methods only, which is among these.                             *)
MayFinalize(t) ==
  /\ frames[<<t, "finalizer">>] = Idle
  /\ ~InLibrary(<<t, "method">>)

(* Mutant: a finalizer leaves its object for later if there is an error to read. *)
begin_finalizer_later(t, o) ==
  IF LAST_ERROR[t] # Null THEN UNCHANGED <<objects, frames>>
  ELSE /\ objects' = [objects EXCEPT ![o].stage = "finalizing"]
       /\ enter(<<t, "finalizer">>, "svm_free", o, objects[o].ptr, Null, {})

begin_finalizer(t, o) ==
  /\ objects' = [objects EXCEPT ![o].stage = "finalizing"]
  /\ enter(<<t, "finalizer">>, "svm_free", o, objects[o].ptr, Null, {})

(* An object that was freed has nothing left to do. *)
finalize(t, o) ==
  /\ objects[o].stage = "garbage"
  /\ MayFinalize(t)
  /\ IF objects[o].freed
     THEN objects' = [objects EXCEPT ![o] = Unborn] /\ UNCHANGED frames
     ELSE begin_finalizer(t, o)
  /\ UNCHANGED <<boxes, results, LAST_ERROR>>

(* Mutant: the flag is not set. *)
freed_kept(o) == objects[o]

(* An object after its machine is freed, by its finalizer or by itself. *)
freed(o) ==
  IF objects[o].stage = "finalizing" THEN Unborn ELSE [objects[o] EXCEPT !.freed = TRUE]

svm_free_returned(c) ==
  /\ At(c, "svm_free", "returned")
  /\ objects' = [objects EXCEPT ![frames[c].obj] = freed(frames[c].obj)]
  /\ frames' = [frames EXCEPT ![c] = Idle]
  /\ UNCHANGED <<boxes, results, LAST_ERROR>>

(* The pointer the client has for its object. *)
pointer(c) == IF frames[c].fn = "svm_new" THEN frames[c].ptr ELSE objects[frames[c].obj].ptr

(* Mutant: what a constructor made before it raised is not finalized. *)
abandoned_forgotten(c) == Unborn

(* The object of a constructor that raised. *)
abandoned(c) ==
  IF pointer(c) = Null THEN Unborn
  ELSE [objects[frames[c].obj] EXCEPT !.stage = "garbage", !.ptr = pointer(c)]

(* An exception leaves the method, with the text that last_error_ptr gives  *)
(* the client now, or for a missing program file with the client's own.     *)
raise(c) ==
  /\ frames' = [frames EXCEPT ![c] = Idle]
  /\ objects' = [objects EXCEPT ![frames[c].obj] =
                    IF @.stage = "constructing" THEN abandoned(c) ELSE @]
  /\ UNCHANGED <<boxes, results, LAST_ERROR>>

(* A constructor adds the next program, whose file may be missing; a       *)
(* method is over.                                                         *)
proceed(c) ==
  LET f == frames[c] IN
  \/ f.todo # {} /\ raise(c)
  \/ /\ \/ f.todo = {} /\ frames' = [frames EXCEPT ![c] = Idle]
        \/ \E program \in f.todo :
             enter(c, "add_program", f.obj, pointer(c), program, f.todo \ {program})
     /\ objects' = [objects EXCEPT ![f.obj].ptr = pointer(c),
                                   ![f.obj].stage = IF f.todo = {} THEN "live" ELSE @]
     /\ UNCHANGED <<boxes, results, LAST_ERROR>>

svm_new_returned(c) ==
  /\ At(c, "svm_new", "returned")
  /\ IF frames[c].ptr = Null THEN raise(c) ELSE proceed(c)

check(c) ==
  /\ \E fn \in {"add_program", "set"} : At(c, fn, "returned")
  /\ IF frames[c].code # QUASAR_OK THEN raise(c) ELSE proceed(c)

execute_returned(c) ==
  /\ At(c, "process_transaction", "returned")
  /\ IF frames[c].code # QUASAR_OK THEN raise(c)
     ELSE moves(c, "copied") /\ UNCHANGED <<boxes, results, LAST_ERROR, objects>>

(* Mutant: a buffer is not given back. *)
quasar_result_free_forgets(c) ==
  /\ At(c, "process_transaction", "copied")
  /\ frames' = [frames EXCEPT ![c] = Idle]
  /\ UNCHANGED <<boxes, results, LAST_ERROR, objects>>

quasar_result_free(c) ==
  /\ At(c, "process_transaction", "copied")
  /\ results' = results \ {frames[c].buffer}
  /\ frames' = [frames EXCEPT ![c] = Idle]
  /\ UNCHANGED <<boxes, LAST_ERROR, objects>>

-----------------------------------------------------------------------------
(* A process that has just begun. *)
Init ==
  /\ boxes = [a \in Addresses |-> Null]
  /\ results = {}
  /\ LAST_ERROR = [t \in Threads |-> Null]
  /\ objects = [o \in Objects |-> Unborn]
  /\ frames = [c \in Contexts |-> Idle]

Library(c) ==
  \/ quasar_svm_new(c) \/ quasar_svm_free(c) \/ null_pointer(c)
  \/ quasar_svm_add_program(c) \/ quasar_svm_set(c)
  \/ quasar_svm_process_transaction(c) \/ process_instruction_chain(c) \/ write_result_out(c)

Client(c) ==
  \/ svm_new_returned(c) \/ svm_free_returned(c) \/ check(c)
  \/ execute_returned(c) \/ quasar_result_free(c)

(* What a thread does once it is in a method or finalizer. *)
Step(t) == \E level \in {"method", "finalizer"} : Library(<<t, level>>) \/ Client(<<t, level>>)

Start(t, o) ==
  \/ \E wanted \in SUBSET Bundled : construct(t, o, wanted)
  \/ \E program \in Own : method(t, o, "add_program", program)
  \/ method(t, o, "set", Null)
  \/ method(t, o, "process_transaction", Null)
  \/ free(t, o)

Next ==
  \/ \E t \in Threads : Step(t)
  \/ \E t \in Threads, o \in Objects : Start(t, o) \/ finalize(t, o)
  \/ \E o \in Objects : drop(o)

Spec == Init /\ [][Next]_vars

(* Methods that have begun go on, and between methods the collector finds  *)
(* every object. A moment it needs may be taken by another method, so it   *)
(* gets its turn only if such moments come again and again.                *)
Fairness ==
  /\ \A t \in Threads : WF_vars(Step(t))
  /\ \A o \in Objects : SF_vars(\E t \in Threads : AtRest(t) /\ finalize(t, o))

FairSpec == Spec /\ Fairness

-----------------------------------------------------------------------------
Frame ==
  [fn : {"none", "svm_new", "svm_free", "add_program", "set", "process_transaction"},
   at : {"none", "called", "chain", "write", "returned", "copied"},
   obj : Objects \cup {Null}, ptr : Addresses \cup {Null}, program : Bundled \cup Own \cup {Null},
   todo : SUBSET Bundled, buffer : Buffers \cup {Null}, cause : Errors \cup {Null},
   code : {0, -1, -3, -4, -99}, before : Machine \cup {Null}]

(* Types of the variables. *)
TypeOK ==
  /\ boxes \in [Addresses -> Machine \cup {Null}]
  /\ results \subseteq Buffers
  /\ LAST_ERROR \in [Threads -> Errors \cup {Null}]
  /\ objects \in [Objects -> Object]
  /\ frames \in [Contexts -> Frame]

(* A client that is about to raise an exception finds the text of the      *)
(* failure it is about: neither a call of another thread nor a finalizer   *)
(* that ran between the failing call and quasar_last_error has replaced or *)
(* cleared it. About LAST_ERROR being of the thread, and about svm_free    *)
(* leaving it alone.                                                       *)
RaisedIsOwn ==
  \A c \in Contexts : frames[c].cause # Null => last_error_ptr(c[1]) = frames[c].cause

(* Whoever is inside the library works on a machine that exists and is     *)
(* that of the calling object, even when the allocator has used addresses  *)
(* again; in particular no machine is freed twice or freed for another.    *)
(* About the freed flags, unregister, and the order of their steps.        *)
CallsOnOwnMachine ==
  \A c \in Contexts : frames[c].ptr # Null /\ InLibrary(c) =>
    boxes[frames[c].ptr] # Null /\ boxes[frames[c].ptr].owner = frames[c].obj

(* No machine is forgotten: there is an object that will free it, also     *)
(* when the object's constructor raised after the machine was made.        *)
MachinesAreHeld ==
  \A a \in Addresses : boxes[a] # Null =>
    LET o == boxes[a].owner
    IN \/ objects[o].ptr = a /\ ~objects[o].freed /\ objects[o].stage # "unborn"
       \/ \E c \in Contexts : /\ frames[c].fn = "svm_new" /\ frames[c].obj = o
                              /\ frames[c].ptr = a

(* Every result buffer that is not freed is held by exactly one execution, *)
(* and an execution that holds one holds one that is not freed.            *)
ResultsAreHeld ==
  /\ results = {frames[c].buffer : c \in Contexts} \ {Null}
  /\ \A c, d \in Contexts : frames[c].buffer = frames[d].buffer =>
       c = d \/ frames[c].buffer = Null

(* A function that returns an error has left the machine as it was, so the *)
(* client that sees an exception knows that nothing has been committed.    *)
FailedCallsChangeNothing ==
  \A c \in Contexts :
    frames[c].at = "returned" /\ frames[c].code # QUASAR_OK /\ frames[c].ptr # Null =>
      boxes[frames[c].ptr] = frames[c].before

(* README.md:201 says "Native memory is freed automatically by the GC":    *)
(* every object that is dropped gives its machine back.                    *)
GarbageIsFreed ==
  \A o \in Objects : objects[o].stage = "garbage" ~>
    (\A a \in Addresses : boxes[a] = Null \/ boxes[a].owner # o)
-----------------------------------------------------------------------------
(* What a client sees of an object: its frame, the machine at the address  *)
(* it has a handle for, and where the call on it stands.                   *)
FrameOf(o) ==
  IF Unused(o) THEN Idle ELSE frames[CHOOSE c \in Contexts : frames[c].obj = o]

Handle(o) ==
  LET f == FrameOf(o) IN
  IF f.fn = "svm_new" THEN f.ptr
  ELSE IF objects[o].freed \/ (f.fn = "svm_free" /\ f.at = "returned") THEN Null
  ELSE objects[o].ptr

MachineOf(o) == IF Handle(o) = Null THEN Null ELSE boxes[Handle(o)]

Stands(f) ==
  CASE f = Idle -> "none"
    [] f.at \in {"called", "chain"} -> IF f.fn = "svm_new" THEN "create"
                                      ELSE IF f.fn = "svm_free" THEN "free" ELSE "use"
    [] OTHER -> IF f.code # QUASAR_OK \/ f.ptr = Null THEN "failed" ELSE "done"

machines == [o \in Objects |-> MachineOf(o)]
calls    == [o \in Objects |-> Stands(FrameOf(o))]

M == INSTANCE Machines

(* Objects do not disturb each other, on whatever threads they are used    *)
(* and at whatever addresses their machines are: every object has its own  *)
(* machine, on which each call, the three steps of an execution included,  *)
(* takes effect once as a whole, or fails and leaves it alone.             *)
ImplementsMachines == M!Spec
=============================================================================
