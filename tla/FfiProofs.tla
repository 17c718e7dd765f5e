------------------------------ MODULE FfiProofs ------------------------------
(* Theorems about Ffi, for every value of its constants. *)
EXTENDS Ffi, TLAPS

(***************************************************************************)
(* The inductive invariant. It is local: for every frame in progress it    *)
(* says what the frame f and the object ob it is about may be together,    *)
(* and no two frames are about one object.                                 *)
(***************************************************************************)
NewFrame(f, ob, level) ==
  /\ f.fn = "svm_new" /\ f.at \in {"called", "returned"} /\ f.code = QUASAR_OK
  /\ level = "method" /\ ob.stage = "constructing" /\ ob.ptr = Null
  /\ f.at = "called" => f.ptr = Null /\ f.cause = Null
  /\ f.at = "returned" => (f.ptr = Null <=> f.cause # Null)
  /\ f.buffer = Null

FreeFrame(f, ob, level) ==
  /\ f.fn = "svm_free" /\ f.at \in {"called", "returned"} /\ f.code = QUASAR_OK
  /\ f.ptr = ob.ptr
  /\ ob.stage = IF level = "method" THEN "live" ELSE "finalizing"
  /\ f.cause = Null /\ f.buffer = Null

CallFrame(f, ob, level) ==
  /\ f.fn \in {"add_program", "set", "process_transaction"}
  /\ f.at \in {"called", "chain", "write", "returned", "copied"}
  /\ f.at \in {"chain", "write", "copied"} => f.fn = "process_transaction"
  /\ level = "method" /\ ob.stage \in {"constructing", "live"} /\ ob.ptr # Null
  /\ f.ptr # Null => f.ptr = ob.ptr
  /\ f.ptr = Null => f.at = "called" \/ f.code # QUASAR_OK
  /\ f.at # "returned" => f.code = QUASAR_OK
  /\ f.code = QUASAR_OK <=> f.cause = Null
  /\ f.buffer # Null => f.code = QUASAR_OK /\ f.at \in {"returned", "copied"}
  /\ f.buffer # Null => f.fn = "process_transaction"

GoodFrame(f, ob, level) ==
  ~ob.freed /\ (NewFrame(f, ob, level) \/ FreeFrame(f, ob, level) \/ CallFrame(f, ob, level))

GoodObject(ob) ==
  /\ ob.stage \in {"live", "garbage", "finalizing"} => ob.ptr # Null
  /\ ob.stage \in {"unborn", "constructing", "finalizing"} => ~ob.freed
  /\ ob.stage = "unborn" => ob.ptr = Null

Shaped ==
  /\ \A c \in Contexts : frames[c] # Idle =>
       /\ frames[c].obj \in Objects
       /\ GoodFrame(frames[c], objects[frames[c].obj], c[2])
  /\ \A o \in Objects : GoodObject(objects[o])

Exclusive ==
  \A c, d \in Contexts : frames[c].obj # Null /\ frames[c].obj = frames[d].obj => c = d

(* An object has the machine at the address it points to, until it has     *)
(* been freed, or the one its constructor has just got.                    *)
Holds(f, ob, a) ==
  \/ ob.ptr = a /\ ~ob.freed /\ ~(f.fn = "svm_free" /\ f.at = "returned")
  \/ f.fn = "svm_new" /\ f.ptr = a

Belongs(a, o) == boxes[a] # Null /\ boxes[a].owner = o

Held ==
  /\ \A c \in Contexts : frames[c] # Idle =>
       \A a \in Addresses : Belongs(a, frames[c].obj) <=> Holds(frames[c], objects[frames[c].obj], a)
  /\ \A o \in Objects : Unused(o) =>
       \A a \in Addresses : Belongs(a, o) <=> Holds(Idle, objects[o], a)

(* Until a function changes its machine, and if it fails, the machine is   *)
(* what it was.                                                            *)
MustBeSame(f) ==
  /\ f.fn \in {"add_program", "set", "process_transaction"} /\ f.ptr # Null
  /\ f.at \in {"called", "chain"} \/ f.code # QUASAR_OK

Untouched ==
  \A c \in Contexts : MustBeSame(frames[c]) => boxes[frames[c].ptr] = frames[c].before

IInv ==
  TypeOK /\ Shaped /\ Exclusive /\ Held /\ Untouched /\ RaisedIsOwn /\ ResultsAreHeld

-----------------------------------------------------------------------------
(* Null is not a thing. *)
LEMMA NullIsNothing ==
  Null \notin Objects \cup Addresses \cup Buffers \cup Errors \cup Machine
BY ConstantsAssumption, NullAssumption

(* A process that has just begun satisfies the invariant. *)
LEMMA InitInv == Init => IInv
<1> SUFFICES ASSUME Init PROVE IInv
  OBVIOUS
<1>1. Idle \in Frame /\ Unborn \in Object
  BY DEF Idle, Frame, Unborn, Object, QUASAR_OK
<1>2. TypeOK
  BY <1>1 DEF Init, TypeOK
<1>3. \A c \in Contexts : frames[c] = Idle
  BY DEF Init
<1>4. \A o \in Objects : objects[o] = Unborn
  BY DEF Init
<1>5. GoodObject(Unborn)
  BY DEF GoodObject, Unborn
<1>6. \A a \in Addresses, o \in Objects : ~Belongs(a, o) /\ ~Holds(Idle, Unborn, a)
  BY NullIsNothing DEF Init, Belongs, Holds, Unborn, Idle
<1>7. Idle.obj = Null /\ Idle.cause = Null /\ Idle.buffer = Null /\ Idle.fn = "none"
  BY DEF Idle
<1>8. ResultsAreHeld
  BY <1>3, <1>7 DEF ResultsAreHeld, Init
<1>. QED
  BY <1>2, <1>3, <1>4, <1>5, <1>6, <1>7, <1>8
     DEF IInv, Shaped, Exclusive, Held, Untouched, MustBeSame, RaisedIsOwn

-----------------------------------------------------------------------------
(***************************************************************************)
(* What a step of one context has in common with every other: the context  *)
(* c leaves the frame g, about an object o that becomes ob. The four parts *)
(* keep a part of the invariant each.                                      *)
(***************************************************************************)
Moves(c, o, g, ob) ==
  /\ \/ frames[c] = Idle /\ Unused(o)
     \/ frames[c] # Idle /\ frames[c].obj = o
  /\ frames' = [frames EXCEPT ![c] = g]
  /\ objects' = [objects EXCEPT ![o] = ob]
  /\ g \in Frame /\ ob \in Object
  /\ g # Idle => g.obj = o /\ GoodFrame(g, ob, c[2])
  /\ GoodObject(ob)

Keeps(o, g, ob) ==
  /\ boxes' \in [Addresses -> Machine \cup {Null}]
  /\ \A a \in Addresses : boxes'[a] # boxes[a] =>
       /\ boxes[a] = Null \/ boxes[a].owner = o
       /\ boxes'[a] = Null \/ boxes'[a].owner = o
  /\ \A a \in Addresses : Belongs(a, o)' <=> Holds(g, ob, a)
  /\ MustBeSame(g) => boxes'[g.ptr] = g.before

Reports(c, g) ==
  /\ \/ LAST_ERROR' = LAST_ERROR
     \/ /\ c[2] = "method" /\ Top(c)
        /\ \E e \in Errors \cup {Null} : LAST_ERROR' = [LAST_ERROR EXCEPT ![c[1]] = e]
  /\ g.cause # Null => LAST_ERROR'[c[1]] = g.cause

Hands(c, g) ==
  /\ results' = (results \ {frames[c].buffer}) \cup ({g.buffer} \ {Null})
  /\ g.buffer # Null => g.buffer = frames[c].buffer \/ g.buffer \notin results

(* Contexts are pairs. *)
LEMMA ContextPairs ==
  \A c \in Contexts : /\ c = <<c[1], c[2]>> /\ c[1] \in Threads /\ c[2] \in {"method", "finalizer"}
                      /\ <<c[1], "finalizer">> \in Contexts
BY DEF Contexts

(* What is idle is about nothing. *)
LEMMA IdleFields ==
  /\ Idle.obj = Null /\ Idle.cause = Null /\ Idle.buffer = Null /\ Idle.fn = "none"
  /\ Idle.at = "none" /\ Idle.ptr = Null /\ Idle.code = QUASAR_OK
  /\ Idle \in Frame /\ Unborn \in Object
BY DEF Idle, Frame, Unborn, Object, QUASAR_OK

(* Frames and objects stay of their type, shaped and exclusive. *)
LEMMA MovesShaped ==
  ASSUME IInv, NEW c \in Contexts, NEW o \in Objects, NEW g, NEW ob, Moves(c, o, g, ob)
  PROVE  /\ frames' \in [Contexts -> Frame] /\ objects' \in [Objects -> Object]
         /\ Shaped' /\ Exclusive'
<1> USE DEF IInv, TypeOK, Moves
<1>1. frames' \in [Contexts -> Frame] /\ objects' \in [Objects -> Object]
  OBVIOUS
<1>2. frames'[c] = g /\ \A d \in Contexts \ {c} : frames'[d] = frames[d]
  OBVIOUS
<1>3. objects'[o] = ob /\ \A q \in Objects \ {o} : objects'[q] = objects[q]
  OBVIOUS
<1>4. \A d \in Contexts \ {c} : frames[d].obj # o
  <2>1. CASE frames[c] = Idle /\ Unused(o)
    BY <2>1 DEF Unused
  <2>2. CASE frames[c] # Idle /\ frames[c].obj = o
    BY <2>2, NullIsNothing DEF Exclusive
  <2>. QED
    BY <2>1, <2>2
<1>5. Shaped'
  <2>1. ASSUME NEW d \in Contexts, frames'[d] # Idle
        PROVE  frames'[d].obj \in Objects /\ GoodFrame(frames'[d], objects'[frames'[d].obj], d[2])
    <3>1. CASE d = c
      BY <2>1, <3>1, <1>2, <1>3
    <3>2. CASE d # c
      BY <2>1, <3>2, <1>2, <1>3, <1>4 DEF Shaped
    <3>. QED
      BY <3>1, <3>2
  <2>2. \A q \in Objects : GoodObject(objects'[q])
    BY <1>3 DEF Shaped
  <2>. QED
    BY <2>1, <2>2 DEF Shaped, GoodFrame, GoodObject, NewFrame, FreeFrame, CallFrame
<1>6. g.obj = o \/ g.obj = Null
  BY IdleFields
<1>7. Exclusive'
  BY <1>2, <1>4, <1>6 DEF Exclusive
<1>. QED
  BY <1>1, <1>5, <1>7

(* Machines stay with their objects, and as they were where they must. *)
LEMMA KeepsHeld ==
  ASSUME IInv, NEW c \in Contexts, NEW o \in Objects, NEW g, NEW ob,
         Moves(c, o, g, ob), Keeps(o, g, ob)
  PROVE  Held' /\ Untouched'
<1> USE DEF IInv, TypeOK, Moves, Keeps
<1>2. frames'[c] = g /\ \A d \in Contexts \ {c} : frames'[d] = frames[d]
  OBVIOUS
<1>3. objects'[o] = ob /\ \A q \in Objects \ {o} : objects'[q] = objects[q]
  OBVIOUS
<1>4. \A d \in Contexts \ {c} : frames[d].obj # o
  <2>1. CASE frames[c] = Idle /\ Unused(o)
    BY <2>1 DEF Unused
  <2>2. CASE frames[c] # Idle /\ frames[c].obj = o
    BY <2>2, NullIsNothing DEF Exclusive
  <2>. QED
    BY <2>1, <2>2
<1>5. \A a \in Addresses, q \in Objects \ {o} : Belongs(a, q)' <=> Belongs(a, q)
  BY DEF Belongs
<1>6. ASSUME NEW d \in Contexts, frames'[d] # Idle, NEW q, q = frames'[d].obj, NEW a \in Addresses
      PROVE  Belongs(a, q)' <=> Holds(frames'[d], objects'[q], a)
  <2>1. CASE d = c
    BY <2>1, <1>2, <1>3, <1>6
  <2>2. CASE d # c
    <3>1. frames'[d] = frames[d] /\ frames[d].obj \in Objects \ {o}
      BY <2>2, <1>2, <1>4, <1>6 DEF Shaped
    <3>. QED
      BY <3>1, <1>3, <1>5, <1>6 DEF Held
  <2>. QED
    BY <2>1, <2>2
<1>7. ASSUME NEW q \in Objects, Unused(q)', NEW a \in Addresses
      PROVE  Belongs(a, q)' <=> Holds(Idle, objects'[q], a)
  <2>1. CASE q = o
    <3>1. g = Idle
      BY <2>1, <1>2, <1>7 DEF Unused
    <3>. QED
      BY <3>1, <2>1, <1>3
  <2>2. CASE q # o
    <3>1. frames[c].obj # q
      BY <2>2, IdleFields, NullIsNothing
    <3>2. Unused(q)
      BY <3>1, <1>2, <1>7 DEF Unused
    <3>. QED
      BY <3>2, <2>2, <1>3, <1>5 DEF Held
  <2>. QED
    BY <2>1, <2>2
<1>8. Held'
  <2>1. \A d \in Contexts : frames'[d] # Idle => \A q : q = frames'[d].obj =>
          \A a \in Addresses : Belongs(a, q)' <=> Holds(frames'[d], objects'[q], a)
    BY <1>6
  <2>2. \A q \in Objects : Unused(q)' =>
          \A a \in Addresses : Belongs(a, q)' <=> Holds(Idle, objects'[q], a)
    BY <1>7
  <2>. QED
    BY ONLY <2>1, <2>2 DEF Held
<1>9. Untouched'
  <2> SUFFICES ASSUME NEW d \in Contexts, MustBeSame(frames'[d])
               PROVE  boxes'[frames'[d].ptr] = frames'[d].before
    BY DEF Untouched, MustBeSame
  <2>1. CASE d = c
    BY <2>1, <1>2
  <2>2. CASE d # c
    <3>1. frames'[d] = frames[d] /\ frames[d] # Idle
      BY <2>2, <1>2, IdleFields DEF MustBeSame
    <3>2. frames[d].obj \in Objects \ {o} /\ frames[d].ptr \in Addresses
      BY <3>1, <2>2, <1>4 DEF Shaped, MustBeSame, Frame
    <3>3. frames[d].ptr = objects[frames[d].obj].ptr /\ ~objects[frames[d].obj].freed
      BY <3>1 DEF Shaped, GoodFrame, NewFrame, FreeFrame, CallFrame, MustBeSame
    <3>4. Holds(frames[d], objects[frames[d].obj], frames[d].ptr)
      BY <3>1, <3>3 DEF Holds, MustBeSame
    <3>5. Belongs(frames[d].ptr, frames[d].obj)
      BY <3>1, <3>2, <3>4 DEF Held
    <3>6. boxes'[frames[d].ptr] = boxes[frames[d].ptr]
      BY <3>2, <3>5 DEF Belongs
    <3>. QED
      BY <3>1, <3>6 DEF Untouched
  <2>. QED
    BY <2>1, <2>2
<1>. QED
  BY <1>8, <1>9

(* A thread's last error stays what its failed function left there. *)
LEMMA ReportsOwn ==
  ASSUME IInv, NEW c \in Contexts, NEW o \in Objects, NEW g, NEW ob,
         Moves(c, o, g, ob), Reports(c, g)
  PROVE  LAST_ERROR' \in [Threads -> Errors \cup {Null}] /\ RaisedIsOwn'
<1> USE DEF IInv, TypeOK, Moves, Reports
<1>1. LAST_ERROR' \in [Threads -> Errors \cup {Null}]
  OBVIOUS
<1>2. frames'[c] = g /\ \A d \in Contexts \ {c} : frames'[d] = frames[d]
  OBVIOUS
<1>3. ASSUME NEW d \in Contexts, frames'[d].cause # Null
      PROVE  LAST_ERROR'[d[1]] = frames'[d].cause
  <2>1. CASE d = c
    BY <2>1, <1>2, <1>3
  <2>2. CASE d # c /\ LAST_ERROR' = LAST_ERROR
    BY <2>2, <1>2, <1>3 DEF RaisedIsOwn, last_error_ptr
  <2>3. CASE d # c /\ LAST_ERROR' # LAST_ERROR
    <3>1. c[2] = "method" /\ frames[<<c[1], "finalizer">>] = Idle
      BY <2>3 DEF Top
    <3>2. d[1] # c[1]
      BY <3>1, <2>3, <1>2, <1>3, ContextPairs, IdleFields
    <3>3. LAST_ERROR'[d[1]] = LAST_ERROR[d[1]]
      BY <2>3, <3>2, ContextPairs
    <3>. QED
      BY <3>3, <2>3, <1>2, <1>3 DEF RaisedIsOwn, last_error_ptr
  <2>. QED
    BY <2>1, <2>2, <2>3
<1>4. RaisedIsOwn'
  BY <1>3 DEF RaisedIsOwn, last_error_ptr
<1>. QED
  BY <1>1, <1>4

(* Buffers stay with the executions that hold them. *)
LEMMA HandsHeld ==
  ASSUME IInv, NEW c \in Contexts, NEW o \in Objects, NEW g, NEW ob,
         Moves(c, o, g, ob), Hands(c, g)
  PROVE  results' \subseteq Buffers /\ ResultsAreHeld'
<1> USE DEF IInv, TypeOK, Moves, Hands
<1>1. g.buffer \in Buffers \cup {Null} /\ Null \notin Buffers
  BY NullIsNothing DEF Frame
<1>2. frames'[c] = g /\ \A d \in Contexts \ {c} : frames'[d] = frames[d]
  OBVIOUS
<1>3. \A d \in Contexts \ {c} : frames[d].buffer # Null =>
        frames[d].buffer \in results /\ frames[d].buffer # frames[c].buffer
  BY DEF ResultsAreHeld
<1>4. results' = {frames'[d].buffer : d \in Contexts} \ {Null}
  <2>1. ASSUME NEW b \in results' PROVE b \in {frames'[d].buffer : d \in Contexts} \ {Null}
    <3>1. CASE b = g.buffer
      BY <3>1, <2>1, <1>1, <1>2
    <3>2. CASE b # g.buffer
      <4>1. b \in results /\ b # frames[c].buffer
        BY <3>2, <2>1
      <4>2. PICK d \in Contexts : frames[d].buffer = b /\ b # Null
        BY <4>1 DEF ResultsAreHeld
      <4>. QED
        BY <4>1, <4>2, <1>2
    <3>. QED
      BY <3>1, <3>2
  <2>2. ASSUME NEW d \in Contexts, frames'[d].buffer # Null PROVE frames'[d].buffer \in results'
    BY <2>2, <1>2, <1>3
  <2>. QED
    BY <2>1, <2>2
<1>5. ASSUME NEW d \in Contexts, NEW e \in Contexts, frames'[d].buffer = frames'[e].buffer
      PROVE  d = e \/ frames'[d].buffer = Null
  <2>1. ASSUME NEW x \in Contexts \ {c}, frames[x].buffer # Null PROVE frames[x].buffer # g.buffer
    BY <2>1, <1>3
  <2>. QED
    BY <2>1, <1>2, <1>5 DEF ResultsAreHeld
<1>. QED
  BY <1>1, <1>4, <1>5 DEF ResultsAreHeld

(* Together: a step made of the four parts keeps the invariant. *)
LEMMA StepInv ==
  ASSUME IInv, NEW c \in Contexts, NEW o \in Objects, NEW g, NEW ob,
         Moves(c, o, g, ob), Keeps(o, g, ob), Reports(c, g), Hands(c, g)
  PROVE  IInv'
<1>1. boxes' \in [Addresses -> Machine \cup {Null}]
  BY DEF Keeps
<1>. QED
  BY <1>1, MovesShaped, KeepsHeld, ReportsOwn, HandsHeld DEF IInv, TypeOK

(* A step that only the client sees: machines, errors and buffers are not  *)
(* touched, and the object holds what it held.                             *)
LEMMA QuietInv ==
  ASSUME IInv, NEW c \in Contexts, NEW o \in Objects, NEW g, NEW ob, Moves(c, o, g, ob),
         UNCHANGED <<boxes, results, LAST_ERROR>>,
         \A a \in Addresses : Holds(frames[c], objects[o], a) <=> Holds(g, ob, a),
         g.cause = Null \/ g.cause = frames[c].cause,
         g.buffer = frames[c].buffer,
         MustBeSame(g) => boxes[g.ptr] = g.before
  PROVE  IInv'
<1>1. \A a \in Addresses : Belongs(a, o) <=> Holds(frames[c], objects[o], a)
  BY DEF IInv, Held, Moves
<1>2. Keeps(o, g, ob)
  BY <1>1 DEF IInv, TypeOK, Keeps, Belongs
<1>3. Reports(c, g)
  BY DEF IInv, RaisedIsOwn, last_error_ptr, Reports
<1>4. Hands(c, g)
  <2>1. frames[c].buffer # Null => frames[c].buffer \in results
    BY DEF IInv, ResultsAreHeld
  <2>2. Null \notin results
    BY NullIsNothing DEF IInv, TypeOK
  <2>. QED
    BY <2>1, <2>2 DEF Hands
<1>. QED
  BY <1>2, <1>3, <1>4, StepInv

(* A process that was aborted begins anew. *)
LEMMA AbortInv == abort => IInv'
<1>1. abort => Init'
  BY DEF abort, Init
<1>. QED
  BY <1>1, InitInv, PTL

(* What is known of a frame in progress. *)
LEMMA FrameFacts ==
  ASSUME IInv, NEW c \in Contexts, frames[c] # Idle
  PROVE  /\ frames[c] \in Frame /\ frames[c].obj \in Objects /\ objects[frames[c].obj] \in Object
         /\ GoodFrame(frames[c], objects[frames[c].obj], c[2])
         /\ GoodObject(objects[frames[c].obj])
         /\ \A a \in Addresses :
              Belongs(a, frames[c].obj) <=> Holds(frames[c], objects[frames[c].obj], a)
         /\ MustBeSame(frames[c]) => boxes[frames[c].ptr] = frames[c].before
BY DEF IInv, TypeOK, Shaped, Held, Untouched

(* The frame of a function that fails is a frame. *)
LEMMA FailedFrame ==
  ASSUME NEW f \in Frame, NEW code \in {0, -1, -3, -4, -99}, NEW message \in Errors
  PROVE  [f EXCEPT !.at = "returned", !.code = code, !.cause = message] \in Frame
<1>1. \A x \in Frame : [x EXCEPT !.at = "returned"] \in Frame
  BY DEF Frame
<1>2. \A x \in Frame : [x EXCEPT !.code = code] \in Frame
  BY DEF Frame
<1>3. \A x \in Frame : [x EXCEPT !.cause = message] \in Frame
  BY DEF Frame
<1>4. [f EXCEPT !.at = "returned", !.code = code, !.cause = message]
        = [[[f EXCEPT !.at = "returned"] EXCEPT !.code = code] EXCEPT !.cause = message]
  OBVIOUS
<1>. QED
  BY ONLY <1>1, <1>2, <1>3, <1>4, f \in Frame

(* A function that fails keeps the invariant, if its frame may look like that. *)
LEMMA FailsInv ==
  ASSUME IInv, NEW c \in Contexts, frames[c] # Idle, Top(c), c[2] = "method",
         NEW code \in {0, -1, -3, -4, -99}, NEW message \in Errors, fails(c, code, message),
         frames[c].fn # "svm_free",
         GoodFrame([frames[c] EXCEPT !.at = "returned", !.code = code, !.cause = message],
                   objects[frames[c].obj], c[2]),
         frames[c].ptr # Null => MustBeSame(frames[c])
  PROVE  IInv'
<1>1. PICK f \in Frame, o \in Objects, ob \in Object :
        f = frames[c] /\ o = f.obj /\ ob = objects[o]
  BY FrameFacts
<1> DEFINE g == [f EXCEPT !.at = "returned", !.code = code, !.cause = message]
<1>2. g \in Frame /\ g.obj = o /\ g.buffer = f.buffer
  <2>1. g \in Frame
    BY ONLY f \in Frame, code \in {0, -1, -3, -4, -99}, message \in Errors, FailedFrame
  <2>2. g.obj = o /\ g.buffer = f.buffer
    BY <1>1 DEF Frame
  <2>. QED
    BY <2>1, <2>2
<1>3. Moves(c, o, g, ob)
  <2>1. frames' = [frames EXCEPT ![c] = g] /\ objects' = [objects EXCEPT ![o] = ob]
    BY <1>1 DEF IInv, TypeOK, fails
  <2>. QED
    BY <1>1, <1>2, <2>1, FrameFacts DEF Moves
<1>4. \A a \in Addresses : Holds(f, ob, a) <=> Holds(g, ob, a)
  BY <1>1 DEF Holds, Frame
<1>5. MustBeSame(g) => boxes[g.ptr] = g.before
  BY <1>1, FrameFacts DEF MustBeSame, Frame
<1>6. Keeps(o, g, ob)
  <2>1. \A a \in Addresses : Belongs(a, o) <=> Holds(f, ob, a)
    BY <1>1, FrameFacts
  <2>. QED
    BY <1>4, <1>5, <2>1 DEF IInv, TypeOK, Keeps, Belongs, fails
<1>7. Reports(c, g)
  BY ContextPairs DEF IInv, TypeOK, Reports, fails, set_last_error, Frame
<1>8. Hands(c, g)
  <2>1. f.buffer # Null => f.buffer \in results
    BY <1>1 DEF IInv, ResultsAreHeld
  <2>. QED
    BY <1>1, <1>2, <2>1, NullIsNothing DEF Hands, fails, IInv, TypeOK
<1>. QED
  BY <1>3, <1>6, <1>7, <1>8, StepInv

(* A function that goes on, or returns, with its machine as it was or      *)
(* changed, keeps the invariant.                                           *)
LEMMA WorksInv ==
  ASSUME IInv, NEW c \in Contexts, Top(c),
         frames[c].fn \in {"add_program", "set", "process_transaction"},
         frames[c].at \in {"called", "chain"}, frames[c].ptr # Null,
         NEW at \in {"chain", "write", "returned"}, moves(c, at),
         at # "returned" => frames[c].fn = "process_transaction",
         \/ UNCHANGED boxes
         \/ at # "chain" /\ changes(frames[c].ptr),
         LAST_ERROR' = LAST_ERROR \/ succeeds(c),
         UNCHANGED <<results, objects>>
  PROVE  IInv'
<1>0. frames[c] # Idle
  BY IdleFields
<1>1. PICK f \in Frame, o \in Objects, ob \in Object :
        f = frames[c] /\ o = f.obj /\ ob = objects[o]
  BY <1>0, FrameFacts
<1> DEFINE g == [f EXCEPT !.at = at]
<1>2. CallFrame(f, ob, c[2]) /\ ~ob.freed /\ GoodObject(ob)
  BY <1>0, <1>1, FrameFacts DEF GoodFrame, NewFrame, FreeFrame
<1>3. /\ f.code = QUASAR_OK /\ f.cause = Null /\ f.buffer = Null
      /\ f.ptr \in Addresses /\ f.ptr = ob.ptr
  BY <1>1, <1>2 DEF CallFrame, Frame
<1>4. /\ g \in Frame /\ g.at = at /\ g.fn = f.fn /\ g.obj = o /\ g.code = f.code /\ g.ptr = f.ptr
      /\ g.cause = Null /\ g.buffer = Null /\ g.before = f.before
  BY <1>1, <1>3 DEF Frame
<1>5. Moves(c, o, g, ob)
  <2>1. frames' = [frames EXCEPT ![c] = g] /\ objects' = [objects EXCEPT ![o] = ob]
    BY <1>1 DEF IInv, TypeOK, moves
  <2>2. CallFrame(g, ob, c[2])
    BY <1>1, <1>2, <1>3, <1>4 DEF CallFrame, QUASAR_OK
  <2>. QED
    BY <1>0, <1>1, <1>2, <1>4, <2>1, <2>2 DEF Moves, GoodFrame
<1>6. \A a \in Addresses : Belongs(a, o) <=> a = f.ptr
  <2>1. \A a \in Addresses : Belongs(a, o) <=> Holds(f, ob, a)
    BY <1>0, <1>1, FrameFacts
  <2>. QED
    BY <2>1, <1>1, <1>2, <1>3 DEF Holds
<1>7. \A a \in Addresses : Holds(g, ob, a) <=> a = f.ptr
  BY <1>1, <1>2, <1>3, <1>4 DEF Holds
<1>8. Keeps(o, g, ob)
  <2>1. CASE UNCHANGED boxes
    <3>1. MustBeSame(g) => boxes[g.ptr] = g.before
      <4>1. MustBeSame(f)
        BY <1>1 DEF MustBeSame
      <4>. QED
        BY <4>1, <1>0, <1>1, <1>4, FrameFacts
    <3>. QED
      BY <3>1, <2>1, <1>6, <1>7 DEF Keeps, Belongs, IInv, TypeOK
  <2>2. CASE at # "chain" /\ changes(f.ptr)
    <3>1. boxes[f.ptr] \in Machine /\ boxes[f.ptr].owner = o
      BY <1>3, <1>6 DEF Belongs, IInv, TypeOK
    <3>2. PICK v \in Versions : boxes' = [boxes EXCEPT ![f.ptr].version = v]
      BY <2>2, <1>1 DEF changes
    <3>3. boxes'[f.ptr] \in Machine /\ boxes'[f.ptr].owner = o
      BY <3>1, <3>2, <1>3 DEF Machine, IInv, TypeOK
    <3>4. boxes' \in [Addresses -> Machine \cup {Null}]
          /\ \A a \in Addresses \ {f.ptr} : boxes'[a] = boxes[a]
      BY <3>1, <3>2, <3>3, <1>3 DEF Machine, IInv, TypeOK
    <3>5. \A a \in Addresses : Belongs(a, o)' <=> a = f.ptr
      BY <3>3, <3>4, <1>3, <1>6, NullIsNothing DEF Belongs
    <3>6. ~MustBeSame(g)
      BY <2>2, <1>1, <1>3, <1>4 DEF MustBeSame
    <3>7. \A a \in Addresses : boxes'[a] # boxes[a] =>
            /\ boxes[a] = Null \/ boxes[a].owner = o
            /\ boxes'[a] = Null \/ boxes'[a].owner = o
      BY <3>1, <3>3, <3>4
    <3>8. \A a \in Addresses : Belongs(a, o)' <=> Holds(g, ob, a)
      BY <3>5, <1>7
    <3>. QED
      BY <3>4, <3>6, <3>7, <3>8 DEF Keeps
  <2>. QED
    BY <2>1, <2>2, <1>1
<1>9. Reports(c, g)
  BY <1>2, <1>4 DEF Reports, succeeds, clear_last_error, CallFrame
<1>10. Hands(c, g)
  BY <1>1, <1>3, <1>4, NullIsNothing DEF Hands, IInv, TypeOK
<1>. QED
  BY <1>1, <1>5, <1>8, <1>9, <1>10, StepInv

(* A call that fails keeps the invariant. *)
LEMMA CallFails ==
  ASSUME IInv, NEW c \in Contexts, Top(c),
         frames[c].fn \in {"add_program", "set", "process_transaction"},
         frames[c].at \in {"called", "chain"},
         NEW code \in {-1, -3, -4, -99}, NEW message \in Errors, fails(c, code, message)
  PROVE  IInv'
<1>0. frames[c] # Idle
  BY IdleFields
<1>1. PICK f \in Frame, o \in Objects, ob \in Object :
        f = frames[c] /\ o = f.obj /\ ob = objects[o]
  BY <1>0, FrameFacts
<1> DEFINE g == [f EXCEPT !.at = "returned", !.code = code, !.cause = message]
<1>2. CallFrame(f, ob, c[2]) /\ ~ob.freed
  BY <1>0, <1>1, FrameFacts DEF GoodFrame, NewFrame, FreeFrame
<1>3. /\ g.at = "returned" /\ g.fn = f.fn /\ g.code = code /\ g.ptr = f.ptr
      /\ g.cause = message /\ g.buffer = f.buffer
  BY DEF Frame
<1>4. f.buffer = Null /\ message # Null /\ code # QUASAR_OK
  BY <1>1, <1>2, NullIsNothing DEF CallFrame, QUASAR_OK
<1>5. CallFrame(g, ob, c[2])
  BY <1>1, <1>2, <1>3, <1>4 DEF CallFrame
<1>6. GoodFrame([frames[c] EXCEPT !.at = "returned", !.code = code, !.cause = message],
                objects[frames[c].obj], c[2])
  BY <1>1, <1>2, <1>5 DEF GoodFrame
<1>7. c[2] = "method" /\ (frames[c].ptr # Null => MustBeSame(frames[c]))
  BY <1>1, <1>2 DEF CallFrame, MustBeSame
<1>8. code \in {0, -1, -3, -4, -99} /\ frames[c].fn # "svm_free"
  OBVIOUS
<1>. QED
  BY <1>0, <1>6, <1>7, <1>8, FailsInv

(* A machine is made: its constructor's object is the one that holds it. *)
LEMMA NewInv ==
  ASSUME IInv, NEW c \in Contexts, quasar_svm_new(c)
  PROVE  IInv'
<1>0. frames[c] # Idle
  BY IdleFields DEF quasar_svm_new, At
<1>1. PICK f \in Frame, o \in Objects, ob \in Object :
        f = frames[c] /\ o = f.obj /\ ob = objects[o]
  BY <1>0, FrameFacts
<1>2. NewFrame(f, ob, c[2]) /\ ~ob.freed /\ GoodObject(ob) /\ f.at = "called" /\ f.fn = "svm_new"
  BY <1>0, <1>1, FrameFacts DEF GoodFrame, FreeFrame, CallFrame, quasar_svm_new, At
<1>3. f.ptr = Null /\ f.cause = Null /\ f.buffer = Null /\ ob.ptr = Null /\ c[2] = "method"
  BY <1>2 DEF NewFrame
<1>4. CASE panics(c, QUASAR_OK, "Panic during SVM creation")
  <2>1. CASE abort
    BY <2>1, AbortInv
  <2>2. CASE fails(c, QUASAR_OK, "Panic during SVM creation")
    <3> DEFINE m == "Panic during SVM creation"
               g == [f EXCEPT !.at = "returned", !.code = QUASAR_OK, !.cause = m]
    <3>1. m \in Errors /\ m # Null
      BY NullIsNothing DEF Errors
    <3>2. /\ g.at = "returned" /\ g.fn = f.fn /\ g.code = QUASAR_OK /\ g.ptr = f.ptr
          /\ g.cause = m /\ g.buffer = f.buffer
      BY DEF Frame
    <3> HIDE DEF m
    <3>3. NewFrame(g, ob, c[2])
      BY <1>2, <1>3, <3>1, <3>2 DEF NewFrame
    <3>4. GoodFrame(g, ob, c[2])
      BY <1>2, <3>3 DEF GoodFrame
    <3>5. frames[c].fn # "svm_free" /\ ~(frames[c].ptr # Null) /\ Top(c)
      BY <1>1, <1>2, <1>3 DEF quasar_svm_new, At
    <3>6. QUASAR_OK \in {0, -1, -3, -4, -99} /\ fails(c, QUASAR_OK, m)
      BY <2>2 DEF QUASAR_OK, m
    <3>. QED
      BY <1>0, <1>1, <1>3, <3>1, <3>4, <3>5, <3>6, FailsInv
  <2>. QED
    BY <1>4, <2>1, <2>2 DEF panics
<1>5. ASSUME NEW a \in Addresses, NEW v \in Versions, succeeds(c), boxes[a] = Null,
             boxes' = [boxes EXCEPT ![a] = [owner |-> frames[c].obj, version |-> v]],
             frames' = [frames EXCEPT ![c].at = "returned", ![c].ptr = a],
             UNCHANGED <<results, objects>>, Top(c)
      PROVE  IInv'
  <2> DEFINE g == [f EXCEPT !.at = "returned", !.ptr = a]
  <2>1. g \in Frame
    <3>1. \A x \in Frame : [x EXCEPT !.at = "returned"] \in Frame
      BY DEF Frame
    <3>2. \A x \in Frame : [x EXCEPT !.ptr = a] \in Frame
      BY DEF Frame
    <3>3. g = [[f EXCEPT !.at = "returned"] EXCEPT !.ptr = a]
      OBVIOUS
    <3>. QED
      BY ONLY <3>1, <3>2, <3>3, f \in Frame
  <2>2. /\ g.at = "returned" /\ g.fn = "svm_new" /\ g.obj = o /\ g.code = f.code /\ g.ptr = a
        /\ g.cause = Null /\ g.buffer = Null
    BY <1>1, <1>2, <1>3 DEF Frame
  <2>3. a # Null
    BY NullIsNothing
  <2>4. Moves(c, o, g, ob)
    <3>1. frames' = [frames EXCEPT ![c] = g] /\ objects' = [objects EXCEPT ![o] = ob]
      BY <1>1, <1>5 DEF IInv, TypeOK
    <3>2. NewFrame(g, ob, c[2])
      BY <1>2, <1>3, <2>2, <2>3 DEF NewFrame
    <3>. QED
      BY <1>0, <1>1, <1>2, <2>1, <2>2, <3>1, <3>2 DEF Moves, GoodFrame
  <2>5. \A x \in Addresses : ~Belongs(x, o)
    <3>1. \A x \in Addresses : Belongs(x, o) <=> Holds(f, ob, x)
      BY <1>0, <1>1, FrameFacts
    <3>. QED
      BY <3>1, <1>3, NullIsNothing DEF Holds
  <2>6. Keeps(o, g, ob)
    <3>1. [owner |-> o, version |-> v] \in Machine
      BY DEF Machine
    <3>2. boxes'[a] \in Machine /\ boxes'[a].owner = o
      BY <3>1, <1>1, <1>5 DEF IInv, TypeOK
    <3>3. boxes' \in [Addresses -> Machine \cup {Null}]
          /\ \A x \in Addresses \ {a} : boxes'[x] = boxes[x]
      BY <3>1, <1>1, <1>5 DEF IInv, TypeOK
    <3>4. \A x \in Addresses : Belongs(x, o)' <=> x = a
      BY <3>2, <3>3, <2>5, NullIsNothing DEF Belongs
    <3>5. \A x \in Addresses : Holds(g, ob, x) <=> x = a
      BY <1>3, <2>2, NullIsNothing DEF Holds
    <3>6. \A x \in Addresses : boxes'[x] # boxes[x] =>
            /\ boxes[x] = Null \/ boxes[x].owner = o
            /\ boxes'[x] = Null \/ boxes'[x].owner = o
      BY <3>2, <3>3, <1>5
    <3>7. \A x \in Addresses : Belongs(x, o)' <=> Holds(g, ob, x)
      BY <3>4, <3>5
    <3>8. ~MustBeSame(g)
      BY <2>2 DEF MustBeSame
    <3>. QED
      BY <3>3, <3>6, <3>7, <3>8 DEF Keeps
  <2>7. Reports(c, g)
    BY <1>3, <1>5, <2>2 DEF Reports, succeeds, clear_last_error
  <2>8. Hands(c, g)
    BY <1>1, <1>3, <1>5, <2>2, NullIsNothing DEF Hands, IInv, TypeOK
  <2>. QED
    BY <1>1, <2>4, <2>6, <2>7, <2>8, StepInv
<1>. QED
  BY <1>4, <1>5 DEF quasar_svm_new, At

(* A machine is freed: nobody holds it any more. *)
LEMMA FreeInv ==
  ASSUME IInv, NEW c \in Contexts, quasar_svm_free(c)
  PROVE  IInv'
<1>0. frames[c] # Idle
  BY IdleFields DEF quasar_svm_free, At
<1>1. PICK f \in Frame, o \in Objects, ob \in Object :
        f = frames[c] /\ o = f.obj /\ ob = objects[o]
  BY <1>0, FrameFacts
<1> DEFINE g == [f EXCEPT !.at = "returned"]
<1>2. FreeFrame(f, ob, c[2]) /\ ~ob.freed /\ GoodObject(ob) /\ f.at = "called" /\ f.fn = "svm_free"
  BY <1>0, <1>1, FrameFacts DEF GoodFrame, NewFrame, CallFrame, quasar_svm_free, At
<1>3. f.ptr = ob.ptr /\ f.ptr \in Addresses /\ f.cause = Null /\ f.buffer = Null
  BY <1>2 DEF FreeFrame, GoodObject, Object
<1>4. /\ g \in Frame /\ g.at = "returned" /\ g.fn = "svm_free" /\ g.obj = o /\ g.code = f.code
      /\ g.ptr = f.ptr /\ g.cause = Null /\ g.buffer = Null
  BY <1>1, <1>2, <1>3 DEF Frame
<1>5. Moves(c, o, g, ob)
  <2>1. frames' = [frames EXCEPT ![c] = g] /\ objects' = [objects EXCEPT ![o] = ob]
    BY <1>1 DEF IInv, TypeOK, quasar_svm_free, returns, moves
  <2>2. FreeFrame(g, ob, c[2])
    BY <1>2, <1>3, <1>4 DEF FreeFrame
  <2>. QED
    BY <1>0, <1>1, <1>2, <1>4, <2>1, <2>2 DEF Moves, GoodFrame
<1>6. \A a \in Addresses : Belongs(a, o) <=> a = f.ptr
  <2>1. \A a \in Addresses : Belongs(a, o) <=> Holds(f, ob, a)
    BY <1>0, <1>1, FrameFacts
  <2>. QED
    BY <2>1, <1>2, <1>3 DEF Holds
<1>7. Keeps(o, g, ob)
  <2>1. boxes' = [boxes EXCEPT ![f.ptr] = Null]
    BY <1>1 DEF quasar_svm_free
  <2>2. boxes' \in [Addresses -> Machine \cup {Null}] /\ boxes'[f.ptr] = Null
        /\ \A a \in Addresses \ {f.ptr} : boxes'[a] = boxes[a]
    BY <2>1, <1>3 DEF IInv, TypeOK
  <2>3. boxes[f.ptr].owner = o
    BY <1>3, <1>6 DEF Belongs
  <2>4. \A a \in Addresses : ~Belongs(a, o)'
    BY <2>2, <1>6 DEF Belongs
  <2>5. \A a \in Addresses : ~Holds(g, ob, a)
    BY <1>4 DEF Holds
  <2>6. \A a \in Addresses : boxes'[a] # boxes[a] =>
          /\ boxes[a] = Null \/ boxes[a].owner = o
          /\ boxes'[a] = Null \/ boxes'[a].owner = o
    BY <2>2, <2>3
  <2>7. \A a \in Addresses : Belongs(a, o)' <=> Holds(g, ob, a)
    BY <2>4, <2>5
  <2>8. ~MustBeSame(g)
    BY <1>4 DEF MustBeSame
  <2>. QED
    BY <2>2, <2>6, <2>7, <2>8 DEF Keeps
<1>8. Reports(c, g)
  BY <1>4 DEF Reports, quasar_svm_free
<1>9. Hands(c, g)
  BY <1>1, <1>3, <1>4, NullIsNothing DEF Hands, IInv, TypeOK, quasar_svm_free
<1>. QED
  BY <1>1, <1>5, <1>7, <1>8, <1>9, StepInv

(* An execution gets the buffer its result is in. *)
LEMMA WriteInv ==
  ASSUME IInv, NEW c \in Contexts, write_result_out(c)
  PROVE  IInv'
<1>0. frames[c] # Idle
  BY IdleFields DEF write_result_out, At
<1>1. PICK f \in Frame, o \in Objects, ob \in Object :
        f = frames[c] /\ o = f.obj /\ ob = objects[o]
  BY <1>0, FrameFacts
<1>2. PICK b \in Buffers \ results :
        results' = results \cup {b}
        /\ frames' = [frames EXCEPT ![c].at = "returned", ![c].buffer = b]
  BY DEF write_result_out
<1> DEFINE g == [f EXCEPT !.at = "returned", !.buffer = b]
<1>3. CallFrame(f, ob, c[2]) /\ ~ob.freed /\ GoodObject(ob)
      /\ f.at = "write" /\ f.fn = "process_transaction"
  BY <1>0, <1>1, FrameFacts DEF GoodFrame, NewFrame, FreeFrame, write_result_out, At
<1>4. f.code = QUASAR_OK /\ f.cause = Null /\ f.buffer = Null
  BY <1>3 DEF CallFrame
<1>5. g \in Frame
  <2>1. \A x \in Frame : [x EXCEPT !.at = "returned"] \in Frame
    BY DEF Frame
  <2>2. \A x \in Frame : [x EXCEPT !.buffer = b] \in Frame
    BY DEF Frame
  <2>3. g = [[f EXCEPT !.at = "returned"] EXCEPT !.buffer = b]
    OBVIOUS
  <2>. QED
    BY ONLY <2>1, <2>2, <2>3, f \in Frame
<1>6. /\ g.at = "returned" /\ g.fn = f.fn /\ g.obj = o /\ g.code = f.code /\ g.ptr = f.ptr
      /\ g.cause = Null /\ g.buffer = b
  BY <1>1, <1>4 DEF Frame
<1>7. Moves(c, o, g, ob)
  <2>1. frames' = [frames EXCEPT ![c] = g] /\ objects' = [objects EXCEPT ![o] = ob]
    BY <1>1, <1>2 DEF IInv, TypeOK, write_result_out
  <2>2. CallFrame(g, ob, c[2])
    BY <1>3, <1>4, <1>6 DEF CallFrame, QUASAR_OK
  <2>. QED
    BY <1>0, <1>1, <1>3, <1>5, <1>6, <2>1, <2>2 DEF Moves, GoodFrame
<1>8. Keeps(o, g, ob)
  <2>1. \A a \in Addresses : Belongs(a, o) <=> Holds(f, ob, a)
    BY <1>0, <1>1, FrameFacts
  <2>2. \A a \in Addresses : Holds(f, ob, a) <=> Holds(g, ob, a)
    BY <1>3, <1>6 DEF Holds
  <2>3. ~MustBeSame(g)
    BY <1>4, <1>6 DEF MustBeSame
  <2>. QED
    BY <2>1, <2>2, <2>3 DEF Keeps, Belongs, IInv, TypeOK, write_result_out
<1>9. Reports(c, g)
  BY <1>6 DEF Reports, write_result_out
<1>10. Hands(c, g)
  BY <1>1, <1>2, <1>4, <1>6, NullIsNothing DEF Hands, IInv, TypeOK
<1>. QED
  BY <1>1, <1>7, <1>8, <1>9, <1>10, StepInv

(* The library keeps the invariant. *)
LEMMA LibraryInv ==
  ASSUME IInv, NEW c \in Contexts, Library(c)
  PROVE  IInv'
<1> DEFINE functions == {"add_program", "set", "process_transaction"}
<1>1. CASE quasar_svm_new(c)
  BY <1>1, NewInv
<1>2. CASE quasar_svm_free(c)
  BY <1>2, FreeInv
<1>3. CASE null_pointer(c)
  <2>1. frames[c].fn \in functions /\ frames[c].at = "called" /\ Top(c)
    BY <1>3 DEF null_pointer, At
  <2>2. fails(c, -1, "Null pointer argument") /\ "Null pointer argument" \in Errors
    BY <1>3 DEF null_pointer, QUASAR_ERR_NULL_POINTER, Errors
  <2>. QED
    BY <2>1, <2>2, CallFails
<1>4. CASE quasar_svm_add_program(c)
  <2>1. /\ frames[c].fn \in functions /\ frames[c].at = "called" /\ Top(c)
        /\ frames[c].ptr # Null
    BY <1>4 DEF quasar_svm_add_program, At
  <2>2. CASE fails(c, -3, "Panic while loading program")
    <3>1. "Panic while loading program" \in Errors
      BY DEF Errors
    <3>. QED
      BY <2>1, <2>2, <3>1, CallFails
  <2>3. CASE abort
    BY <2>3, AbortInv
  <2>4. CASE succeeds(c) /\ changes(frames[c].ptr) /\ returns(c) /\ UNCHANGED <<results, objects>>
    BY <2>1, <2>4, WorksInv DEF returns
  <2>. QED
    BY <1>4, <2>2, <2>3, <2>4 DEF quasar_svm_add_program, panics, QUASAR_ERR_PROGRAM_LOAD
<1>5. CASE quasar_svm_set(c)
  <2>1. /\ frames[c].fn \in functions /\ frames[c].at = "called" /\ Top(c)
        /\ frames[c].ptr # Null
    BY <1>5 DEF quasar_svm_set, At
  <2>2. succeeds(c) /\ changes(frames[c].ptr) /\ moves(c, "returned") /\ UNCHANGED <<results, objects>>
    BY <1>5 DEF quasar_svm_set, returns
  <2>. QED
    BY <2>1, <2>2, WorksInv
<1>6. CASE quasar_svm_process_transaction(c)
  <2>1. /\ frames[c].fn = "process_transaction" /\ frames[c].at = "called" /\ Top(c)
        /\ frames[c].ptr # Null
    BY <1>6 DEF quasar_svm_process_transaction, At
  <2>2. CASE fails(c, -4, "Invalid data")
    <3>1. "Invalid data" \in Errors
      BY DEF Errors
    <3>. QED
      BY <2>1, <2>2, <3>1, CallFails
  <2>3. CASE succeeds(c) /\ moves(c, "chain") /\ UNCHANGED <<boxes, results, objects>>
    BY <2>1, <2>3, WorksInv
  <2>. QED
    BY <1>6, <2>2, <2>3 DEF quasar_svm_process_transaction, QUASAR_ERR_EXECUTION
<1>7. CASE process_instruction_chain(c)
  <2>1. /\ frames[c].fn = "process_transaction" /\ frames[c].at = "chain" /\ Top(c)
        /\ frames[c] # Idle
    BY <1>7, IdleFields DEF process_instruction_chain, At
  <2>2. CASE fails(c, -99, "Panic during transaction execution")
    <3>1. "Panic during transaction execution" \in Errors
      BY DEF Errors
    <3>. QED
      BY <2>1, <2>2, <3>1, CallFails
  <2>3. CASE abort
    BY <2>3, AbortInv
  <2>4. CASE /\ changes(frames[c].ptr) \/ UNCHANGED boxes
             /\ moves(c, "write")
             /\ UNCHANGED <<results, LAST_ERROR, objects>>
    <3>1. frames[c].ptr # Null
      BY <2>1, FrameFacts DEF GoodFrame, NewFrame, FreeFrame, CallFrame
    <3>. QED
      BY <2>1, <2>4, <3>1, WorksInv
  <2>. QED
    BY <1>7, <2>2, <2>3, <2>4 DEF process_instruction_chain, panics, QUASAR_ERR_INTERNAL
<1>8. CASE write_result_out(c)
  BY <1>8, WriteInv
<1>. QED
  BY <1>1, <1>2, <1>3, <1>4, <1>5, <1>6, <1>7, <1>8 DEF Library

-----------------------------------------------------------------------------
(* What a client has for a pointer is what its object holds. *)
LEMMA HeldPointer ==
  ASSUME IInv, NEW c \in Contexts, frames[c] # Idle, frames[c].fn # "svm_free",
         NEW f, f = frames[c], NEW ob, ob = objects[f.obj], NEW p, p = pointer(c)
  PROVE  /\ p \in Addresses \cup {Null}
         /\ \A a \in Addresses : Holds(f, ob, a) <=> a = p
         /\ c[2] = "method" /\ ob.stage \in {"constructing", "live"} /\ ~ob.freed
         /\ p = Null => ob.stage = "constructing"
<1>1. f \in Frame /\ f.obj \in Objects /\ ob \in Object /\ ~ob.freed
  BY FrameFacts DEF GoodFrame
<1>2. CASE NewFrame(f, ob, c[2])
  <2>1. p = f.ptr /\ f.ptr \in Addresses \cup {Null}
    BY <1>1, <1>2 DEF NewFrame, pointer, Frame
  <2>. QED
    BY <1>1, <1>2, <2>1, NullIsNothing DEF NewFrame, Holds
<1>3. CASE CallFrame(f, ob, c[2])
  <2>1. p = ob.ptr /\ ob.ptr \in Addresses \cup {Null} /\ p # Null
    BY <1>1, <1>3 DEF CallFrame, pointer, Object
  <2>. QED
    BY <1>1, <1>3, <2>1, NullIsNothing DEF CallFrame, Holds
<1>. QED
  BY <1>2, <1>3, FrameFacts DEF GoodFrame, FreeFrame

(* An exception leaves the object with what it holds. *)
LEMMA RaiseInv ==
  ASSUME IInv, NEW c \in Contexts, frames[c] # Idle, frames[c].fn # "svm_free",
         frames[c].buffer = Null, raise(c)
  PROVE  IInv'
<1>1. PICK f \in Frame, o \in Objects, ob \in Object :
        f = frames[c] /\ o = f.obj /\ ob = objects[o]
  BY FrameFacts
<1>2. PICK p : p = pointer(c)
  OBVIOUS
<1>3. /\ p \in Addresses \cup {Null}
      /\ \A a \in Addresses : Holds(f, ob, a) <=> a = p
      /\ ob.stage \in {"constructing", "live"} /\ ~ob.freed
      /\ p = Null => ob.stage = "constructing"
  BY <1>1, <1>2, HeldPointer
<1> DEFINE gone == [ob EXCEPT !.ptr = p, !.stage = "garbage"]
           ob2 == IF ob.stage # "constructing" THEN ob ELSE IF p = Null THEN Unborn ELSE gone
<1>4. gone \in Object /\ gone.ptr = p /\ gone.stage = "garbage" /\ gone.freed = ob.freed
  BY <1>3 DEF Object
<1>5. gone = [ob EXCEPT !.stage = "garbage", !.ptr = p]
  BY DEF Object
<1>6. objects' = [objects EXCEPT ![o] = ob2]
  BY <1>1, <1>2, <1>5 DEF raise, abandoned
<1> HIDE DEF gone
<1>7. ob2 \in Object /\ GoodObject(ob2)
  <2>1. GoodObject(ob) /\ GoodObject(Unborn)
    BY <1>1, FrameFacts DEF GoodObject, Unborn
  <2>2. p # Null => GoodObject(gone)
    BY <1>3, <1>4 DEF GoodObject
  <2>. QED
    BY <1>4, <2>1, <2>2, IdleFields
<1>8. \A a \in Addresses : Holds(Idle, ob2, a) <=> a = p
  <2>1. CASE ob.stage # "constructing"
    <3>1. frames[c].fn # "svm_new" /\ p = ob.ptr
      BY <2>1, <1>1, <1>2, FrameFacts DEF GoodFrame, NewFrame, FreeFrame, CallFrame, pointer
    <3>. QED
      BY <2>1, <3>1, <1>3, IdleFields DEF Holds
  <2>2. CASE ob.stage = "constructing" /\ p = Null
    BY <2>2, IdleFields, NullIsNothing DEF Holds, Unborn
  <2>3. CASE ob.stage = "constructing" /\ p # Null
    BY <2>3, <1>3, <1>4, IdleFields DEF Holds
  <2>. QED
    BY <2>1, <2>2, <2>3
<1> HIDE DEF ob2
<1>9. Moves(c, o, Idle, ob2)
  BY <1>1, <1>6, <1>7, IdleFields DEF Moves, raise
<1>10. \A a \in Addresses : Holds(frames[c], objects[o], a) <=> Holds(Idle, ob2, a)
  BY <1>1, <1>3, <1>8
<1>. QED
  BY <1>1, <1>9, <1>10, IdleFields, QuietInv DEF raise, MustBeSame

(* The frame that enters a function, and what it is about. *)
Entered(fn, o, p, program, todo, before) ==
  [Idle EXCEPT !.fn = fn, !.at = "called", !.obj = o, !.ptr = p,
               !.program = program, !.todo = todo, !.before = before]

(* A constructor that goes on, or a method that is over, leaves the object *)
(* with what it holds.                                                     *)
LEMMA ProceedInv ==
  ASSUME IInv, NEW c \in Contexts, frames[c] # Idle, frames[c].fn # "svm_free",
         frames[c].buffer = Null, pointer(c) # Null, proceed(c)
  PROVE  IInv'
<1>1. PICK f \in Frame, o \in Objects, ob \in Object :
        f = frames[c] /\ o = f.obj /\ ob = objects[o]
  BY FrameFacts
<1>2. PICK p : p = pointer(c)
  OBVIOUS
<1>3. /\ p \in Addresses
      /\ \A a \in Addresses : Holds(f, ob, a) <=> a = p
      /\ ob.stage \in {"constructing", "live"} /\ ~ob.freed /\ c[2] = "method"
  BY <1>1, <1>2, HeldPointer
<1>4. CASE raise(c)
  BY <1>4, RaiseInv
<1>5. CASE f.todo = {} /\ frames' = [frames EXCEPT ![c] = Idle]
           /\ objects' = [objects EXCEPT ![o].ptr = p, ![o].stage = IF f.todo = {} THEN "live" ELSE @]
           /\ UNCHANGED <<boxes, results, LAST_ERROR>>
  <2> DEFINE ob2 == [ob EXCEPT !.ptr = p, !.stage = "live"]
  <2>1. ob2 \in Object /\ ob2.ptr = p /\ ob2.stage = "live" /\ ~ob2.freed
    BY <1>3 DEF Object
  <2>2. objects' = [objects EXCEPT ![o] = ob2]
    BY <1>1, <1>5 DEF IInv, TypeOK
  <2> HIDE DEF ob2
  <2>3. GoodObject(ob2)
    BY <1>3, <2>1, NullIsNothing DEF GoodObject
  <2>4. Moves(c, o, Idle, ob2)
    BY <1>1, <1>5, <2>1, <2>2, <2>3, IdleFields DEF Moves
  <2>5. \A a \in Addresses : Holds(frames[c], objects[o], a) <=> Holds(Idle, ob2, a)
    BY <1>1, <1>3, <2>1, IdleFields DEF Holds
  <2>. QED
    BY <1>1, <1>5, <2>4, <2>5, IdleFields, QuietInv DEF MustBeSame
<1>6. ASSUME NEW program \in f.todo,
             enter(c, "add_program", o, p, program, f.todo \ {program}),
             objects' = [objects EXCEPT ![o].ptr = p, ![o].stage = IF f.todo = {} THEN "live" ELSE @],
             UNCHANGED <<boxes, results, LAST_ERROR>>
      PROVE  IInv'
  <2> DEFINE ob2 == [ob EXCEPT !.ptr = p, !.stage = ob.stage]
  <2>1. ob2 \in Object /\ ob2.ptr = p /\ ob2.stage = ob.stage /\ ~ob2.freed
    BY <1>3 DEF Object
  <2>2. objects' = [objects EXCEPT ![o] = ob2]
    BY <1>1, <1>6 DEF IInv, TypeOK
  <2> HIDE DEF ob2
  <2>3. PICK before \in Machine \cup {Null} :
          /\ frames' = [frames EXCEPT ![c] = Entered("add_program", o, p, program, f.todo \ {program}, before)]
          /\ p # Null => before = boxes[p]
    <3> DEFINE before == IF p = Null THEN Null ELSE boxes[p]
    <3>1. before \in Machine \cup {Null}
      BY <1>3 DEF IInv, TypeOK
    <3>2. frames' = [frames EXCEPT ![c] = Entered("add_program", o, p, program, f.todo \ {program}, before)]
      BY <1>6 DEF enter, Entered
    <3>. QED
      BY <3>1, <3>2
  <2>4. PICK g : g = Entered("add_program", o, p, program, f.todo \ {program}, before)
    OBVIOUS
  <2>5. /\ g \in Frame /\ g # Idle
        /\ g.fn = "add_program" /\ g.at = "called" /\ g.obj = o /\ g.ptr = p /\ g.code = QUASAR_OK
        /\ g.buffer = Null /\ g.cause = Null /\ g.before = before
    <3>1. program \in Bundled /\ f.todo \ {program} \in SUBSET Bundled
      BY DEF Frame
    <3>2. g = [fn |-> "add_program", at |-> "called", obj |-> o, ptr |-> p, program |-> program,
               todo |-> f.todo \ {program}, code |-> QUASAR_OK, buffer |-> Null, cause |-> Null,
               before |-> before]
      BY <2>4 DEF Entered, Idle
    <3>3. g \in Frame
      BY <1>3, <3>1, <3>2 DEF Frame, QUASAR_OK
    <3>. QED
      BY <3>2, <3>3, IdleFields
  <2>6. GoodObject(ob2) /\ p # Null
    BY <1>3, <2>1, NullIsNothing DEF GoodObject
  <2>7. CallFrame(g, ob2, c[2])
    BY <1>3, <2>1, <2>5, <2>6 DEF CallFrame
  <2>8. Moves(c, o, g, ob2)
    BY <1>1, <2>1, <2>2, <2>3, <2>4, <2>5, <2>6, <2>7 DEF Moves, GoodFrame
  <2>9. \A a \in Addresses : Holds(frames[c], objects[o], a) <=> Holds(g, ob2, a)
    BY <1>1, <1>3, <2>1, <2>5 DEF Holds
  <2>. QED
    BY <1>1, <1>6, <2>3, <2>5, <2>6, <2>8, <2>9, QuietInv
<1>. QED
  BY <1>1, <1>2, <1>4, <1>5, <1>6 DEF proceed

(* An object whose machine was freed is done with. *)
LEMMA FreedInv ==
  ASSUME IInv, NEW c \in Contexts, svm_free_returned(c)
  PROVE  IInv'
<1>0. frames[c] # Idle
  BY IdleFields DEF svm_free_returned, At
<1>1. PICK f \in Frame, o \in Objects, ob \in Object :
        f = frames[c] /\ o = f.obj /\ ob = objects[o]
  BY <1>0, FrameFacts
<1>2. FreeFrame(f, ob, c[2]) /\ ~ob.freed /\ GoodObject(ob)
      /\ f.fn = "svm_free" /\ f.at = "returned"
  BY <1>0, <1>1, FrameFacts DEF GoodFrame, NewFrame, CallFrame, svm_free_returned, At
<1> DEFINE done == [ob EXCEPT !.freed = TRUE]
           ob2 == IF ob.stage = "finalizing" THEN Unborn ELSE done
<1>3. done \in Object /\ done.ptr = ob.ptr /\ done.stage = ob.stage /\ done.freed
  BY DEF Object
<1>4. objects' = [objects EXCEPT ![o] = ob2]
  BY <1>1 DEF svm_free_returned, freed
<1>5. ob2 \in Object /\ GoodObject(ob2)
  <2>1. ob.stage # "finalizing" => ob.stage = "live"
    BY <1>2 DEF FreeFrame
  <2>2. GoodObject(Unborn)
    BY DEF GoodObject, Unborn
  <2>3. ob.stage = "live" => GoodObject(done)
    BY <1>2, <1>3 DEF GoodObject
  <2>. QED
    BY <1>3, <2>1, <2>2, <2>3, IdleFields
<1>6. \A a \in Addresses : ~Holds(Idle, ob2, a)
  BY <1>3, IdleFields, NullIsNothing DEF Holds, Unborn
<1> HIDE DEF ob2, done
<1>7. Moves(c, o, Idle, ob2)
  BY <1>0, <1>1, <1>4, <1>5, IdleFields DEF Moves, svm_free_returned
<1>8. \A a \in Addresses : ~Holds(frames[c], objects[o], a)
  BY <1>1, <1>2 DEF Holds
<1>9. frames[c].buffer = Null
  BY <1>1, <1>2 DEF FreeFrame
<1>. QED
  BY <1>1, <1>6, <1>7, <1>8, <1>9, IdleFields, QuietInv DEF svm_free_returned, MustBeSame

(* The client reads the result of an execution. *)
LEMMA CopyInv ==
  ASSUME IInv, NEW c \in Contexts, execute_returned(c)
  PROVE  IInv'
<1>0. frames[c] # Idle
  BY IdleFields DEF execute_returned, At
<1>1. PICK f \in Frame, o \in Objects, ob \in Object :
        f = frames[c] /\ o = f.obj /\ ob = objects[o]
  BY <1>0, FrameFacts
<1>2. CallFrame(f, ob, c[2]) /\ ~ob.freed /\ GoodObject(ob)
      /\ f.fn = "process_transaction" /\ f.at = "returned"
  BY <1>0, <1>1, FrameFacts DEF GoodFrame, NewFrame, FreeFrame, execute_returned, At
<1>3. CASE frames[c].code # QUASAR_OK
  <2>1. frames[c].buffer = Null /\ frames[c].fn # "svm_free" /\ raise(c)
    BY <1>1, <1>2, <1>3 DEF CallFrame, execute_returned
  <2>. QED
    BY <1>0, <2>1, RaiseInv
<1>4. CASE frames[c].code = QUASAR_OK
  <2> DEFINE g == [f EXCEPT !.at = "copied"]
  <2>1. moves(c, "copied") /\ UNCHANGED <<boxes, results, LAST_ERROR, objects>>
    BY <1>4 DEF execute_returned
  <2>2. /\ g \in Frame /\ g.at = "copied" /\ g.fn = f.fn /\ g.obj = o /\ g.code = f.code
        /\ g.ptr = f.ptr /\ g.cause = f.cause /\ g.buffer = f.buffer
    BY <1>1 DEF Frame
  <2>3. frames' = [frames EXCEPT ![c] = g] /\ objects' = [objects EXCEPT ![o] = ob]
    BY <1>1, <2>1 DEF IInv, TypeOK, moves
  <2> HIDE DEF g
  <2>4. CallFrame(g, ob, c[2])
    BY <1>1, <1>2, <1>4, <2>2 DEF CallFrame
  <2>5. Moves(c, o, g, ob)
    BY <1>0, <1>1, <1>2, <2>2, <2>3, <2>4 DEF Moves, GoodFrame
  <2>6. \A a \in Addresses : Holds(frames[c], objects[o], a) <=> Holds(g, ob, a)
    BY <1>1, <1>2, <2>2 DEF Holds
  <2>7. ~MustBeSame(g)
    BY <1>1, <1>4, <2>2 DEF MustBeSame
  <2>. QED
    BY <1>1, <2>1, <2>2, <2>5, <2>6, <2>7, QuietInv
<1>. QED
  BY <1>3, <1>4

(* A result buffer is given back by the execution that holds it. *)
LEMMA GiveBackInv ==
  ASSUME IInv, NEW c \in Contexts, quasar_result_free(c)
  PROVE  IInv'
<1>0. frames[c] # Idle
  BY IdleFields DEF quasar_result_free, At
<1>1. PICK f \in Frame, o \in Objects, ob \in Object :
        f = frames[c] /\ o = f.obj /\ ob = objects[o]
  BY <1>0, FrameFacts
<1>2. f.fn = "process_transaction" /\ GoodObject(ob)
  BY <1>0, <1>1, FrameFacts DEF quasar_result_free, At
<1>3. Moves(c, o, Idle, ob)
  <2>1. frames' = [frames EXCEPT ![c] = Idle] /\ objects' = [objects EXCEPT ![o] = ob]
    BY <1>1 DEF IInv, TypeOK, quasar_result_free
  <2>. QED
    BY <1>0, <1>1, <1>2, <2>1, IdleFields DEF Moves
<1>4. Keeps(o, Idle, ob)
  <2>1. \A a \in Addresses : Belongs(a, o) <=> Holds(f, ob, a)
    BY <1>0, <1>1, FrameFacts
  <2>2. \A a \in Addresses : Holds(f, ob, a) <=> Holds(Idle, ob, a)
    BY <1>2, IdleFields DEF Holds
  <2>3. ~MustBeSame(Idle)
    BY IdleFields DEF MustBeSame
  <2>. QED
    BY <2>1, <2>2, <2>3 DEF Keeps, Belongs, IInv, TypeOK, quasar_result_free
<1>5. Reports(c, Idle)
  BY IdleFields DEF Reports, quasar_result_free
<1>6. Hands(c, Idle)
  BY IdleFields DEF Hands, quasar_result_free
<1>. QED
  BY <1>1, <1>3, <1>4, <1>5, <1>6, StepInv

(* The client's side of a call keeps the invariant. *)
LEMMA ClientInv ==
  ASSUME IInv, NEW c \in Contexts, Client(c)
  PROVE  IInv'
<1>1. CASE svm_new_returned(c)
  <2>1. frames[c] # Idle /\ frames[c].fn = "svm_new"
    BY <1>1, IdleFields DEF svm_new_returned, At
  <2>2. frames[c].buffer = Null /\ pointer(c) = frames[c].ptr
    BY <2>1, FrameFacts DEF GoodFrame, NewFrame, FreeFrame, CallFrame, pointer
  <2>. QED
    BY <1>1, <2>1, <2>2, RaiseInv, ProceedInv DEF svm_new_returned
<1>2. CASE svm_free_returned(c)
  BY <1>2, FreedInv
<1>3. CASE check(c)
  <2>1. frames[c] # Idle /\ frames[c].fn \in {"add_program", "set"}
    BY <1>3, IdleFields DEF check, At
  <2>2. CallFrame(frames[c], objects[frames[c].obj], c[2])
    BY <2>1, FrameFacts DEF GoodFrame, NewFrame, FreeFrame
  <2>3. frames[c].buffer = Null /\ pointer(c) # Null /\ frames[c].fn # "svm_free"
    BY <2>1, <2>2 DEF CallFrame, pointer
  <2>. QED
    BY <1>3, <2>1, <2>3, RaiseInv, ProceedInv DEF check
<1>4. CASE execute_returned(c)
  BY <1>4, CopyInv
<1>5. CASE quasar_result_free(c)
  BY <1>5, GiveBackInv
<1>. QED
  BY <1>1, <1>2, <1>3, <1>4, <1>5 DEF Client

-----------------------------------------------------------------------------
(* No method or finalizer is about an object that is unborn or garbage. *)
LEMMA NobodysObject ==
  ASSUME IInv, NEW o \in Objects, objects[o].stage \in {"unborn", "garbage"}
  PROVE  Unused(o)
<1> SUFFICES ASSUME NEW c \in Contexts, frames[c].obj = o PROVE FALSE
  BY DEF Unused
<1>1. frames[c] # Idle
  BY IdleFields, NullIsNothing
<1>. QED
  BY <1>1, FrameFacts DEF GoodFrame, NewFrame, FreeFrame, CallFrame

(* The functions that may be entered for an object, and with which pointer. *)
MayEnter(fn, p, ob, level) ==
  \/ /\ fn = "svm_new" /\ p = Null
     /\ level = "method" /\ ob.stage = "constructing" /\ ob.ptr = Null
  \/ /\ fn = "svm_free" /\ p = ob.ptr
     /\ ob.stage = IF level = "method" THEN "live" ELSE "finalizing"
  \/ /\ fn \in {"add_program", "set", "process_transaction"} /\ p \in {ob.ptr, Null}
     /\ level = "method" /\ ob.stage = "live"

(* An idle thread that enters a function keeps the invariant. *)
LEMMA EnterInv ==
  ASSUME IInv, NEW c \in Contexts, frames[c] = Idle, NEW o \in Objects, Unused(o),
         NEW fn \in {"svm_new", "svm_free", "add_program", "set", "process_transaction"},
         NEW p \in Addresses \cup {Null}, NEW program \in Bundled \cup Own \cup {Null},
         NEW todo \in SUBSET Bundled, enter(c, fn, o, p, program, todo),
         NEW ob \in Object, objects' = [objects EXCEPT ![o] = ob], GoodObject(ob),
         ob.ptr = objects[o].ptr, ob.freed = objects[o].freed, ~ob.freed,
         MayEnter(fn, p, ob, c[2]),
         UNCHANGED <<boxes, results, LAST_ERROR>>
  PROVE  IInv'
<1>1. PICK before \in Machine \cup {Null} :
        /\ frames' = [frames EXCEPT ![c] = Entered(fn, o, p, program, todo, before)]
        /\ p # Null => before = boxes[p]
  <2> DEFINE before == IF p = Null THEN Null ELSE boxes[p]
  <2>1. before \in Machine \cup {Null}
    BY DEF IInv, TypeOK
  <2>2. frames' = [frames EXCEPT ![c] = Entered(fn, o, p, program, todo, before)]
    BY DEF enter, Entered
  <2>. QED
    BY <2>1, <2>2
<1>2. PICK g : g = Entered(fn, o, p, program, todo, before)
  OBVIOUS
<1>3. /\ g \in Frame /\ g # Idle
      /\ g.fn = fn /\ g.at = "called" /\ g.obj = o /\ g.ptr = p /\ g.code = QUASAR_OK
      /\ g.buffer = Null /\ g.cause = Null /\ g.before = before
  <2>1. g = [fn |-> fn, at |-> "called", obj |-> o, ptr |-> p, program |-> program, todo |-> todo,
             code |-> QUASAR_OK, buffer |-> Null, cause |-> Null, before |-> before]
    BY <1>2 DEF Entered, Idle
  <2>2. g \in Frame
    BY <2>1 DEF Frame, QUASAR_OK
  <2>. QED
    BY <2>1, <2>2, IdleFields
<1>4. NewFrame(g, ob, c[2]) \/ FreeFrame(g, ob, c[2]) \/ CallFrame(g, ob, c[2])
  <2>1. CASE fn = "svm_new"
    BY <2>1, <1>3 DEF NewFrame, MayEnter
  <2>2. CASE fn = "svm_free"
    BY <2>2, <1>3 DEF FreeFrame, MayEnter
  <2>3. CASE fn \in {"add_program", "set", "process_transaction"}
    <3>1. ob.ptr # Null
      BY <2>3 DEF GoodObject, MayEnter
    <3>. QED
      BY <2>3, <3>1, <1>3 DEF CallFrame, MayEnter
  <2>. QED
    BY <2>1, <2>2, <2>3
<1>5. Moves(c, o, g, ob)
  BY <1>1, <1>2, <1>3, <1>4 DEF Moves, GoodFrame
<1>6. \A a \in Addresses : Holds(frames[c], objects[o], a) <=> Holds(g, ob, a)
  BY <1>3, IdleFields, NullIsNothing DEF Holds, MayEnter
<1>7. MustBeSame(g) => boxes[g.ptr] = g.before
  BY <1>1, <1>3 DEF MustBeSame
<1>. QED
  BY <1>3, <1>5, <1>6, <1>7, IdleFields, QuietInv

(* An object that no method is about, and that changes without losing a    *)
(* machine, keeps the invariant.                                           *)
LEMMA ObjectInv ==
  ASSUME IInv, NEW o \in Objects, Unused(o), NEW ob \in Object, GoodObject(ob),
         objects' = [objects EXCEPT ![o] = ob],
         \A a \in Addresses : Holds(Idle, objects[o], a) <=> Holds(Idle, ob, a),
         UNCHANGED <<boxes, results, LAST_ERROR, frames>>
  PROVE  IInv'
<1>1. objects' \in [Objects -> Object] /\ objects'[o] = ob
      /\ \A q \in Objects \ {o} : objects'[q] = objects[q]
  BY DEF IInv, TypeOK
<1>2. TypeOK'
  BY <1>1 DEF IInv, TypeOK
<1>3. \A c \in Contexts : frames[c] # Idle => objects'[frames[c].obj] = objects[frames[c].obj]
  BY <1>1, FrameFacts DEF Unused
<1>4. Shaped'
  <2>1. \A q \in Objects : GoodObject(objects'[q])
    BY <1>1 DEF IInv, Shaped
  <2>2. \A c \in Contexts : frames[c] # Idle =>
          /\ frames[c].obj \in Objects
          /\ GoodFrame(frames[c], objects'[frames[c].obj], c[2])
    BY <1>3 DEF IInv, Shaped
  <2>. QED
    BY <2>1, <2>2 DEF Shaped, GoodFrame, GoodObject, NewFrame, FreeFrame, CallFrame
<1>5. Held'
  <2>1. \A q \in Objects : Unused(q)' <=> Unused(q)
    BY DEF Unused
  <2>2. \A q, a : Belongs(a, q)' <=> Belongs(a, q)
    BY DEF Belongs
  <2>3. \A c \in Contexts : frames[c] # Idle =>
          \A a \in Addresses :
            Belongs(a, frames[c].obj) <=> Holds(frames[c], objects'[frames[c].obj], a)
    BY <1>3 DEF IInv, Held
  <2>4. \A q \in Objects : Unused(q) =>
          \A a \in Addresses : Belongs(a, q) <=> Holds(Idle, objects'[q], a)
    BY <1>1 DEF IInv, Held
  <2>. QED
    BY <2>1, <2>2, <2>3, <2>4 DEF Held
<1>6. Exclusive' /\ Untouched' /\ RaisedIsOwn' /\ ResultsAreHeld'
  BY DEF IInv, Exclusive, Untouched, RaisedIsOwn, last_error_ptr, ResultsAreHeld
<1>. QED
  BY <1>2, <1>4, <1>5, <1>6 DEF IInv

(* What a thread begins keeps the invariant. *)
LEMMA StartInv ==
  ASSUME IInv, NEW t \in Threads, NEW o \in Objects, Start(t, o)
  PROVE  IInv'
<1>1. PICK c \in Contexts : c = <<t, "method">> /\ c[2] = "method"
  <2>1. <<t, "method">> \in Contexts /\ <<t, "method">>[2] = "method"
    BY DEF Contexts
  <2>. QED
    BY <2>1
<1>2. AtRest(t) /\ frames[c] = Idle
  BY <1>1 DEF Start, construct, method, free, MayCall, AtRest
<1>3. PICK ob \in Object : ob = objects[o] /\ GoodObject(ob)
  BY DEF IInv, TypeOK, Shaped
<1>4. ASSUME NEW wanted \in SUBSET Bundled, construct(t, o, wanted)
      PROVE  IInv'
  <2> DEFINE ob2 == [Unborn EXCEPT !.stage = "constructing"]
  <2>1. ob2 \in Object /\ ob2.stage = "constructing" /\ ob2.ptr = Null /\ ~ob2.freed
    BY DEF Object, Unborn
  <2>2. objects' = [objects EXCEPT ![o] = ob2]
    BY <1>4 DEF construct
  <2> HIDE DEF ob2
  <2>3. GoodObject(ob2)
    BY <2>1 DEF GoodObject
  <2>4. ob.stage = "unborn" /\ ob.ptr = Null /\ ~ob.freed
    BY <1>3, <1>4 DEF construct, GoodObject
  <2>5. Unused(o)
    BY <1>3, <2>4, NobodysObject
  <2>6. enter(c, "svm_new", o, Null, Null, wanted) /\ UNCHANGED <<boxes, results, LAST_ERROR>>
    BY <1>1, <1>4 DEF construct
  <2>7. Null \in Bundled \cup Own \cup {Null} /\ Null \in Addresses \cup {Null}
        /\ wanted \in SUBSET Bundled
    OBVIOUS
  <2>8. ob2.ptr = objects[o].ptr /\ ob2.freed = objects[o].freed
    BY <1>3, <2>1, <2>4 DEF Object
  <2>9. MayEnter("svm_new", Null, ob2, c[2])
    BY <1>1, <2>1 DEF MayEnter
  <2>. QED
    BY <1>2, <2>1, <2>2, <2>3, <2>5, <2>6, <2>7, <2>8, <2>9, EnterInv
<1>5. ASSUME MayCall(t, o), NEW fn \in {"svm_free", "add_program", "set", "process_transaction"},
             NEW p \in {ob.ptr, Null}, fn = "svm_free" => p = ob.ptr,
             NEW program \in Own \cup {Null}, enter(c, fn, o, p, program, {}),
             UNCHANGED <<boxes, results, LAST_ERROR, objects>>
      PROVE  IInv'
  <2>1. Unused(o) /\ ob.stage = "live" /\ ~ob.freed
    BY <1>3, <1>5 DEF MayCall
  <2>2. objects' = [objects EXCEPT ![o] = ob]
    BY <1>3, <1>5 DEF IInv, TypeOK
  <2>3. p \in Addresses \cup {Null} /\ program \in Bundled \cup Own \cup {Null}
        /\ {} \in SUBSET Bundled
    BY DEF Object
  <2>4. MayEnter(fn, p, ob, c[2])
    BY <1>1, <1>5, <2>1 DEF MayEnter
  <2>5. fn \in {"svm_new", "svm_free", "add_program", "set", "process_transaction"}
    OBVIOUS
  <2>6. GoodObject(ob) /\ ob.ptr = objects[o].ptr /\ ob.freed = objects[o].freed
    BY <1>3
  <2>7. enter(c, fn, o, p, program, {}) /\ UNCHANGED <<boxes, results, LAST_ERROR>>
    BY <1>5
  <2>. QED
    BY <1>2, <2>1, <2>2, <2>3, <2>4, <2>5, <2>6, <2>7, EnterInv
<1>6. ASSUME NEW fn \in {"add_program", "set", "process_transaction"},
             NEW program \in Own \cup {Null}, method(t, o, fn, program)
      PROVE  IInv'
  <2>1. PICK p \in {ob.ptr, Null} : enter(c, fn, o, p, program, {})
    BY <1>1, <1>3, <1>6 DEF method
  <2>. QED
    BY <1>5, <1>6, <2>1 DEF method
<1>7. CASE free(t, o)
  <2>1. MayCall(t, o) /\ enter(c, "svm_free", o, ob.ptr, Null, {})
        /\ UNCHANGED <<boxes, results, LAST_ERROR, objects>>
    BY <1>1, <1>3, <1>7 DEF free
  <2>. QED
    BY <1>5, <2>1
<1>. QED
  BY <1>4, <1>6, <1>7 DEF Start

(* The collector keeps the invariant. *)
LEMMA FinalizeInv ==
  ASSUME IInv, NEW t \in Threads, NEW o \in Objects, finalize(t, o)
  PROVE  IInv'
<1>1. PICK c \in Contexts : c = <<t, "finalizer">> /\ c[2] = "finalizer"
  <2>1. <<t, "finalizer">> \in Contexts /\ <<t, "finalizer">>[2] = "finalizer"
    BY DEF Contexts
  <2>. QED
    BY <2>1
<1>2. PICK ob \in Object : ob = objects[o] /\ GoodObject(ob) /\ ob.stage = "garbage"
  BY DEF IInv, TypeOK, Shaped, finalize
<1>3. Unused(o)
  BY <1>2, NobodysObject
<1>4. CASE ob.freed
  <2>1. objects' = [objects EXCEPT ![o] = Unborn] /\ UNCHANGED <<boxes, results, LAST_ERROR, frames>>
    BY <1>2, <1>4 DEF finalize
  <2>2. \A a \in Addresses : Holds(Idle, objects[o], a) <=> Holds(Idle, Unborn, a)
    BY <1>2, <1>4, IdleFields, NullIsNothing DEF Holds, Unborn
  <2>3. GoodObject(Unborn)
    BY DEF GoodObject, Unborn
  <2>. QED
    BY <1>3, <2>1, <2>2, <2>3, IdleFields, ObjectInv
<1>5. CASE ~ob.freed
  <2> DEFINE ob2 == [ob EXCEPT !.stage = "finalizing"]
  <2>1. ob2 \in Object /\ ob2.stage = "finalizing" /\ ob2.ptr = ob.ptr /\ ob2.freed = ob.freed
    BY DEF Object
  <2>2. /\ frames[c] = Idle /\ objects' = [objects EXCEPT ![o] = ob2]
        /\ enter(c, "svm_free", o, ob.ptr, Null, {}) /\ UNCHANGED <<boxes, results, LAST_ERROR>>
    BY <1>1, <1>2, <1>5 DEF finalize, begin_finalizer, MayFinalize, IInv, TypeOK
  <2> HIDE DEF ob2
  <2>3. GoodObject(ob2)
    BY <1>2, <1>5, <2>1 DEF GoodObject
  <2>4. ob.ptr \in Addresses \cup {Null} /\ Null \in Bundled \cup Own \cup {Null}
        /\ {} \in SUBSET Bundled
    BY DEF Object
  <2>5. MayEnter("svm_free", ob.ptr, ob2, c[2])
    BY <1>1, <2>1 DEF MayEnter
  <2>. QED
    BY <1>2, <1>3, <1>5, <2>1, <2>2, <2>3, <2>4, <2>5, EnterInv
<1>. QED
  BY <1>4, <1>5

(* An object that nobody refers to any more keeps its machine until it is  *)
(* finalized.                                                              *)
LEMMA DropInv ==
  ASSUME IInv, NEW o \in Objects, drop(o)
  PROVE  IInv'
<1>1. PICK ob \in Object : ob = objects[o] /\ GoodObject(ob) /\ ob.stage = "live" /\ Unused(o)
  BY DEF IInv, TypeOK, Shaped, drop
<1> DEFINE ob2 == [ob EXCEPT !.stage = "garbage"]
<1>2. ob2 \in Object /\ ob2.stage = "garbage" /\ ob2.ptr = ob.ptr /\ ob2.freed = ob.freed
  BY DEF Object
<1>3. objects' = [objects EXCEPT ![o] = ob2] /\ UNCHANGED <<boxes, results, LAST_ERROR, frames>>
  BY <1>1 DEF drop, IInv, TypeOK
<1> HIDE DEF ob2
<1>4. GoodObject(ob2) /\ \A a \in Addresses : Holds(Idle, objects[o], a) <=> Holds(Idle, ob2, a)
  BY <1>1, <1>2 DEF GoodObject, Holds
<1>. QED
  BY <1>1, <1>2, <1>3, <1>4, ObjectInv

(* The invariant is inductive. *)
LEMMA NextInv == IInv /\ [Next]_vars => IInv'
<1> SUFFICES ASSUME IInv, [Next]_vars PROVE IInv'
  OBVIOUS
<1>1. ASSUME NEW t \in Threads, Step(t) PROVE IInv'
  <2>1. PICK level \in {"method", "finalizer"} : Library(<<t, level>>) \/ Client(<<t, level>>)
    BY <1>1 DEF Step
  <2>2. PICK c \in Contexts : c = <<t, level>>
    BY DEF Contexts
  <2>. QED
    BY <2>1, <2>2, LibraryInv, ClientInv
<1>2. ASSUME NEW t \in Threads, NEW o \in Objects, Start(t, o) \/ finalize(t, o) PROVE IInv'
  BY <1>2, StartInv, FinalizeInv
<1>3. ASSUME NEW o \in Objects, drop(o) PROVE IInv'
  BY <1>3, DropInv
<1>4. CASE UNCHANGED vars
  BY <1>4 DEF vars, IInv, TypeOK, Shaped, Exclusive, Held, Unused, Belongs, Untouched, RaisedIsOwn,
              last_error_ptr, ResultsAreHeld
<1>. QED
  BY <1>1, <1>2, <1>3, <1>4 DEF Next

(* It always holds. *)
LEMMA Invariant == Spec => []IInv
BY InitInv, NextInv, PTL DEF Spec

-----------------------------------------------------------------------------
(* Every variable keeps its type. *)
THEOREM TypesKept == Spec => []TypeOK
<1>1. IInv => TypeOK
  BY DEF IInv
<1>. QED
  BY <1>1, Invariant, PTL

(* Whatever ran between a failing call and the moment its client asks for  *)
(* the error, on this thread or another, the client gets the text of its   *)
(* own failure: LAST_ERROR of error.rs under any number of threads.        *)
THEOREM RaisedIsOwnAlways == Spec => []RaisedIsOwn
<1>1. IInv => RaisedIsOwn
  BY DEF IInv
<1>. QED
  BY <1>1, Invariant, PTL

(* Every result buffer has exactly one execution that will free it: the    *)
(* pairs of write_result_out and quasar_result_free in ffi.rs and the      *)
(* clients, with any number of threads and buffers.                        *)
THEOREM ResultsAreHeldAlways == Spec => []ResultsAreHeld
<1>1. IInv => ResultsAreHeld
  BY DEF IInv
<1>. QED
  BY <1>1, Invariant, PTL

(* Whoever is in the library works on a machine that exists and is its     *)
(* object's, though addresses are used again: no call after free, no       *)
(* machine freed twice, for any number of objects and addresses.           *)
THEOREM CallsOnOwnMachineAlways == Spec => []CallsOnOwnMachine
<1>1. IInv => CallsOnOwnMachine
  <2> SUFFICES ASSUME IInv, NEW c \in Contexts, frames[c].ptr # Null, InLibrary(c)
               PROVE  Belongs(frames[c].ptr, frames[c].obj)
    BY DEF CallsOnOwnMachine, Belongs
  <2>1. frames[c] # Idle /\ frames[c].at \in {"called", "chain", "write"}
    BY IdleFields DEF InLibrary
  <2>2. PICK f \in Frame, o \in Objects, ob \in Object :
          f = frames[c] /\ o = f.obj /\ ob = objects[o]
    BY <2>1, FrameFacts
  <2>3. f.ptr = ob.ptr /\ ~ob.freed /\ f.ptr \in Addresses
    BY <2>1, <2>2, FrameFacts DEF GoodFrame, NewFrame, FreeFrame, CallFrame, Frame
  <2>4. Holds(f, ob, f.ptr)
    BY <2>1, <2>2, <2>3 DEF Holds
  <2>. QED
    BY <2>1, <2>2, <2>3, <2>4, FrameFacts
<1>. QED
  BY <1>1, Invariant, PTL

(* A function that reports an error has left its machine alone, for every  *)
(* function of ffi.rs that reports one and both panic profiles.            *)
THEOREM FailedCallsChangeNothingAlways == Spec => []FailedCallsChangeNothing
<1>1. IInv => FailedCallsChangeNothing
  <2> SUFFICES ASSUME IInv, NEW c \in Contexts, frames[c].at = "returned",
                      frames[c].code # QUASAR_OK, frames[c].ptr # Null
               PROVE  boxes[frames[c].ptr] = frames[c].before
    BY DEF FailedCallsChangeNothing
  <2>1. frames[c] # Idle
    BY IdleFields
  <2>2. MustBeSame(frames[c])
    BY <2>1, FrameFacts DEF GoodFrame, NewFrame, FreeFrame, CallFrame, MustBeSame
  <2>. QED
    BY <2>1, <2>2, FrameFacts
<1>. QED
  BY <1>1, Invariant, PTL

(* Every machine has an object that will free it, one that was left by a   *)
(* constructor that raised included.                                       *)
THEOREM MachinesAreHeldAlways == Spec => []MachinesAreHeld
<1>1. IInv => MachinesAreHeld
  <2> SUFFICES ASSUME IInv, NEW a \in Addresses, boxes[a] # Null, NEW o, o = boxes[a].owner
               PROVE  \/ objects[o].ptr = a /\ ~objects[o].freed /\ objects[o].stage # "unborn"
                      \/ \E c \in Contexts : /\ frames[c].fn = "svm_new" /\ frames[c].obj = o
                                             /\ frames[c].ptr = a
    BY DEF MachinesAreHeld
  <2>1. o \in Objects /\ Belongs(a, o)
    BY DEF IInv, TypeOK, Machine, Belongs
  <2>2. objects[o].ptr = a => objects[o].stage # "unborn"
    BY <2>1, NullIsNothing DEF IInv, Shaped, GoodObject
  <2>3. CASE Unused(o)
    BY <2>1, <2>2, <2>3, IdleFields DEF IInv, Held, Holds
  <2>4. CASE ~Unused(o)
    <3>1. PICK c \in Contexts : frames[c].obj = o
      BY <2>4 DEF Unused
    <3>2. frames[c] # Idle
      BY <2>1, <3>1, IdleFields, NullIsNothing
    <3>3. Holds(frames[c], objects[o], a)
      BY <2>1, <3>1, <3>2, FrameFacts
    <3>. QED
      BY <2>2, <3>1, <3>3 DEF Holds
  <2>. QED
    BY <2>3, <2>4
<1>. QED
  BY <1>1, Invariant, PTL

-----------------------------------------------------------------------------
(***************************************************************************)
(* Refinement: the interface implements private machines. Under the        *)
(* invariant the machine of an object is the one that belongs to it, so it *)
(* changes only where a machine of that object changes. What is said of    *)
(* states before and after a step has a name.                              *)
(***************************************************************************)

(* The frame of an object is the one that is about it. *)
FramesFound ==
  /\ \A c \in Contexts : frames[c] # Idle => FrameOf(frames[c].obj) = frames[c]
  /\ \A o \in Objects : Unused(o) => FrameOf(o) = Idle

LEMMA FrameOfCall == IInv => FramesFound
<1> SUFFICES ASSUME IInv, NEW c \in Contexts, frames[c] # Idle
             PROVE  FrameOf(frames[c].obj) = frames[c]
  BY DEF FramesFound, FrameOf
<1>1. PICK o \in Objects : o = frames[c].obj /\ o # Null
  BY FrameFacts, NullIsNothing
<1>2. ~Unused(o)
  BY <1>1 DEF Unused
<1>3. PICK d : d = CHOOSE x \in Contexts : frames[x].obj = o
  OBVIOUS
<1>4. d \in Contexts /\ frames[d].obj = o
  BY <1>1, <1>3
<1>5. d = c
  BY <1>1, <1>4 DEF IInv, Exclusive
<1>. QED
  BY <1>1, <1>2, <1>3, <1>5 DEF FrameOf

(* A frame that has a machine has that of its object. *)
FramesOwn ==
  \A c \in Contexts :
    frames[c].ptr # Null /\ ~(frames[c].fn = "svm_free" /\ frames[c].at = "returned") =>
      frames[c].ptr \in Addresses /\ Belongs(frames[c].ptr, frames[c].obj)

LEMMA FramesHold == IInv => FramesOwn
<1> SUFFICES ASSUME IInv, NEW c \in Contexts, frames[c].ptr # Null,
                    ~(frames[c].fn = "svm_free" /\ frames[c].at = "returned")
             PROVE  frames[c].ptr \in Addresses /\ Belongs(frames[c].ptr, frames[c].obj)
  BY DEF FramesOwn
<1>1. frames[c] # Idle
  BY IdleFields
<1>2. PICK f \in Frame, ob \in Object : f = frames[c] /\ ob = objects[f.obj]
  BY <1>1, FrameFacts
<1>3. f.ptr \in Addresses
  BY <1>2 DEF Frame
<1>4. Holds(f, ob, f.ptr)
  BY <1>1, <1>2, FrameFacts DEF GoodFrame, NewFrame, FreeFrame, CallFrame, Holds
<1>. QED
  BY <1>1, <1>2, <1>3, <1>4, FrameFacts

(* Whether an object's handle is one, and which, is what it holds. *)
LEMMA HandleHeld ==
  ASSUME IInv, NEW o \in Objects, NEW h, h = Handle(o)
  PROVE  /\ h \in Addresses \cup {Null}
         /\ \A a \in Addresses : Belongs(a, o) <=> a = h
<1>1. PICK ob \in Object : ob = objects[o]
  BY DEF IInv, TypeOK
<1>2. CASE Unused(o)
  <2>1. FrameOf(o) = Idle /\ \A a \in Addresses : Belongs(a, o) <=> Holds(Idle, ob, a)
    BY <1>1, <1>2, FrameOfCall DEF IInv, Held, FramesFound
  <2>2. h = IF ob.freed THEN Null ELSE ob.ptr
    BY <1>1, <2>1, IdleFields DEF Handle
  <2>3. h \in Addresses \cup {Null}
    BY <2>2 DEF Object
  <2>. QED
    BY <2>1, <2>2, <2>3, IdleFields, NullIsNothing DEF Holds
<1>3. CASE ~Unused(o)
  <2>1. PICK c \in Contexts : frames[c].obj = o /\ frames[c] # Idle
    BY <1>3, IdleFields, NullIsNothing DEF Unused
  <2>2. PICK f \in Frame : f = frames[c]
    BY <2>1, FrameFacts
  <2>3. GoodFrame(f, ob, c[2]) /\ \A a \in Addresses : Belongs(a, o) <=> Holds(f, ob, a)
    BY <1>1, <2>1, <2>2, FrameFacts
  <2>4. h = IF f.fn = "svm_new" THEN f.ptr
            ELSE IF ob.freed \/ (f.fn = "svm_free" /\ f.at = "returned") THEN Null
            ELSE ob.ptr
    BY <1>1, <2>1, <2>2, FrameOfCall DEF Handle, FramesFound
  <2>5. h \in Addresses \cup {Null}
    BY <2>4 DEF Object, Frame
  <2>6. f.fn = "svm_new" => ob.ptr = Null
    BY <2>3 DEF GoodFrame, NewFrame, FreeFrame, CallFrame
  <2>7. \A a \in Addresses : Holds(f, ob, a) <=> a = h
    BY <2>4, <2>6, <2>3, NullIsNothing DEF Holds, GoodFrame
  <2>. QED
    BY <2>3, <2>5, <2>7
<1>. QED
  BY <1>2, <1>3

(* The machine of an object is the one that belongs to it. *)
MachinesFound ==
  \A o \in Objects :
    /\ MachineOf(o) \in Machine \cup {Null}
    /\ \A a \in Addresses : Belongs(a, o) => MachineOf(o) = boxes[a]
    /\ (\A a \in Addresses : ~Belongs(a, o)) => MachineOf(o) = Null

LEMMA MachineBelongs == IInv => MachinesFound
<1> SUFFICES ASSUME IInv, NEW o \in Objects
             PROVE  /\ MachineOf(o) \in Machine \cup {Null}
                    /\ \A a \in Addresses : Belongs(a, o) => MachineOf(o) = boxes[a]
                    /\ (\A a \in Addresses : ~Belongs(a, o)) => MachineOf(o) = Null
  BY DEF MachinesFound
<1>1. PICK h : h = Handle(o)
  OBVIOUS
<1>2. h \in Addresses \cup {Null} /\ \A a \in Addresses : Belongs(a, o) <=> a = h
  BY <1>1, HandleHeld
<1>3. MachineOf(o) = IF h = Null THEN Null ELSE boxes[h]
  BY <1>1 DEF MachineOf
<1>4. boxes \in [Addresses -> Machine \cup {Null}]
  BY DEF IInv, TypeOK
<1>. QED
  BY <1>2, <1>3, <1>4, NullIsNothing

(* Which objects have a machine: all but those whose constructor has none  *)
(* yet, or whose machine is freed.                                         *)
MachinesMissing ==
  /\ \A c \in Contexts : frames[c] # Idle =>
       (MachineOf(frames[c].obj) = Null <=>
          \/ frames[c].fn = "svm_new" /\ frames[c].ptr = Null
          \/ frames[c].fn = "svm_free" /\ frames[c].at = "returned")
  /\ \A o \in Objects : Unused(o) =>
       (MachineOf(o) = Null <=> objects[o].ptr = Null \/ objects[o].freed)

LEMMA WhoHasMachine == IInv => MachinesMissing
<1> SUFFICES ASSUME IInv PROVE MachinesMissing
  OBVIOUS
<1>1. ASSUME NEW o \in Objects PROVE MachineOf(o) = Null <=> Handle(o) = Null
  <2>1. PICK h : h = Handle(o)
    OBVIOUS
  <2>2. h \in Addresses \cup {Null} /\ \A a \in Addresses : Belongs(a, o) <=> a = h
    BY <2>1, HandleHeld
  <2>. QED
    BY <2>1, <2>2 DEF MachineOf, Belongs
<1>2. ASSUME NEW c \in Contexts, frames[c] # Idle
      PROVE  Handle(frames[c].obj) = Null <=>
               \/ frames[c].fn = "svm_new" /\ frames[c].ptr = Null
               \/ frames[c].fn = "svm_free" /\ frames[c].at = "returned"
  <2>1. PICK f \in Frame, o \in Objects, ob \in Object :
          f = frames[c] /\ o = f.obj /\ ob = objects[o]
    BY <1>2, FrameFacts
  <2>2. FrameOf(o) = f
    BY <1>2, <2>1, FrameOfCall DEF FramesFound
  <2>3. GoodFrame(f, ob, c[2]) /\ GoodObject(ob)
    BY <1>2, <2>1, FrameFacts
  <2>4. f.fn = "svm_new" \/ ob.ptr # Null
    BY <2>3 DEF GoodFrame, NewFrame, FreeFrame, CallFrame, GoodObject
  <2>. QED
    BY <2>1, <2>2, <2>3, <2>4 DEF Handle, GoodFrame
<1>3. ASSUME NEW o \in Objects, Unused(o)
      PROVE  Handle(o) = Null <=> objects[o].ptr = Null \/ objects[o].freed
  BY <1>3, FrameOfCall, IdleFields DEF Handle, FramesFound
<1>. QED
  BY <1>1, <1>2, <1>3, FrameFacts DEF MachinesMissing

-----------------------------------------------------------------------------
(* A step of a context about an object is a step of the call on it. *)
Steps(c, o, g) ==
  /\ \/ frames[c] = Idle /\ Unused(o)
     \/ frames[c] # Idle /\ frames[c].obj = o
  /\ frames' = [frames EXCEPT ![c] = g]
  /\ g # Idle => g.obj = o

LEMMA CallStep ==
  ASSUME IInv, IInv', NEW c \in Contexts, NEW o \in Objects, NEW g, Steps(c, o, g)
  PROVE  calls[o] = Stands(frames[c]) /\ calls' = [calls EXCEPT ![o] = Stands(g)]
<1> USE DEF Steps
<1>1. frames'[c] = g /\ \A d \in Contexts \ {c} : frames'[d] = frames[d]
  BY DEF IInv, TypeOK
<1>2. \A d \in Contexts \ {c} : frames[d].obj # o
  <2>1. CASE frames[c] = Idle /\ Unused(o)
    BY <2>1 DEF Unused
  <2>2. CASE frames[c] # Idle /\ frames[c].obj = o
    BY <2>2, NullIsNothing DEF IInv, Exclusive
  <2>. QED
    BY <2>1, <2>2
<1>3. /\ \A d \in Contexts : frames'[d] # Idle => FrameOf(frames[d].obj)' = frames'[d]
      /\ \A q \in Objects : Unused(q)' => FrameOf(q)' = Idle
  <2>1. FramesFound'
    BY FrameOfCall, PTL
  <2>. QED
    BY <2>1 DEF FramesFound
<1>4. FrameOf(o) = frames[c]
  BY FrameOfCall DEF FramesFound
<1>5. FrameOf(o)' = g
  <2>1. CASE g = Idle
    <3>1. Unused(o)'
      BY <2>1, <1>1, <1>2, IdleFields, NullIsNothing DEF Unused
    <3>. QED
      BY <2>1, <3>1, <1>3
  <2>2. CASE g # Idle
    BY <2>2, <1>1, <1>3
  <2>. QED
    BY <2>1, <2>2
<1>6. ASSUME NEW q \in Objects, q # o PROVE FrameOf(q)' = FrameOf(q)
  <2>1. CASE Unused(q)
    <3>1. Unused(q)'
      BY <2>1, <1>1, <1>6, IdleFields, NullIsNothing DEF Unused
    <3>. QED
      BY <2>1, <3>1, <1>3, FrameOfCall DEF FramesFound
  <2>2. CASE ~Unused(q)
    <3>1. PICK d \in Contexts : frames[d].obj = q /\ frames[d] # Idle
      BY <2>2, IdleFields, NullIsNothing DEF Unused
    <3>2. d # c
      BY <3>1, <1>6
    <3>. QED
      BY <3>1, <3>2, <1>1, <1>3, FrameOfCall DEF FramesFound
  <2>. QED
    BY <2>1, <2>2
<1>. QED
  BY <1>4, <1>5, <1>6 DEF calls

(* Machines change where boxes do. *)
LEMMA MachineStep ==
  ASSUME IInv, IInv', NEW o \in Objects, NEW p \in Addresses,
         \A a \in Addresses \ {p} : boxes'[a] = boxes[a],
         boxes[p] = Null \/ Belongs(p, o), boxes'[p] = Null \/ Belongs(p, o)'
  PROVE  machines' = [machines EXCEPT ![o] = machines'[o]]
<1>1. ASSUME NEW q \in Objects, q # o PROVE MachineOf(q)' = MachineOf(q)
  <2>1. /\ \A a \in Addresses : Belongs(a, q)' => MachineOf(q)' = boxes'[a]
        /\ (\A a \in Addresses : ~Belongs(a, q)') => MachineOf(q)' = Null
    <3>1. MachinesFound'
      BY MachineBelongs, PTL
    <3>. QED
      BY <3>1 DEF MachinesFound
  <2>2. \A a \in Addresses : Belongs(a, q)' <=> Belongs(a, q)
    BY <1>1 DEF Belongs
  <2>3. \A a \in Addresses : Belongs(a, q) => boxes'[a] = boxes[a]
    BY <1>1 DEF Belongs
  <2>. QED
    BY <2>1, <2>2, <2>3, MachineBelongs DEF MachinesFound
<1>. QED
  BY <1>1 DEF machines

LEMMA SameMachines ==
  ASSUME IInv, IInv', UNCHANGED boxes
  PROVE  machines' = machines
<1>1. ASSUME NEW q \in Objects PROVE MachineOf(q)' = MachineOf(q)
  <2>1. /\ \A a \in Addresses : Belongs(a, q)' => MachineOf(q)' = boxes'[a]
        /\ (\A a \in Addresses : ~Belongs(a, q)') => MachineOf(q)' = Null
    <3>1. MachinesFound'
      BY MachineBelongs, PTL
    <3>. QED
      BY <3>1 DEF MachinesFound
  <2>2. \A a \in Addresses : Belongs(a, q)' <=> Belongs(a, q)
    BY DEF Belongs
  <2>. QED
    BY <2>1, <2>2, MachineBelongs DEF MachinesFound
<1>. QED
  BY <1>1 DEF machines

-----------------------------------------------------------------------------
(* The process begins like private machines, and anew after an abort. *)
LEMMA MachinesInit == Init => M!Init
<1> SUFFICES ASSUME Init PROVE M!Init
  OBVIOUS
<1>1. \A o \in Objects : Unused(o) \/ o = Null
  BY IdleFields DEF Init, Unused
<1>2. \A o \in Objects : FrameOf(o) = Idle
  BY <1>1, NullIsNothing DEF FrameOf
<1>3. \A o \in Objects : MachineOf(o) = Null
  BY <1>2, IdleFields DEF Init, MachineOf, Handle, Unborn
<1>. QED
  <2>1. machines = [o \in Objects |-> Null]
    BY <1>3 DEF machines
  <2>2. Stands(Idle) = "none"
    BY IdleFields DEF Stands
  <2>3. calls = [o \in Objects |-> "none"]
    BY <1>2, <2>2 DEF calls
  <2>. QED
    BY <2>1, <2>3 DEF M!Init

LEMMA AbortRefines == abort => M!Next
<1>1. abort => Init'
  BY DEF abort, Init
<1>2. Init' => M!Init'
  BY MachinesInit, PTL
<1>. QED
  BY <1>1, <1>2 DEF M!Init, M!Next, M!Abort

(* Where a frame stands. *)
LEMMA StandsFacts ==
  ASSUME NEW f, f # Idle, f.at # "none"
  PROVE  /\ f.at \in {"called", "chain"} =>
              Stands(f) = IF f.fn = "svm_new" THEN "create"
                          ELSE IF f.fn = "svm_free" THEN "free" ELSE "use"
         /\ f.at \notin {"called", "chain"} =>
              Stands(f) = IF f.code # QUASAR_OK \/ f.ptr = Null THEN "failed" ELSE "done"
BY DEF Stands

(* A step of an object that leaves the machines alone. *)
LEMMA QuietStep ==
  ASSUME IInv, IInv', NEW c \in Contexts, NEW o \in Objects, NEW g, Steps(c, o, g),
         UNCHANGED boxes
  PROVE  /\ calls[o] = Stands(frames[c]) /\ calls' = [calls EXCEPT ![o] = Stands(g)]
         /\ machines' = machines
         /\ Stands(g) = Stands(frames[c]) => calls' = calls
<1>1. calls[o] = Stands(frames[c]) /\ calls' = [calls EXCEPT ![o] = Stands(g)]
  BY CallStep
<1>2. Stands(g) = Stands(frames[c]) => calls' = calls
  BY <1>1 DEF calls
<1>. QED
  BY <1>1, <1>2, SameMachines

(* A function that fails. *)
LEMMA FailsRefines ==
  ASSUME IInv, IInv', NEW c \in Contexts, frames[c] # Idle,
         frames[c].at \in {"called", "chain"}, frames[c].fn # "svm_free",
         NEW code, NEW message, fails(c, code, message),
         code # QUASAR_OK \/ frames[c].ptr = Null
  PROVE  M!Next
<1>1. PICK f \in Frame, o \in Objects : f = frames[c] /\ o = f.obj
  BY FrameFacts
<1>2. PICK g : g = [f EXCEPT !.at = "returned", !.code = code, !.cause = message]
  OBVIOUS
<1>3. g.at = "returned" /\ g.code = code /\ g.ptr = f.ptr /\ g.obj = o
  BY <1>1, <1>2 DEF Frame
<1>4. g # Idle
  BY <1>3, IdleFields
<1>5. Steps(c, o, g)
  <2>1. frames' = [frames EXCEPT ![c] = g]
    BY <1>1, <1>2 DEF fails, IInv, TypeOK
  <2>. QED
    BY <1>1, <1>3, <2>1 DEF Steps
<1>6. Stands(f) \in {"create", "use"} /\ Stands(g) = "failed"
  BY <1>1, <1>3, <1>4, StandsFacts
<1>7. calls[o] = Stands(f) /\ calls' = [calls EXCEPT ![o] = Stands(g)] /\ machines' = machines
  BY <1>1, <1>5, QuietStep DEF fails
<1>. QED
  BY <1>6, <1>7 DEF M!Next, M!Fail

(* A function that does what it is for: the machine at p is its object's,  *)
(* before or after or both.                                                *)
LEMMA EffectRefines ==
  ASSUME IInv, IInv', NEW c \in Contexts, frames[c] # Idle,
         frames[c].at \in {"called", "chain"},
         NEW g, frames' = [frames EXCEPT ![c] = g], g # Idle, g.obj = frames[c].obj,
         g.fn = frames[c].fn, g.at \in {"returned", "write"}, g.fn = "svm_free" => g.at = "returned",
         g.ptr # Null, g.code = QUASAR_OK,
         NEW p \in Addresses, \A a \in Addresses \ {p} : boxes'[a] = boxes[a],
         boxes[p] = Null \/ Belongs(p, g.obj), boxes'[p] = Null \/ Belongs(p, g.obj)'
  PROVE  M!Next
<1>1. PICK f \in Frame, o \in Objects : f = frames[c] /\ o = f.obj
  BY FrameFacts
<1>2. calls[o] = Stands(f) /\ calls' = [calls EXCEPT ![o] = Stands(g)]
  <2>1. Steps(c, o, g)
    BY <1>1 DEF Steps
  <2>. QED
    BY <1>1, <2>1, CallStep
<1>3. Stands(g) = "done"
  BY StandsFacts
<1>4. Stands(f) = IF f.fn = "svm_new" THEN "create" ELSE IF f.fn = "svm_free" THEN "free" ELSE "use"
  BY <1>1, StandsFacts
<1>5. machines' = [machines EXCEPT ![o] = machines'[o]]
  BY <1>1, MachineStep
<1>6. IF f.fn = "svm_free" THEN machines'[o] = Null ELSE machines'[o] \in Machine
  <2>1. MachinesMissing' /\ MachinesFound'
    BY WhoHasMachine, MachineBelongs, PTL
  <2>2. frames'[c] = g
    BY DEF IInv, TypeOK
  <2>3. MachineOf(o)' = Null <=> g.fn = "svm_free"
    BY <1>1, <2>1, <2>2 DEF MachinesMissing
  <2>4. MachineOf(o)' \in Machine \cup {Null}
    BY <2>1 DEF MachinesFound
  <2>5. machines'[o] = MachineOf(o)'
    BY DEF machines
  <2>. QED
    BY <1>1, <2>3, <2>4, <2>5
<1>. QED
  BY <1>2, <1>3, <1>4, <1>5, <1>6 DEF M!Next, M!Effect

(* A method or finalizer that is over. *)
LEMMA ReturnRefines ==
  ASSUME IInv, IInv', NEW c \in Contexts, frames[c].at \in {"returned", "copied"},
         frames' = [frames EXCEPT ![c] = Idle], UNCHANGED boxes
  PROVE  M!Next
<1>1. frames[c] # Idle
  BY IdleFields
<1>2. PICK f \in Frame, o \in Objects : f = frames[c] /\ o = f.obj
  BY <1>1, FrameFacts
<1>3. Stands(f) \in {"done", "failed"}
  BY <1>1, <1>2, StandsFacts
<1>4. calls[o] = Stands(f) /\ calls' = [calls EXCEPT ![o] = "none"] /\ machines' = machines
  <2>1. Stands(Idle) = "none"
    BY IdleFields DEF Stands
  <2>2. Steps(c, o, Idle)
    BY <1>1, <1>2 DEF Steps
  <2>. QED
    BY <1>2, <2>1, <2>2, QuietStep
<1>. QED
  BY <1>3, <1>4 DEF M!Next, M!Return

(* A function that is entered. *)
LEMMA EnterRefines ==
  ASSUME IInv, IInv', NEW c \in Contexts, NEW o \in Objects,
         \/ frames[c] = Idle /\ Unused(o)
         \/ frames[c] # Idle /\ frames[c].obj = o /\ Stands(frames[c]) = "done",
         NEW fn, NEW p, NEW program, NEW todo, enter(c, fn, o, p, program, todo),
         UNCHANGED boxes,
         IF fn = "svm_new" THEN MachineOf(o) = Null ELSE MachineOf(o) # Null
  PROVE  M!Next
<1>1. PICK before : frames' = [frames EXCEPT ![c] = Entered(fn, o, p, program, todo, before)]
  <2> DEFINE before == IF p = Null THEN Null ELSE boxes[p]
  <2>1. frames' = [frames EXCEPT ![c] = Entered(fn, o, p, program, todo, before)]
    BY DEF enter, Entered
  <2>. QED
    BY <2>1
<1>2. PICK g : g = Entered(fn, o, p, program, todo, before)
  OBVIOUS
<1>3. g.fn = fn /\ g.at = "called" /\ g.obj = o
  BY <1>2 DEF Entered, Idle
<1>4. g # Idle
  BY <1>3, IdleFields
<1>5. Stands(g) = IF fn = "svm_new" THEN "create" ELSE IF fn = "svm_free" THEN "free" ELSE "use"
  BY <1>3, <1>4, StandsFacts
<1>6. /\ calls[o] = Stands(frames[c]) /\ calls' = [calls EXCEPT ![o] = Stands(g)]
      /\ machines' = machines
  <2>1. Steps(c, o, g)
    BY <1>1, <1>2, <1>3 DEF Steps
  <2>. QED
    BY <2>1, QuietStep
<1>7. Stands(frames[c]) \in {"none", "done"}
  BY IdleFields DEF Stands
<1>8. machines[o] = MachineOf(o)
  BY DEF machines
<1>. QED
  BY <1>5, <1>6, <1>7, <1>8 DEF M!Next, M!Begin

(* A panic, which is caught or ends the process. *)
LEMMA PanicRefines ==
  ASSUME IInv, IInv', NEW c \in Contexts, frames[c] # Idle,
         frames[c].at \in {"called", "chain"}, frames[c].fn # "svm_free",
         NEW code, NEW message, panics(c, code, message),
         code # QUASAR_OK \/ frames[c].ptr = Null
  PROVE  M!Next
BY FailsRefines, AbortRefines DEF panics

(* A function that goes on with its machine, changed or not. *)
LEMMA WorksRefines ==
  ASSUME IInv, IInv', NEW c \in Contexts,
         frames[c].fn \in {"add_program", "set", "process_transaction"},
         frames[c].at \in {"called", "chain"}, frames[c].ptr # Null,
         NEW at \in {"write", "returned"}, moves(c, at),
         UNCHANGED boxes \/ changes(frames[c].ptr)
  PROVE  M!Next
<1>1. frames[c] # Idle
  BY IdleFields
<1>2. PICK f \in Frame : f = frames[c]
  BY <1>1, FrameFacts
<1>3. f.code = QUASAR_OK
  BY <1>1, <1>2, FrameFacts DEF GoodFrame, NewFrame, FreeFrame, CallFrame
<1>4. PICK g : g = [f EXCEPT !.at = at]
  OBVIOUS
<1>5. g.at = at /\ g.fn = f.fn /\ g.obj = f.obj /\ g.code = f.code /\ g.ptr = f.ptr
  BY <1>4 DEF Frame
<1>6. g # Idle
  BY <1>2, <1>5, IdleFields
<1>7. frames' = [frames EXCEPT ![c] = g]
  BY <1>2, <1>4 DEF IInv, TypeOK, moves
<1>8. PICK p \in Addresses : p = f.ptr
  BY <1>2 DEF Frame
<1>9. Belongs(p, g.obj) /\ Belongs(p, g.obj)'
  <2>1. FramesOwn /\ FramesOwn'
    BY FramesHold, PTL
  <2>2. frames'[c] = g
    BY <1>7 DEF IInv, TypeOK
  <2>3. Belongs(p, g.obj)
    BY <2>1, <1>2, <1>5, <1>8 DEF FramesOwn
  <2>4. Belongs(p, g.obj)'
    BY <2>1, <2>2, <1>2, <1>5, <1>8 DEF FramesOwn
  <2>. QED
    BY <2>3, <2>4
<1>10. \A a \in Addresses \ {p} : boxes'[a] = boxes[a]
  BY <1>2, <1>8 DEF changes, IInv, TypeOK
<1>11. g.fn # "svm_free" /\ g.at \in {"returned", "write"} /\ g.ptr # Null /\ g.code = QUASAR_OK
  BY <1>2, <1>3, <1>5
<1>. QED
  BY <1>1, <1>2, <1>5, <1>6, <1>7, <1>9, <1>10, <1>11, EffectRefines

(* A step of a function or client that its call does not take effect by.   *)
LEMMA GoesOnRefines ==
  ASSUME IInv, IInv', NEW c \in Contexts, frames[c] # Idle, NEW g,
         frames' = [frames EXCEPT ![c] = g], g # Idle, g.obj = frames[c].obj,
         UNCHANGED boxes, Stands(g) = Stands(frames[c])
  PROVE  UNCHANGED M!machinesVars
<1>1. PICK o \in Objects : o = frames[c].obj
  BY FrameFacts
<1>2. Steps(c, o, g)
  BY <1>1 DEF Steps
<1>. QED
  BY <1>1, <1>2, QuietStep DEF M!machinesVars

(* Every step of the library is one of private machines, or invisible. *)
LEMMA LibraryRefines ==
  ASSUME IInv, IInv', NEW c \in Contexts, Library(c)
  PROVE  M!Next \/ UNCHANGED M!machinesVars
<1> DEFINE functions == {"add_program", "set", "process_transaction"}
<1>1. CASE quasar_svm_new(c)
  <2>1. frames[c] # Idle /\ frames[c].fn = "svm_new" /\ frames[c].at = "called"
    BY <1>1, IdleFields DEF quasar_svm_new, At
  <2>2. frames[c].ptr = Null /\ frames[c].code = QUASAR_OK
    BY <2>1, FrameFacts DEF GoodFrame, NewFrame, FreeFrame, CallFrame
  <2>3. CASE panics(c, QUASAR_OK, "Panic during SVM creation")
    BY <2>1, <2>2, <2>3, PanicRefines
  <2>4. ASSUME NEW a \in Addresses, NEW v \in Versions, boxes[a] = Null,
               boxes' = [boxes EXCEPT ![a] = [owner |-> frames[c].obj, version |-> v]],
               frames' = [frames EXCEPT ![c].at = "returned", ![c].ptr = a]
        PROVE  M!Next
    <3>1. PICK f \in Frame : f = frames[c]
      BY <2>1, FrameFacts
    <3>2. PICK g : g = [f EXCEPT !.at = "returned", !.ptr = a]
      OBVIOUS
    <3>3. g.at = "returned" /\ g.ptr = a /\ g.fn = f.fn /\ g.obj = f.obj /\ g.code = f.code
      BY <3>2 DEF Frame
    <3>4. g # Idle /\ g.ptr # Null
      BY <3>3, IdleFields, NullIsNothing
    <3>5. frames' = [frames EXCEPT ![c] = g]
      BY <2>4, <3>1, <3>2 DEF IInv, TypeOK
    <3>6. Belongs(a, g.obj)'
      <4>1. FramesOwn'
        BY FramesHold, PTL
      <4>2. frames'[c] = g
        BY <3>5 DEF IInv, TypeOK
      <4>. QED
        BY <4>1, <4>2, <2>1, <3>1, <3>3, <3>4 DEF FramesOwn
    <3>7. \A x \in Addresses \ {a} : boxes'[x] = boxes[x]
      BY <2>4 DEF IInv, TypeOK
    <3>8. g.fn = frames[c].fn /\ g.fn # "svm_free" /\ g.code = QUASAR_OK /\ g.obj = frames[c].obj
      BY <2>1, <2>2, <3>1, <3>3
    <3>. QED
      BY <2>1, <2>4, <3>3, <3>4, <3>5, <3>6, <3>7, <3>8, EffectRefines
  <2>. QED
    BY <1>1, <2>3, <2>4 DEF quasar_svm_new
<1>2. CASE quasar_svm_free(c)
  <2>1. frames[c] # Idle /\ frames[c].fn = "svm_free" /\ frames[c].at = "called"
    BY <1>2, IdleFields DEF quasar_svm_free, At
  <2>2. PICK f \in Frame : f = frames[c]
    BY <2>1, FrameFacts
  <2>3. f.code = QUASAR_OK /\ f.ptr # Null
    BY <2>1, <2>2, FrameFacts DEF GoodFrame, NewFrame, FreeFrame, CallFrame, GoodObject
  <2>4. PICK p \in Addresses : p = f.ptr
    BY <2>2, <2>3 DEF Frame
  <2>5. PICK g : g = [f EXCEPT !.at = "returned"]
    OBVIOUS
  <2>6. g.at = "returned" /\ g.ptr = p /\ g.fn = f.fn /\ g.obj = f.obj /\ g.code = QUASAR_OK
    BY <2>3, <2>4, <2>5 DEF Frame
  <2>7. g # Idle
    BY <2>6, IdleFields
  <2>8. frames' = [frames EXCEPT ![c] = g]
    BY <1>2, <2>2, <2>5 DEF IInv, TypeOK, quasar_svm_free, returns, moves
  <2>9. Belongs(p, g.obj)
    BY <2>1, <2>2, <2>3, <2>4, <2>6, FramesHold DEF FramesOwn
  <2>10. boxes'[p] = Null /\ \A a \in Addresses \ {p} : boxes'[a] = boxes[a]
    BY <1>2, <2>2, <2>4 DEF IInv, TypeOK, quasar_svm_free
  <2>. QED
    BY <2>1, <2>2, <2>3, <2>4, <2>6, <2>7, <2>8, <2>9, <2>10, EffectRefines
<1>3. CASE null_pointer(c)
  <2>1. frames[c] # Idle /\ frames[c].fn \in functions /\ frames[c].at = "called"
    BY <1>3, IdleFields DEF null_pointer, At
  <2>2. fails(c, -1, "Null pointer argument")
    BY <1>3 DEF null_pointer, QUASAR_ERR_NULL_POINTER
  <2>3. -1 # QUASAR_OK
    BY DEF QUASAR_OK
  <2>. QED
    BY <2>1, <2>2, <2>3, FailsRefines
<1>4. CASE quasar_svm_add_program(c)
  <2>1. /\ frames[c] # Idle /\ frames[c].fn \in functions
        /\ frames[c].at = "called" /\ frames[c].ptr # Null
    BY <1>4, IdleFields DEF quasar_svm_add_program, At
  <2>2. CASE panics(c, -3, "Panic while loading program")
    <3>1. -3 # QUASAR_OK
      BY DEF QUASAR_OK
    <3>. QED
      BY <2>1, <2>2, <3>1, PanicRefines
  <2>3. CASE changes(frames[c].ptr) /\ moves(c, "returned")
    BY <2>1, <2>3, WorksRefines
  <2>. QED
    BY <1>4, <2>2, <2>3 DEF quasar_svm_add_program, returns, QUASAR_ERR_PROGRAM_LOAD
<1>5. CASE quasar_svm_set(c)
  <2>1. /\ frames[c].fn \in functions /\ frames[c].at = "called" /\ frames[c].ptr # Null
        /\ changes(frames[c].ptr) /\ moves(c, "returned")
    BY <1>5 DEF quasar_svm_set, At, returns
  <2>. QED
    BY <2>1, WorksRefines
<1>6. CASE quasar_svm_process_transaction(c)
  <2>1. frames[c] # Idle /\ frames[c].fn = "process_transaction" /\ frames[c].at = "called"
    BY <1>6, IdleFields DEF quasar_svm_process_transaction, At
  <2>2. ASSUME NEW message, fails(c, -4, message) PROVE M!Next
    <3>1. -4 # QUASAR_OK
      BY DEF QUASAR_OK
    <3>. QED
      BY <2>1, <2>2, <3>1, FailsRefines
  <2>3. CASE moves(c, "chain") /\ UNCHANGED boxes
    <3>1. PICK f \in Frame : f = frames[c]
      BY <2>1, FrameFacts
    <3>2. PICK g : g = [f EXCEPT !.at = "chain"]
      OBVIOUS
    <3>3. g.at = "chain" /\ g.fn = f.fn /\ g.obj = f.obj
      BY <3>2 DEF Frame
    <3>4. g # Idle
      BY <3>3, IdleFields
    <3>5. frames' = [frames EXCEPT ![c] = g]
      BY <2>3, <3>1, <3>2 DEF IInv, TypeOK, moves
    <3>6. Stands(g) = Stands(frames[c])
      BY <2>1, <3>1, <3>3, <3>4, StandsFacts
    <3>. QED
      BY <2>1, <2>3, <3>1, <3>3, <3>4, <3>5, <3>6, GoesOnRefines
  <2>. QED
    BY <1>6, <2>2, <2>3 DEF quasar_svm_process_transaction, QUASAR_ERR_EXECUTION
<1>7. CASE process_instruction_chain(c)
  <2>1. frames[c] # Idle /\ frames[c].fn = "process_transaction" /\ frames[c].at = "chain"
    BY <1>7, IdleFields DEF process_instruction_chain, At
  <2>2. CASE panics(c, -99, "Panic during transaction execution")
    <3>1. -99 # QUASAR_OK
      BY DEF QUASAR_OK
    <3>. QED
      BY <2>1, <2>2, <3>1, PanicRefines
  <2>3. CASE (changes(frames[c].ptr) \/ UNCHANGED boxes) /\ moves(c, "write")
    <3>1. frames[c].ptr # Null
      BY <2>1, FrameFacts DEF GoodFrame, NewFrame, FreeFrame, CallFrame
    <3>. QED
      BY <2>1, <2>3, <3>1, WorksRefines
  <2>. QED
    BY <1>7, <2>2, <2>3 DEF process_instruction_chain, QUASAR_ERR_INTERNAL
<1>8. CASE write_result_out(c)
  <2>1. frames[c] # Idle /\ frames[c].fn = "process_transaction" /\ frames[c].at = "write"
    BY <1>8, IdleFields DEF write_result_out, At
  <2>2. PICK f \in Frame : f = frames[c]
    BY <2>1, FrameFacts
  <2>3. PICK b \in Buffers : frames' = [frames EXCEPT ![c].at = "returned", ![c].buffer = b]
    BY <1>8 DEF write_result_out
  <2>4. PICK g : g = [f EXCEPT !.at = "returned", !.buffer = b]
    OBVIOUS
  <2>5. g.at = "returned" /\ g.fn = f.fn /\ g.obj = f.obj /\ g.code = f.code /\ g.ptr = f.ptr
    BY <2>4 DEF Frame
  <2>6. g # Idle
    BY <2>5, IdleFields
  <2>7. frames' = [frames EXCEPT ![c] = g]
    BY <2>2, <2>3, <2>4 DEF IInv, TypeOK
  <2>8. Stands(g) = Stands(frames[c])
    BY <2>1, <2>2, <2>5, <2>6, StandsFacts
  <2>. QED
    BY <1>8, <2>1, <2>2, <2>5, <2>6, <2>7, <2>8, GoesOnRefines DEF write_result_out
<1>. QED
  BY <1>1, <1>2, <1>3, <1>4, <1>5, <1>6, <1>7, <1>8 DEF Library

(* A constructor that goes on to its next function, or a method that is over. *)
LEMMA ProceedRefines ==
  ASSUME IInv, IInv', NEW c \in Contexts, frames[c] # Idle, frames[c].at = "returned",
         frames[c].fn # "svm_free", frames[c].code = QUASAR_OK, pointer(c) # Null, proceed(c)
  PROVE  M!Next
<1>1. PICK f \in Frame, o \in Objects : f = frames[c] /\ o = f.obj
  BY FrameFacts
<1>2. CASE frames' = [frames EXCEPT ![c] = Idle] /\ UNCHANGED boxes
  BY <1>2, ReturnRefines
<1>3. ASSUME NEW program, NEW todo, enter(c, "add_program", o, pointer(c), program, todo),
             UNCHANGED boxes
      PROVE  M!Next
  <2>1. f.ptr # Null
    BY <1>1, FrameFacts DEF GoodFrame, NewFrame, FreeFrame, CallFrame, pointer
  <2>2. Stands(f) = "done"
    BY <1>1, <2>1, StandsFacts
  <2>3. MachineOf(o) # Null
    BY <1>1, <2>1, WhoHasMachine DEF MachinesMissing
  <2>. QED
    BY <1>1, <1>3, <2>2, <2>3, EnterRefines
<1>. QED
  BY <1>1, <1>2, <1>3 DEF proceed, raise

(* Every step of a client in a method is one of private machines, or       *)
(* invisible.                                                              *)
LEMMA ClientRefines ==
  ASSUME IInv, IInv', NEW c \in Contexts, Client(c)
  PROVE  M!Next \/ UNCHANGED M!machinesVars
<1>1. CASE svm_new_returned(c)
  <2>1. frames[c] # Idle /\ frames[c].fn = "svm_new" /\ frames[c].at = "returned"
    BY <1>1, IdleFields DEF svm_new_returned, At
  <2>2. frames[c].code = QUASAR_OK /\ pointer(c) = frames[c].ptr
    BY <2>1, FrameFacts DEF GoodFrame, NewFrame, FreeFrame, CallFrame, pointer
  <2>. QED
    BY <1>1, <2>1, <2>2, ReturnRefines, ProceedRefines DEF svm_new_returned, raise
<1>2. CASE svm_free_returned(c)
  BY <1>2, ReturnRefines DEF svm_free_returned, At
<1>3. CASE check(c)
  <2>1. frames[c] # Idle /\ frames[c].fn \in {"add_program", "set"} /\ frames[c].at = "returned"
    BY <1>3, IdleFields DEF check, At
  <2>2. pointer(c) # Null /\ frames[c].fn # "svm_free"
    BY <2>1, FrameFacts DEF GoodFrame, NewFrame, FreeFrame, CallFrame, pointer
  <2>. QED
    BY <1>3, <2>1, <2>2, ReturnRefines, ProceedRefines DEF check, raise
<1>4. CASE execute_returned(c)
  <2>1. frames[c] # Idle /\ frames[c].at = "returned"
    BY <1>4, IdleFields DEF execute_returned, At
  <2>2. CASE raise(c)
    BY <2>1, <2>2, ReturnRefines DEF raise
  <2>3. CASE moves(c, "copied") /\ UNCHANGED boxes
    <3>1. PICK f \in Frame : f = frames[c]
      BY <2>1, FrameFacts
    <3>2. PICK g : g = [f EXCEPT !.at = "copied"]
      OBVIOUS
    <3>3. g.at = "copied" /\ g.fn = f.fn /\ g.obj = f.obj /\ g.code = f.code /\ g.ptr = f.ptr
      BY <3>2 DEF Frame
    <3>4. g # Idle
      BY <3>3, IdleFields
    <3>5. frames' = [frames EXCEPT ![c] = g]
      BY <2>3, <3>1, <3>2 DEF IInv, TypeOK, moves
    <3>6. Stands(g) = Stands(frames[c])
      BY <2>1, <3>1, <3>3, <3>4, StandsFacts
    <3>. QED
      BY <2>1, <2>3, <3>1, <3>3, <3>4, <3>5, <3>6, GoesOnRefines
  <2>. QED
    BY <1>4, <2>2, <2>3 DEF execute_returned
<1>5. CASE quasar_result_free(c)
  BY <1>5, ReturnRefines DEF quasar_result_free, At
<1>. QED
  BY <1>1, <1>2, <1>3, <1>4, <1>5 DEF Client

(* What a thread begins is the begin of a call. *)
LEMMA StartRefines ==
  ASSUME IInv, IInv', NEW t \in Threads, NEW o \in Objects, Start(t, o)
  PROVE  M!Next
<1>1. PICK c \in Contexts : c = <<t, "method">>
  BY DEF Contexts
<1>2. frames[c] = Idle
  BY <1>1 DEF Start, construct, method, free, MayCall, AtRest
<1>3. PICK ob \in Object : ob = objects[o] /\ GoodObject(ob)
  BY DEF IInv, TypeOK, Shaped
<1>4. ASSUME NEW wanted, construct(t, o, wanted) PROVE M!Next
  <2>1. ob.stage = "unborn" /\ ob.ptr = Null
    BY <1>3, <1>4 DEF construct, GoodObject
  <2>2. Unused(o)
    BY <1>3, <2>1, NobodysObject
  <2>3. MachineOf(o) = Null
    BY <1>3, <2>1, <2>2, WhoHasMachine DEF MachinesMissing
  <2>. QED
    BY <1>1, <1>2, <1>4, <2>2, <2>3, EnterRefines DEF construct
<1>5. ASSUME MayCall(t, o), NEW fn, fn # "svm_new", NEW p, NEW program,
             enter(c, fn, o, p, program, {}), UNCHANGED boxes
      PROVE  M!Next
  <2>1. Unused(o) /\ ob.ptr # Null /\ ~ob.freed
    BY <1>3, <1>5 DEF MayCall, GoodObject
  <2>2. MachineOf(o) # Null
    BY <1>3, <2>1, WhoHasMachine DEF MachinesMissing
  <2>. QED
    BY <1>2, <1>5, <2>1, <2>2, EnterRefines
<1>6. ASSUME NEW fn, fn # "svm_new", NEW program, method(t, o, fn, program) PROVE M!Next
  BY <1>1, <1>5, <1>6 DEF method
<1>7. CASE free(t, o)
  BY <1>1, <1>5, <1>7 DEF free
<1>. QED
  BY <1>4, <1>6, <1>7 DEF Start

(* A step that changes neither frames nor boxes is invisible. *)
LEMMA ObjectRefines ==
  ASSUME IInv, IInv', UNCHANGED <<boxes, frames>>
  PROVE  UNCHANGED M!machinesVars
<1>1. \A o \in Objects : Unused(o)' = Unused(o) /\ FrameOf(o)' = FrameOf(o)
  BY DEF Unused, FrameOf
<1>. QED
  BY <1>1, SameMachines DEF M!machinesVars, calls

(* The collector begins to free an object's machine, or finds it freed. *)
LEMMA FinalizeRefines ==
  ASSUME IInv, IInv', NEW t \in Threads, NEW o \in Objects, finalize(t, o)
  PROVE  M!Next \/ UNCHANGED M!machinesVars
<1>1. PICK c \in Contexts : c = <<t, "finalizer">>
  BY DEF Contexts
<1>2. PICK ob \in Object : ob = objects[o] /\ GoodObject(ob) /\ ob.stage = "garbage"
  BY DEF IInv, TypeOK, Shaped, finalize
<1>3. Unused(o)
  BY <1>2, NobodysObject
<1>4. CASE ob.freed
  BY <1>2, <1>4, ObjectRefines DEF finalize
<1>5. CASE ~ob.freed
  <2>1. MachineOf(o) # Null
    BY <1>2, <1>3, <1>5, WhoHasMachine DEF MachinesMissing, GoodObject
  <2>2. frames[c] = Idle /\ enter(c, "svm_free", o, ob.ptr, Null, {}) /\ UNCHANGED boxes
    BY <1>1, <1>2, <1>5 DEF finalize, begin_finalizer, MayFinalize
  <2>. QED
    BY <1>3, <2>1, <2>2, EnterRefines
<1>. QED
  BY <1>4, <1>5

(* Every step of the interface and its clients is one of private machines, *)
(* or invisible.                                                           *)
LEMMA NextRefines == IInv /\ IInv' /\ [Next]_vars => [M!Next]_(M!machinesVars)
<1> SUFFICES ASSUME IInv, IInv', [Next]_vars PROVE M!Next \/ UNCHANGED M!machinesVars
  OBVIOUS
<1>1. ASSUME NEW t \in Threads, Step(t) PROVE M!Next \/ UNCHANGED M!machinesVars
  <2>1. PICK level \in {"method", "finalizer"} : Library(<<t, level>>) \/ Client(<<t, level>>)
    BY <1>1 DEF Step
  <2>2. PICK c \in Contexts : c = <<t, level>>
    BY DEF Contexts
  <2>. QED
    BY <2>1, <2>2, LibraryRefines, ClientRefines
<1>2. ASSUME NEW t \in Threads, NEW o \in Objects, Start(t, o) \/ finalize(t, o)
      PROVE  M!Next \/ UNCHANGED M!machinesVars
  BY <1>2, StartRefines, FinalizeRefines
<1>3. ASSUME NEW o \in Objects, drop(o) PROVE UNCHANGED M!machinesVars
  BY <1>3, ObjectRefines DEF drop
<1>4. CASE UNCHANGED vars
  BY <1>4, ObjectRefines DEF vars
<1>. QED
  BY <1>1, <1>2, <1>3, <1>4 DEF Next

(* The interface gives every object a private machine with atomic calls,   *)
(* for any number of threads, objects and addresses and any order of their *)
(* calls, panics and finalizers (ffi.rs under base.ts and __init__.py).    *)
THEOREM Refinement == Spec => ImplementsMachines
BY InitInv, NextInv, MachinesInit, NextRefines, PTL DEF Spec, ImplementsMachines, M!Spec
=============================================================================
