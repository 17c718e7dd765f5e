----------------------------- MODULE WireProofs -----------------------------
(* Theorems about Wire, for messages with any number of fields, elements   *)
(* and bytes, and for any damage of a request.                             *)
EXTENDS Wire, TLAPS, SequenceTheorems, WellFoundedInduction

(***************************************************************************)
(* Fields are nested at most twice: lists of lists or options of fields.   *)
(***************************************************************************)
FieldNames ==
  {"instructions", "program_id", "data", "accounts", "pubkey", "is_signer", "is_writable",
   "owner", "lamports", "executable", "account_index", "mint", "decimals", "amount",
   "ui_amount", "status", "compute_units_consumed", "execution_time_us", "return_data",
   "logs", "log", "error_message", "pre_balances", "post_balances", "balance",
   "pre_token_balances", "post_token_balances", "execution_trace", "stack_depth", "result"}

Nested(S) == [name : FieldNames, kind : {"fixed", "bool", "bytes", "list", "option"},
              width : Nat \ {0}, of : Seq(S)]

Leaf   == Nested({})
Inner  == Nested(Leaf)
Fields == Nested(Inner)

(* A field of an element is a field. *)
LEMMA FieldsNested ==
  /\ Leaf \subseteq Inner /\ Inner \subseteq Fields
  /\ \A f \in Fields : f.of \in Seq(Fields)
<1>1. ASSUME NEW S, NEW R, S \subseteq R PROVE Nested(S) \subseteq Nested(R)
  <2>1. Seq(S) \subseteq Seq(R)
    BY <1>1, SeqMonotonic
  <2>. QED
    BY <2>1 DEF Nested
<1>2. Leaf \subseteq Inner
  BY <1>1 DEF Leaf, Inner
<1>3. Inner \subseteq Fields
  BY <1>1, <1>2 DEF Inner, Fields
<1>4. Seq(Inner) \subseteq Seq(Fields)
  BY <1>3, SeqMonotonic
<1>. QED
  BY <1>2, <1>3, <1>4 DEF Fields, Nested

(* The fields that are not lists or options are leaves. *)
LEMMA Leaves ==
  ASSUME NEW name \in FieldNames
  PROVE  /\ Key(name) \in Leaf /\ U64(name) \in Leaf /\ U32(name) \in Leaf
         /\ U8(name) \in Leaf /\ Bool(name) \in Leaf /\ LengthPrefixed(name) \in Leaf
<1>1. <<>> \in Seq({})
  BY EmptySeq
<1>2. {KeyWidth, U64Width, U32Width, 1} \subseteq Nat \ {0}
  BY ConstantsAssumption
<1>. QED
  BY <1>1, <1>2
     DEF Leaf, Nested, Field, Key, U64, U32, U8, Bool, LengthPrefixed

(* A list or an option of such fields is a field. *)
LEMMA Composites ==
  ASSUME NEW S, NEW name \in FieldNames, NEW of \in Seq(S)
  PROVE  List(name, of) \in Nested(S) /\ Option(name, of) \in Nested(S)
BY ConstantsAssumption DEF Nested, Field, List, Option

-----------------------------------------------------------------------------
(* Who exchanges what. *)
LEMMA FormatsAre ==
  \A f \in Formats :
    f \in {<<"python", "instructions">>, <<"python", "accounts">>, <<"python", "result">>,
          <<"node", "instructions">>, <<"node", "accounts">>, <<"node", "result">>}
BY ConstantsAssumption

(* Both ends walk the same fields: the readers of requests and of results  *)
(* have the fields of their counterparts in their order.                   *)
LEMMA EndsAgree == \A f \in Formats : written(f) = expected(f)
<1>1. /\ read_instructions = serialize_instructions
      /\ read_instructions = serializeInstructions
  BY DEF read_instructions, serialize_instructions, serializeInstructions
<1>2. /\ read_accounts = serialize_accounts
      /\ read_accounts = serializeAccounts
  BY DEF read_accounts, serialize_accounts, serializeAccounts
<1>3. deserialize_result = serialize_result
  BY DEF deserialize_result, serialize_result, token_balance, write_token_balance
<1>4. deserializeResult = serialize_result
  BY DEF deserializeResult, serialize_result, read_token_balance, write_token_balance
<1>. QED
  BY <1>1, <1>2, <1>3, <1>4, FormatsAre DEF written, expected

(* What is written are fields. *)
LEMMA WrittenFields == \A f \in Formats : written(f) \in Seq(Fields)
<1>. USE DEF FieldNames
<1>1. \A s \in Seq(Leaf) : s \in Seq(Inner)
  BY FieldsNested, SeqMonotonic
<1>2. \A s \in Seq(Inner) : s \in Seq(Fields)
  BY FieldsNested, SeqMonotonic
<1>. DEFINE metas == <<Key("pubkey"), Bool("is_signer"), Bool("is_writable")>>
<1>4. metas \in Seq(Leaf)
  BY Leaves
<1>5. List("accounts", metas) \in Inner
  BY <1>4, Composites DEF Inner
<1>. HIDE DEF metas
<1>6. serialize_instructions \in Seq(Fields)
  <2>1. <<Key("program_id"), LengthPrefixed("data"), List("accounts", metas)>> \in Seq(Inner)
    BY <1>5, Leaves, FieldsNested
  <2>2. List("instructions", <<Key("program_id"), LengthPrefixed("data"), List("accounts", metas)>>)
          \in Fields
    BY <2>1, Composites DEF Fields
  <2>. QED
    BY <2>2 DEF serialize_instructions, metas
<1>. DEFINE account == <<Key("pubkey"), Key("owner"), U64("lamports"), LengthPrefixed("data"),
                          Bool("executable")>>
<1>8. List("accounts", account) \in Inner
  <2>1. account \in Seq(Leaf)
    BY Leaves
  <2>. QED
    BY <2>1, Composites DEF Inner
<1>. HIDE DEF account
<1>9. serialize_accounts \in Seq(Fields)
  BY <1>8, FieldsNested DEF serialize_accounts, account
<1>10. write_token_balance \in Seq(Inner)
  <2>1. <<LengthPrefixed("owner")>> \in Seq(Leaf) /\ <<U64("ui_amount")>> \in Seq(Leaf)
    BY Leaves
  <2>2. Option("owner", <<LengthPrefixed("owner")>>) \in Inner
    BY <2>1, Composites DEF Inner
  <2>3. Option("ui_amount", <<U64("ui_amount")>>) \in Inner
    BY <2>1, Composites DEF Inner
  <2>. QED
    BY <2>2, <2>3, Leaves, FieldsNested DEF write_token_balance
<1>. DEFINE frame == <<U8("stack_depth"), Key("program_id"), List("accounts", metas),
                         LengthPrefixed("data"), U64("compute_units_consumed"), U64("result")>>
<1>12. List("execution_trace", frame) \in Fields
  <2>1. frame \in Seq(Inner)
    BY <1>5, Leaves, FieldsNested
  <2>. QED
    BY <2>1, Composites DEF Fields
<1>13. /\ List("logs", <<LengthPrefixed("log")>>) \in Fields
       /\ List("pre_balances", <<U64("balance")>>) \in Fields
       /\ List("post_balances", <<U64("balance")>>) \in Fields
       /\ List("pre_token_balances", write_token_balance) \in Fields
       /\ List("post_token_balances", write_token_balance) \in Fields
  <2>1. <<LengthPrefixed("log")>> \in Seq(Leaf) /\ <<U64("balance")>> \in Seq(Leaf)
    BY Leaves
  <2>. QED
    BY <2>1, <1>1, <1>10, Composites DEF Fields
<1>. HIDE DEF frame
<1>14. serialize_result \in Seq(Fields)
  <2>1. \A name \in FieldNames : /\ Key(name) \in Fields /\ U64(name) \in Fields /\ U32(name) \in Fields
                             /\ U8(name) \in Fields /\ LengthPrefixed(name) \in Fields
    BY Leaves, FieldsNested
  <2>2. List("accounts", account) \in Fields
    BY <1>8, FieldsNested
  <2>3. serialize_result =
          <<U32("status"), U64("compute_units_consumed"), U64("execution_time_us"),
            LengthPrefixed("return_data"), List("accounts", account),
            List("logs", <<LengthPrefixed("log")>>), LengthPrefixed("error_message"),
            List("pre_balances", <<U64("balance")>>), List("post_balances", <<U64("balance")>>),
            List("pre_token_balances", write_token_balance),
            List("post_token_balances", write_token_balance), List("execution_trace", frame)>>
    BY DEF serialize_result, account, frame, metas
  <2>. QED
    BY <2>1, <2>2, <2>3, <1>12, <1>13
<1>15. serializeInstructions = serialize_instructions /\ serializeAccounts = serialize_accounts
  BY DEF serializeInstructions, serialize_instructions, serializeAccounts, serialize_accounts
<1>. QED
  BY <1>6, <1>9, <1>14, <1>15, FormatsAre DEF written

-----------------------------------------------------------------------------
(***************************************************************************)
(* Induction over the natural numbers, for a set of numbers.               *)
(***************************************************************************)
LEMMA NaturalsInSet ==
  ASSUME NEW S, 0 \in S, \A n \in S \cap Nat : n + 1 \in S
  PROVE  Nat \subseteq S
<1>. DEFINE T == Nat \ S
<1>1. ASSUME T # {} PROVE FALSE
  <2>. DEFINE R == OpToRel(<, Nat)
  <2>1. IsWellFoundedOn(R, Nat)
    BY NatLessThanWellFounded
  <2>2. R = {p \in Nat \X Nat : p[1] < p[2]}
    BY Zenon DEF OpToRel
  <2>3. T \subseteq Nat
    OBVIOUS
  <2>. HIDE DEF R
  <2>4. PICK n \in T : \A m \in T : ~(<<m, n>> \in R)
    <3>. HIDE DEF T
    <3>. QED
      BY <1>1, <2>1, <2>3, WFMin
  <2>5. \A m \in T : ~(m < n)
    BY <2>2, <2>4
  <2>6. n # 0 /\ n - 1 \in Nat /\ n - 1 \notin T
    BY <2>5
  <2>7. n - 1 \in S \cap Nat
    BY <2>6
  <2>8. (n - 1) + 1 \in S
    BY <2>7
  <2>. QED
    BY <2>6, <2>8
<1>. QED
  BY <1>1

(* A list of equal sequences, one after the other, is a sequence. *)
LEMMA FlattenType ==
  ASSUME NEW S, NEW s \in Seq(S), NEW n \in Nat
  PROVE  FlattenSeq([i \in 1 .. n |-> s]) \in Seq(S)
<1>. DEFINE Flattened(k, f) == f = [i \in 1 .. k |-> IF i = 1 THEN s ELSE f[i - 1] \o s]
            D == {k \in Nat : \E f : Flattened(k, f)}
<1>1. 0 \in D
  <2>1. Flattened(0, [i \in 1 .. 0 |-> s])
    OBVIOUS
  <2>. QED
    BY <2>1
<1>2. ASSUME NEW k \in D \cap Nat PROVE k + 1 \in D
  <2>1. PICK f : Flattened(k, f)
    OBVIOUS
  <2>. DEFINE last == IF k = 0 THEN s ELSE f[k] \o s
              g == [i \in 1 .. k + 1 |-> IF i = k + 1 THEN last ELSE f[i]]
  <2>4. ASSUME NEW i \in 1 .. k + 1 PROVE g[i] = IF i = 1 THEN s ELSE g[i - 1] \o s
    <3>1. CASE i = k + 1
      <4>1. g[i] = last
        BY <3>1
      <4>2. CASE k = 0
        BY <3>1, <4>1, <4>2
      <4>3. CASE k # 0
        <5>1. i # 1 /\ i - 1 = k /\ g[k] = f[k]
          BY <3>1, <4>3
        <5>. QED
          BY <4>1, <4>3, <5>1
      <4>. QED
        BY <4>2, <4>3
    <3>2. CASE i \in 1 .. k
      <4>1. f[i] = IF i = 1 THEN s ELSE f[i - 1] \o s
        BY <2>1, <3>2
      <4>2. g[i] = f[i] /\ (i # 1 => g[i - 1] = f[i - 1])
        BY <3>2
      <4>. QED
        BY <4>1, <4>2
    <3>. QED
      BY <3>1, <3>2
  <2>5. Flattened(k + 1, g)
    BY <2>4
  <2>6. k + 1 \in Nat
    OBVIOUS
  <2>. HIDE DEF g
  <2>. QED
    BY <2>5, <2>6
<1>3. n \in D
  <2>. HIDE DEF D
  <2>. QED
    BY <1>1, <1>2, NaturalsInSet
<1>4. CASE n = 0
  <2>1. [i \in 1 .. n |-> s] = <<>>
    BY <1>4
  <2>2. FlattenSeq([i \in 1 .. n |-> s]) = [i \in 1 .. n |-> s]
    BY <2>1 DEF FlattenSeq
  <2>. QED
    BY <2>1, <2>2
<1>5. CASE n # 0
  <2>. DEFINE seqs == [i \in 1 .. n |-> s]
              F == CHOOSE f : f = [i \in 1 .. n |-> IF i = 1 THEN s ELSE f[i - 1] \o s]
  <2>1. Len(seqs) = n /\ \A i \in 1 .. n : seqs[i] = s
    OBVIOUS
  <2>2. FlattenSeq(seqs) = (CHOOSE f : f = [i \in 1 .. n |-> IF i = 1 THEN s ELSE f[i - 1] \o s])[n]
    <3>1. FlattenSeq(seqs) =
            (CHOOSE f : f = [i \in 1 .. Len(seqs) |->
                               IF i = 1 THEN seqs[i] ELSE f[i - 1] \o seqs[i]])[Len(seqs)]
      <4>. HIDE DEF seqs
      <4>. QED
        BY <1>5, <2>1 DEF FlattenSeq
    <3>2. \A f : [i \in 1 .. Len(seqs) |-> IF i = 1 THEN seqs[i] ELSE f[i - 1] \o seqs[i]]
                   = [i \in 1 .. n |-> IF i = 1 THEN s ELSE f[i - 1] \o s]
      BY <2>1
    <3>3. (CHOOSE f : f = [i \in 1 .. Len(seqs) |->
                             IF i = 1 THEN seqs[i] ELSE f[i - 1] \o seqs[i]])
            = (CHOOSE f : f = [i \in 1 .. n |-> IF i = 1 THEN s ELSE f[i - 1] \o s])
      BY <3>2, Zenon
    <3>. QED
      BY <3>1, <3>3, <2>1, Zenon
  <2>3. \E f : Flattened(n, f)
    BY <1>3
  <2>4. Flattened(n, F)
    BY <2>3
  <2>. DEFINE E == {k \in Nat : k \in 1 .. n => F[k] \in Seq(S)}
  <2>5. 0 \in E
    OBVIOUS
  <2>6. ASSUME NEW k \in E \cap Nat PROVE k + 1 \in E
    <3>1. CASE k + 1 \in 1 .. n
      <4>1. F[k + 1] = IF k + 1 = 1 THEN s ELSE F[(k + 1) - 1] \o s
        <5>. HIDE DEF F
        <5>. QED
          BY <2>4, <3>1
      <4>2. k = 0 \/ k \in 1 .. n
        BY <3>1
      <4>3. (k + 1) - 1 = k
        OBVIOUS
      <4>. HIDE DEF F
      <4>4. F[k + 1] \in Seq(S)
        BY <4>1, <4>2, <4>3
      <4>. QED
        BY <4>4
    <3>2. CASE k + 1 \notin 1 .. n
      <4>. HIDE DEF F
      <4>. QED
        BY <3>2
    <3>. QED
      BY <3>1, <3>2
  <2>7. n \in E
    <3>. HIDE DEF E
    <3>. QED
      BY <2>5, <2>6, NaturalsInSet
  <2>. HIDE DEF F
  <2>8. F[n] \in Seq(S)
    BY <2>7, <1>5
  <2>. QED
    BY <2>2, <2>8 DEF F
<1>. QED
  BY <1>4, <1>5

(* What is left to walk after a field are fields. *)
LEMMA RestType ==
  ASSUME NEW field \in Fields, NEW n \in Nat, NEW more \in Seq(Fields)
  PROVE  rest(field, n, more) \in Seq(Fields)
<1>1. field.of \in Seq(Fields)
  BY FieldsNested
<1>2. FlattenSeq([i \in 1 .. n |-> field.of]) \in Seq(Fields)
  BY <1>1, FlattenType
<1>3. FlattenSeq([i \in 1 .. n |-> field.of]) \o more \in Seq(Fields)
  BY <1>2, ConcatProperties
<1>4. field.of \o more \in Seq(Fields)
  BY <1>1, ConcatProperties
<1>. QED
  BY <1>3, <1>4 DEF rest

(* The length and the elements of three sequences, one after the other. *)
LEMMA Joined ==
  ASSUME NEW b \in Seq(Nat), NEW v \in Seq(Nat), NEW z \in Seq(Nat), NEW c, c = (b \o v) \o z
  PROVE  /\ c \in Seq(Nat) /\ Len(c) = Len(b) + Len(v) + Len(z)
         /\ \A i \in 1 .. Len(b) : c[i] = b[i]
         /\ Len(v) # 0 => c[Len(b) + 1] = v[1]
OBVIOUS

(* The bytes that a field announces behind itself. *)
Body(field, n) == IF field.kind = "bytes" THEN n ELSE 0

(* The buffer with a field behind it. *)
Extended(b, field, n) ==
  b \o le_bytes(n, field.width) \o (IF field.kind = "bytes" THEN Zeros(n) ELSE <<>>)

(* A field takes its width and these bytes; its first byte is its value,   *)
(* and the bytes in front of it stay.                                      *)
Carries(c, b, field, n) ==
  /\ c \in Seq(Nat) /\ Len(c) = Len(b) + field.width + Body(field, n)
  /\ c[Len(b) + 1] = n /\ \A j \in 1 .. Len(b) : c[j] = b[j]

LEMMA BytesOfField ==
  ASSUME NEW b \in Seq(Nat), NEW field \in Fields, NEW n \in Nat
  PROVE  Carries(Extended(b, field, n), b, field, n)
<1>. SUFFICES ASSUME NEW c, c = Extended(b, field, n) PROVE Carries(c, b, field, n)
  OBVIOUS
<1>1. field.width \in Nat \ {0}
  BY DEF Fields, Nested
<1>. DEFINE w == field.width
            zeros == IF field.kind = "bytes" THEN Zeros(n) ELSE <<>>
            value == le_bytes(n, w)
<1>2. \A k \in Nat : Zeros(k) \in Seq(Nat) /\ Len(Zeros(k)) = k
  BY DEF Zeros
<1>3. zeros \in Seq(Nat) /\ Len(zeros) = Body(field, n)
  BY <1>2 DEF Body
<1>4. value \in Seq(Nat) /\ Len(value) = w /\ value[1] = n
  <2>1. w - 1 \in Nat
    BY <1>1
  <2>2. Zeros(w - 1) \in Seq(Nat) /\ Len(Zeros(w - 1)) = w - 1
    BY <2>1, <1>2
  <2>3. <<n>> \in Seq(Nat) /\ Len(<<n>>) = 1 /\ <<n>>[1] = n
    OBVIOUS
  <2>4. value = <<n>> \o Zeros(w - 1)
    BY DEF le_bytes
  <2>. HIDE DEF value, w
  <2>5. /\ <<n>> \o Zeros(w - 1) \in Seq(Nat)
        /\ Len(<<n>> \o Zeros(w - 1)) = 1 + (w - 1)
        /\ (<<n>> \o Zeros(w - 1))[1] = n
    BY <2>2, <2>3
  <2>. QED
    BY <1>1, <2>1, <2>4, <2>5 DEF w
<1>5. c = (b \o value) \o zeros
  BY DEF Extended
<1>6. w = field.width
  OBVIOUS
<1>. HIDE DEF zeros, value, w
<1>7. /\ c \in Seq(Nat) /\ Len(c) = Len(b) + Len(value) + Len(zeros)
      /\ \A i \in 1 .. Len(b) : c[i] = b[i]
      /\ Len(value) # 0 => c[Len(b) + 1] = value[1]
  <2>1. value \in Seq(Nat) /\ zeros \in Seq(Nat)
    BY <1>3, <1>4
  <2>. QED
    BY <1>5, <2>1, Joined
<1>. QED
  BY <1>1, <1>3, <1>4, <1>6, <1>7 DEF Carries

-----------------------------------------------------------------------------
(***************************************************************************)
(* The inductive invariant. T and P are what a flawless reader would have  *)
(* before it and behind it after each field of the message: the fields     *)
(* still to walk, and its place in the buffer.                             *)
(***************************************************************************)
Types ==
  /\ format \in Formats
  /\ phase \in {"writing", "reading", "accepted", "rejected"}
  /\ intact \in BOOLEAN
  /\ buf \in Seq(Nat)
  /\ sent \in Seq(FieldNames \X Nat) /\ got \in Seq(FieldNames \X Nat)
  /\ todo \in Seq(Fields)
  /\ pos \in Nat /\ pos <= Len(buf) /\ Len(got) <= pos

Walk(T, P) ==
  /\ T \in [0 .. Len(sent) -> Seq(Fields)]
  /\ P \in [0 .. Len(sent) -> Nat]
  /\ T[0] = written(format) /\ P[0] = 0
  /\ \A i \in 1 .. Len(sent) :
       /\ T[i - 1] # <<>>
       /\ sent[i] = <<Head(T[i - 1]).name, sent[i][2]>>
       /\ T[i] = rest(Head(T[i - 1]), sent[i][2], Tail(T[i - 1]))
       /\ P[i] = P[i - 1] + Head(T[i - 1]).width + Body(Head(T[i - 1]), sent[i][2])
  /\ \A i \in 0 .. Len(sent) : P[i] <= P[Len(sent)]

Buffered(P) ==
  \A i \in 1 .. Len(sent) : P[i - 1] < Len(buf) => buf[P[i - 1] + 1] = sent[i][2]

Writing(T, P) ==
  /\ todo = T[Len(sent)] /\ Len(buf) = P[Len(sent)]
  /\ intact /\ pos = 0 /\ got = <<>>

Reading(T, P) ==
  /\ T[Len(sent)] = <<>>
  /\ intact => Len(buf) = P[Len(sent)]
  /\ ~intact => IsRequest(format) /\ Len(buf) # P[Len(sent)]
  /\ Len(got) <= Len(sent) /\ \A i \in 1 .. Len(got) : got[i] = sent[i]
  /\ pos = P[Len(got)] /\ todo = T[Len(got)]
  /\ phase = "accepted" => todo = <<>> /\ (IsRequest(format) => pos = Len(buf))
  /\ phase = "rejected" => ~intact

Follows(T, P) ==
  /\ Walk(T, P)
  /\ Buffered(P)
  /\ IF phase = "writing" THEN Writing(T, P) ELSE Reading(T, P)

IInv == Types /\ \E T, P : Follows(T, P)

-----------------------------------------------------------------------------
(* A message that is just begun. *)
LEMMA Begun == Init => IInv
<1>. SUFFICES ASSUME Init PROVE IInv
  OBVIOUS
<1>. USE DEF Init
<1>1. Types
  BY WrittenFields DEF Types
<1>. DEFINE T == [i \in 0 .. 0 |-> written(format)]
            P == [i \in 0 .. 0 |-> 0]
<1>2. Walk(T, P)
  BY WrittenFields DEF Walk
<1>3. Buffered(P) /\ Writing(T, P)
  BY DEF Buffered, Writing
<1>. QED
  BY <1>1, <1>2, <1>3 DEF IInv, Follows

(* The fields that come next are typed. *)
LEMMA HeadOfTodo ==
  ASSUME NEW fields \in Seq(Fields), fields # <<>>
  PROVE  /\ Head(fields) \in Fields /\ Tail(fields) \in Seq(Fields)
         /\ Head(fields).width \in Nat \ {0} /\ Head(fields).name \in FieldNames
         /\ \A n \in Nat : Body(Head(fields), n) \in Nat
<1>1. Head(fields) \in Fields /\ Tail(fields) \in Seq(Fields)
  BY HeadTailProperties
<1>2. \A f \in Fields : f.width \in Nat \ {0} /\ f.name \in FieldNames
  BY DEF Fields, Nested
<1>. QED
  BY <1>1, <1>2 DEF Body

(* A flawless reader moves on with every field, and never beyond the message. *)
LEMMA WalkGrows ==
  ASSUME Types, NEW T, NEW P, Walk(T, P), NEW i \in 1 .. Len(sent)
  PROVE  /\ Len(sent) \in Nat /\ i - 1 \in 0 .. Len(sent) /\ i \in 0 .. Len(sent)
         /\ T[i - 1] \in Seq(Fields) /\ T[i - 1] # <<>> /\ Head(T[i - 1]) \in Fields
         /\ P[i - 1] \in Nat /\ P[i] \in Nat /\ P[Len(sent)] \in Nat
         /\ Head(T[i - 1]).width \in Nat \ {0} /\ sent[i][2] \in Nat
         /\ Body(Head(T[i - 1]), sent[i][2]) \in Nat
         /\ P[i] = P[i - 1] + Head(T[i - 1]).width + Body(Head(T[i - 1]), sent[i][2])
         /\ P[i - 1] < P[i] /\ P[i] <= P[Len(sent)]
<1>1. Len(sent) \in Nat /\ sent[i] \in FieldNames \X Nat
  BY LenProperties DEF Types
<1>2. i - 1 \in 0 .. Len(sent) /\ i \in 0 .. Len(sent) /\ Len(sent) \in 0 .. Len(sent)
  BY <1>1
<1>3. /\ T[i - 1] \in Seq(Fields) /\ T[i - 1] # <<>>
      /\ P[i - 1] \in Nat /\ P[i] \in Nat /\ P[Len(sent)] \in Nat /\ P[i] <= P[Len(sent)]
      /\ P[i] = P[i - 1] + Head(T[i - 1]).width + Body(Head(T[i - 1]), sent[i][2])
  BY <1>2 DEF Walk
<1>4. sent[i][2] \in Nat
  BY <1>1
<1>5. /\ Head(T[i - 1]) \in Fields /\ Head(T[i - 1]).width \in Nat \ {0}
      /\ Body(Head(T[i - 1]), sent[i][2]) \in Nat
  BY <1>3, <1>4, HeadOfTodo
<1>6. P[i - 1] < P[i]
  <2>1. PICK a, b, w, body : /\ a = P[i - 1] /\ b = P[i] /\ w = Head(T[i - 1]).width
                             /\ body = Body(Head(T[i - 1]), sent[i][2])
    OBVIOUS
  <2>2. a \in Nat /\ w \in Nat \ {0} /\ body \in Nat /\ b = a + w + body
    BY <1>3, <1>5, <2>1
  <2>3. a < b
    BY ONLY <2>2
  <2>. QED
    BY <2>1, <2>3
<1>. QED
  BY <1>1, <1>2, <1>3, <1>4, <1>5, <1>6

LEMMA WriteStep ==
  ASSUME IInv, NEW n, write_field(n)
  PROVE  IInv'
<1>. DEFINE field == Head(todo)
            L == Len(sent)
<1>1. PICK T, P : Follows(T, P)
  BY DEF IInv
<1>2. phase = "writing" /\ todo # <<>> /\ Types
  BY DEF write_field, IInv
<1>3. /\ field \in Fields /\ Tail(todo) \in Seq(Fields) /\ field.width \in Nat \ {0}
      /\ field.name \in FieldNames
  BY <1>2, HeadOfTodo DEF Types
<1>4. n \in Nat
  <2>1. n \in values(field)
    BY DEF write_field
  <2>2. Lengths[format] \subseteq Nat /\ MaxCount[format] \in Nat
    BY <1>2, ConstantsAssumption DEF Types
  <2>3. field.kind \in {"fixed", "bool", "bytes", "list", "option"}
    BY <1>3 DEF Fields, Nested
  <2>. HIDE DEF field
  <2>. QED
    BY <2>1, <2>2, <2>3 DEF values
<1>5. todo' \in Seq(Fields)
  BY <1>3, <1>4, RestType DEF write_field
<1>6. /\ buf' \in Seq(Nat) /\ Len(buf') = Len(buf) + field.width + Body(field, n)
      /\ buf'[Len(buf) + 1] = n /\ \A j \in 1 .. Len(buf) : buf'[j] = buf[j]
  <2>1. buf' = Extended(buf, field, n)
    BY DEF write_field, Extended
  <2>2. buf \in Seq(Nat)
    BY <1>2 DEF Types
  <2>3. field \in Fields
    BY <1>3
  <2>. HIDE DEF field
  <2>4. Carries(buf', buf, field, n)
    BY <1>4, <2>1, <2>2, <2>3, BytesOfField
  <2>. QED
    BY <2>4 DEF Carries
<1>7. /\ sent' = Append(sent, <<field.name, n>>) /\ sent' \in Seq(FieldNames \X Nat)
      /\ Len(sent') = L + 1 /\ sent'[L + 1] = <<field.name, n>>
      /\ \A i \in 1 .. L : sent'[i] = sent[i]
  BY <1>2, <1>3, <1>4, AppendProperties DEF write_field, Types
<1>8. /\ UNCHANGED <<format, phase, intact, pos, got>>
      /\ todo' = rest(field, n, Tail(todo))
  BY DEF write_field
<1>9. Walk(T, P) /\ Buffered(P) /\ Writing(T, P)
  BY <1>1, <1>2 DEF Follows
<1>10. Body(field, n) \in Nat /\ L \in Nat /\ Len(buf) \in Nat
  BY <1>2, <1>3, <1>4, LenProperties DEF Body, Types
<1>11. Types'
  BY <1>2, <1>5, <1>6, <1>7, <1>8, <1>9, <1>10 DEF Types, Writing
<1>. HIDE DEF field
<1>20. PICK TT, PP : /\ TT = [i \in 0 .. L + 1 |-> IF i = L + 1 THEN todo' ELSE T[i]]
                     /\ PP = [i \in 0 .. L + 1 |-> IF i = L + 1 THEN Len(buf') ELSE P[i]]
  OBVIOUS
<1>12. /\ T \in [0 .. L -> Seq(Fields)] /\ P \in [0 .. L -> Nat]
       /\ todo = T[L] /\ Len(buf) = P[L]
       /\ \A i \in 0 .. L : P[i] <= P[L]
  BY <1>9 DEF Walk, Writing
<1>13. TT \in [0 .. L + 1 -> Seq(Fields)] /\ PP \in [0 .. L + 1 -> Nat]
  BY <1>5, <1>6, <1>10, <1>12, <1>20, LenProperties
<1>14. /\ \A i \in 0 .. L : TT[i] = T[i] /\ PP[i] = P[i]
       /\ TT[L + 1] = todo' /\ PP[L + 1] = Len(buf')
  BY <1>10, <1>20
<1>15. Walk(TT, PP)'
  <2>1. TT[0] = written(format') /\ PP[0] = 0
    BY <1>8, <1>9, <1>10, <1>14 DEF Walk
  <2>2. ASSUME NEW i \in 1 .. L + 1
        PROVE  /\ TT[i - 1] # <<>>
               /\ sent'[i] = <<Head(TT[i - 1]).name, sent'[i][2]>>
               /\ TT[i] = rest(Head(TT[i - 1]), sent'[i][2], Tail(TT[i - 1]))
               /\ PP[i] = PP[i - 1] + Head(TT[i - 1]).width + Body(Head(TT[i - 1]), sent'[i][2])
    <3>1. CASE i = L + 1
      <4>1. i - 1 = L /\ TT[i - 1] = todo /\ PP[i - 1] = Len(buf)
        BY <3>1, <1>10, <1>12, <1>14
      <4>2. sent'[i] = <<field.name, n>> /\ TT[i] = todo' /\ PP[i] = Len(buf')
        BY <3>1, <1>7, <1>14
      <4>. QED
        BY <4>1, <4>2, <1>2, <1>6, <1>8 DEF field
    <3>2. CASE i \in 1 .. L
      <4>1. /\ i - 1 \in 0 .. L /\ i \in 0 .. L /\ TT[i] = T[i] /\ PP[i] = P[i]
            /\ TT[i - 1] = T[i - 1] /\ PP[i - 1] = P[i - 1]
        BY <3>2, <1>10, <1>14
      <4>2. sent'[i] = sent[i]
        BY <3>2, <1>7
      <4>. QED
        BY <3>2, <4>1, <4>2, <1>9 DEF Walk
    <3>. QED
      BY <3>1, <3>2, <1>10
  <2>3. ASSUME NEW i \in 0 .. L + 1 PROVE PP[i] <= PP[L + 1]
    <3>1. PP[L + 1] = Len(buf) + field.width + Body(field, n)
      BY <1>6, <1>14
    <3>2. CASE i = L + 1
      BY <3>1, <3>2, <1>3, <1>10
    <3>3. CASE i \in 0 .. L
      <4>1. PP[i] = P[i] /\ P[i] <= P[L] /\ P[i] \in Nat /\ P[L] \in Nat
        BY <3>3, <1>10, <1>12, <1>14
      <4>. QED
        BY <3>1, <4>1, <1>3, <1>10, <1>12
    <3>. QED
      BY <3>2, <3>3, <1>10
  <2>. QED
    BY <2>1, <2>2, <2>3, <1>7, <1>13 DEF Walk
<1>16. Buffered(PP)'
  <2>1. ASSUME NEW i \in 1 .. L + 1, PP[i - 1] < Len(buf') PROVE buf'[PP[i - 1] + 1] = sent'[i][2]
    <3>1. CASE i = L + 1
      <4>1. PP[i - 1] = Len(buf)
        BY <3>1, <1>10, <1>12, <1>14
      <4>. QED
        BY <3>1, <4>1, <1>6, <1>7
    <3>2. CASE i \in 1 .. L
      <4>0. i - 1 \in 0 .. L /\ i \in 0 .. L
        BY <3>2, <1>10
      <4>1. /\ i - 1 \in 0 .. L /\ i \in 0 .. L /\ PP[i - 1] = P[i - 1]
            /\ P[i - 1] \in Nat /\ P[i] \in Nat
        BY <4>0, <1>12, <1>14
      <4>2. P[i - 1] < P[i]
        BY <3>2, <1>2, <1>9, WalkGrows
      <4>3. P[i] <= Len(buf)
        BY <4>1, <1>12
      <4>4. P[i - 1] + 1 \in 1 .. Len(buf) /\ P[i - 1] < Len(buf)
        BY <4>1, <4>2, <4>3, <1>10
      <4>5. buf[P[i - 1] + 1] = sent[i][2]
        BY <3>2, <4>4, <1>9 DEF Buffered
      <4>. QED
        BY <3>2, <4>1, <4>4, <4>5, <1>6, <1>7
    <3>. QED
      BY <3>1, <3>2, <1>10
  <2>. QED
    BY <2>1, <1>7 DEF Buffered
<1>17. Writing(TT, PP)'
  BY <1>7, <1>8, <1>9, <1>14 DEF Writing
<1>. QED
  BY <1>2, <1>8, <1>11, <1>15, <1>16, <1>17 DEF IInv, Follows

(* The reader starts where the writer started, whatever became of the buffer. *)
LEMMA HandOverStep ==
  ASSUME IInv, hand_over
  PROVE  IInv'
<1>. DEFINE L == Len(sent)
<1>1. PICK T, P : Follows(T, P)
  BY DEF IInv
<1>2. phase = "writing" /\ todo = <<>> /\ Types
  BY DEF hand_over, IInv
<1>3. Walk(T, P) /\ Buffered(P) /\ Writing(T, P)
  BY <1>1, <1>2 DEF Follows
<1>4. /\ UNCHANGED <<format, sent, pos, got>> /\ phase' = "reading"
      /\ todo' = expected(format)
  BY DEF hand_over
<1>5. Walk(T, P)'
  BY <1>3, <1>4 DEF Walk
<1>6. L \in Nat /\ Len(buf) \in Nat /\ Len(buf) = P[L] /\ intact /\ pos = 0 /\ got = <<>>
      /\ T[L] = <<>> /\ T[0] = written(format) /\ P[0] = 0 /\ format \in Formats
      /\ sent \in Seq(FieldNames \X Nat) /\ buf \in Seq(Nat)
  BY <1>2, <1>3, LenProperties DEF Writing, Walk, Types
<1>7. todo' = T[0] /\ todo' \in Seq(Fields)
  BY <1>4, <1>6, EndsAgree, WrittenFields
<1>8. /\ buf' \in Seq(Nat) /\ intact' \in BOOLEAN
      /\ intact' => Len(buf') = P[L]
      /\ ~intact' => IsRequest(format) /\ Len(buf') # P[L]
      /\ \A j \in 1 .. Len(buf) : j <= Len(buf') => buf'[j] = buf[j]
  <2>1. CASE UNCHANGED <<buf, intact>>
    BY <2>1, <1>6
  <2>2. CASE /\ IsRequest(format) /\ intact' = FALSE
             /\ \E n \in 0 .. Len(buf) - 1 : buf' = SubSeq(buf, 1, n)
    <3>1. PICK n \in 0 .. Len(buf) - 1 : buf' = SubSeq(buf, 1, n)
      BY <2>2
    <3>2. n \in Nat /\ n < Len(buf)
      BY <1>6
    <3>3. buf' \in Seq(Nat) /\ Len(buf') = n /\ \A j \in 1 .. n : buf'[j] = buf[j]
      BY <3>1, <3>2, <1>6
    <3>4. Len(buf') # P[L] /\ \A j \in 1 .. Len(buf) : j <= Len(buf') => buf'[j] = buf[j]
      BY <3>2, <3>3, <1>6
    <3>. QED
      BY <2>2, <3>3, <3>4, Zenon
  <2>3. CASE /\ IsRequest(format) /\ intact' = FALSE
             /\ \E b \in {0, 1} : buf' = Append(buf, b)
    <3>1. PICK b \in {0, 1} : buf' = Append(buf, b)
      BY <2>3
    <3>2. /\ buf' \in Seq(Nat) /\ Len(buf') = Len(buf) + 1
          /\ \A j \in 1 .. Len(buf) : buf'[j] = buf[j]
      BY <3>1, <1>6, AppendProperties
    <3>3. Len(buf') # P[L] /\ \A j \in 1 .. Len(buf) : j <= Len(buf') => buf'[j] = buf[j]
      BY <3>2, <1>6
    <3>. QED
      BY <2>3, <3>2, <3>3, Zenon
  <2>. QED
    BY <2>1, <2>2, <2>3 DEF hand_over
<1>9. Buffered(P)'
  <2>1. ASSUME NEW i \in 1 .. L, P[i - 1] < Len(buf') PROVE buf'[P[i - 1] + 1] = sent[i][2]
    <3>1. P[i - 1] \in Nat /\ P[i] \in Nat /\ P[i - 1] < P[i] /\ P[i] <= P[L]
      BY <1>2, <1>3, WalkGrows
    <3>2. P[i - 1] < Len(buf) /\ P[i - 1] + 1 \in 1 .. Len(buf)
      <4>1. PICK a, b, c : a = P[i - 1] /\ b = P[i] /\ c = P[L]
        OBVIOUS
      <4>2. a \in Nat /\ b \in Nat /\ c \in Nat /\ a < b /\ b <= c /\ c = Len(buf)
        BY <3>1, <4>1, <1>6
      <4>3. a < c /\ a + 1 \in 1 .. c
        BY ONLY <4>2
      <4>. QED
        BY <4>1, <4>2, <4>3
    <3>3. Len(buf') \in Nat
      BY <1>8, LenProperties
    <3>4. P[i - 1] + 1 <= Len(buf')
      BY <2>1, <3>1, <3>3
    <3>5. buf'[P[i - 1] + 1] = buf[P[i - 1] + 1]
      BY <3>2, <3>4, <1>8
    <3>. QED
      BY <3>2, <3>5, <1>3 DEF Buffered
  <2>. QED
    BY <2>1, <1>4 DEF Buffered
<1>10. Types'
  BY <1>2, <1>4, <1>6, <1>7, <1>8, LenProperties DEF Types
<1>11. Reading(T, P)'
  BY <1>4, <1>6, <1>7, <1>8 DEF Reading
<1>. QED
  BY <1>4, <1>5, <1>9, <1>10, <1>11 DEF IInv, Follows

(* Reading a field, of an intact buffer with the value that was written.  *)
LEMMA ReadStep ==
  ASSUME IInv, read_field
  PROVE  IInv'
<1>. DEFINE L == Len(sent)
            k == Len(got)
            field == Head(todo)
            n == buf[pos + 1]
            body == Body(field, n)
            short == ~read_bytes(pos, field.width)
            shorter == ~short /\ ~read_bytes(pos + field.width, body)
<1>1. PICK T, P : Follows(T, P)
  BY DEF IInv
<1>2. phase = "reading" /\ todo # <<>> /\ Types
  BY DEF read_field, IInv
<1>3. Walk(T, P) /\ Buffered(P) /\ Reading(T, P)
  BY <1>1, <1>2 DEF Follows
<1>4. UNCHANGED <<format, sent, buf, intact>>
  BY DEF read_field
<1>5. Walk(T, P)' /\ Buffered(P)'
  BY <1>3, <1>4 DEF Walk, Buffered
<1>6. /\ k \in Nat /\ L \in Nat /\ k < L /\ pos = P[k] /\ todo = T[k] /\ Len(buf) \in Nat
      /\ sent \in Seq(FieldNames \X Nat) /\ got \in Seq(FieldNames \X Nat) /\ buf \in Seq(Nat)
      /\ pos \in Nat /\ pos <= Len(buf) /\ k <= pos
  BY <1>2, <1>3, LenProperties DEF Reading, Types
<1>7. k + 1 \in 1 .. L /\ (k + 1) - 1 = k
  BY <1>6
<1>8. /\ field.width \in Nat \ {0} /\ sent[k + 1][2] \in Nat /\ Body(field, sent[k + 1][2]) \in Nat
      /\ P[k + 1] = pos + field.width + Body(field, sent[k + 1][2])
      /\ P[k + 1] \in Nat /\ P[L] \in Nat /\ P[k + 1] <= P[L]
  BY <1>2, <1>3, <1>6, <1>7, WalkGrows
<1>. HIDE DEF field
<1>81. field.width \in Nat \ {0} /\ pos \in Nat /\ Len(buf) \in Nat
  BY <1>6, <1>8
<1>9. ASSUME ~short PROVE n = sent[k + 1][2] /\ body = Body(field, sent[k + 1][2])
  <2>1. pos < Len(buf)
    BY <1>81, <1>9 DEF read_bytes
  <2>2. n = sent[k + 1][2]
    BY <2>1, <1>3, <1>6, <1>7 DEF Buffered
  <2>. QED
    BY <2>2
<1>10. short \/ shorter => ~intact
  <2>1. ASSUME intact PROVE ~short /\ ~shorter
    <3>1. Len(buf) = P[L]
      BY <2>1, <1>3 DEF Reading
    <3>2. ~short
      <4>1. PICK w, b, end : /\ w = field.width /\ b = Body(field, sent[k + 1][2])
                             /\ end = P[k + 1]
        OBVIOUS
      <4>2. /\ w \in Nat \ {0} /\ b \in Nat /\ end = pos + w + b
            /\ pos \in Nat /\ end <= Len(buf) /\ Len(buf) \in Nat
        BY <3>1, <4>1, <1>6, <1>8
      <4>3. pos + w <= Len(buf)
        BY ONLY <4>2
      <4>. QED
        BY <4>1, <4>3 DEF read_bytes
    <3>3. body = Body(field, sent[k + 1][2])
      BY <3>2, <1>9
    <3>. QED
      BY <3>1, <3>2, <3>3, <1>6, <1>8 DEF read_bytes
  <2>. QED
    BY <2>1
<1>11. CASE short \/ shorter
  <2>1. phase' = "rejected" /\ UNCHANGED <<todo, pos, got>>
    BY <1>11 DEF read_field, after_short_read, Body, field
  <2>2. Types'
    BY <2>1, <1>2, <1>4 DEF Types
  <2>3. Reading(T, P)'
    BY <2>1, <1>3, <1>4, <1>10, <1>11 DEF Reading
  <2>. QED
    BY <2>1, <2>2, <2>3, <1>5 DEF IInv, Follows
<1>12. CASE ~short /\ ~shorter
  <2>1. /\ pos' = (pos + field.width) + body /\ got' = Append(got, <<field.name, n>>)
        /\ todo' = rest(field, n, Tail(todo)) /\ phase' = "reading"
    BY <1>2, <1>12 DEF read_field, Body, field
  <2>2. n = sent[k + 1][2] /\ body = Body(field, sent[k + 1][2]) /\ body \in Nat /\ n \in Nat
    BY <1>8, <1>9, <1>12
  <2>3. pos' = P[k + 1] /\ pos' \in Nat /\ pos' <= Len(buf) /\ k + 1 <= pos'
    <3>1. (pos + field.width) + body <= Len(buf)
      BY <1>12 DEF read_bytes
    <3>2. pos' = P[k + 1] /\ pos' \in Nat /\ pos < pos'
      BY <2>1, <2>2, <1>8, <1>81
    <3>3. k \in Nat /\ k <= pos
      BY <1>6
    <3>. QED
      BY <2>1, <3>1, <3>2, <3>3, <1>81
  <2>4. todo' = T[k + 1] /\ sent[k + 1] = <<field.name, n>>
    BY <2>1, <2>2, <1>3, <1>6, <1>7 DEF Walk, field
  <2>5. todo' \in Seq(Fields)
    BY <2>4, <1>3, <1>6 DEF Walk
  <2>6. sent[k + 1] \in FieldNames \X Nat
    BY <1>6, <1>7
  <2>7. /\ got' \in Seq(FieldNames \X Nat) /\ Len(got') = k + 1 /\ got'[k + 1] = sent[k + 1]
        /\ \A i \in 1 .. k : got'[i] = got[i]
    <3>1. got' = Append(got, sent[k + 1])
      BY <2>1, <2>4
    <3>. QED
      BY <3>1, <2>6, <1>6, AppendProperties
  <2>8. Types'
    BY <2>1, <2>3, <2>5, <2>7, <1>2, <1>4 DEF Types
  <2>9. ASSUME NEW i \in 1 .. k + 1 PROVE got'[i] = sent[i]
    <3>0. k \in Nat
      BY <1>6
    <3>1. i = k + 1 \/ i \in 1 .. k
      <4>. HIDE DEF k
      <4>. QED
        BY <3>0
    <3>. QED
      BY <2>7, <3>1, <1>3 DEF Reading
  <2>10. Reading(T, P)'
    <3>1. Len(got') <= L
      BY <2>7, <1>6
    <3>2. pos' = P[Len(got')] /\ todo' = T[Len(got')]
      BY <2>3, <2>4, <2>7
    <3>3. \A i \in 1 .. Len(got') : got'[i] = sent[i]
      BY <2>7, <2>9
    <3>. QED
      BY <2>1, <3>1, <3>2, <3>3, <1>3, <1>4 DEF Reading
  <2>. QED
    BY <2>1, <2>8, <2>10, <1>5 DEF IInv, Follows
<1>. QED
  BY <1>11, <1>12

(* A reader with no field before it has read all of them. *)
LEMMA AllRead ==
  ASSUME Types, NEW T, NEW P, Walk(T, P), Reading(T, P), todo = <<>>
  PROVE  Len(got) = Len(sent) /\ got = sent /\ pos = P[Len(sent)]
<1>1. /\ Len(got) \in Nat /\ Len(sent) \in Nat /\ Len(got) <= Len(sent)
      /\ pos = P[Len(got)] /\ T[Len(got)] = <<>> /\ \A i \in 1 .. Len(got) : got[i] = sent[i]
      /\ got \in Seq(FieldNames \X Nat) /\ sent \in Seq(FieldNames \X Nat)
  BY LenProperties DEF Types, Reading
<1>2. ~(Len(got) < Len(sent))
  <2>1. ASSUME Len(got) < Len(sent) PROVE FALSE
    <3>1. Len(got) + 1 \in 1 .. Len(sent) /\ (Len(got) + 1) - 1 = Len(got)
      BY <2>1, <1>1
    <3>2. T[(Len(got) + 1) - 1] # <<>>
      BY <3>1 DEF Walk
    <3>. QED
      BY <3>1, <3>2, <1>1
  <2>. QED
    BY <2>1
<1>3. Len(got) = Len(sent)
  BY <1>1, <1>2
<1>4. got = sent
  BY <1>1, <1>3, SeqEqual
<1>. QED
  BY <1>1, <1>3, <1>4

LEMMA EndStep ==
  ASSUME IInv, end_of_fields
  PROVE  IInv'
<1>1. PICK T, P : Follows(T, P)
  BY DEF IInv
<1>2. phase = "reading" /\ todo = <<>> /\ Types
  BY DEF end_of_fields, IInv
<1>3. Walk(T, P) /\ Buffered(P) /\ Reading(T, P)
  BY <1>1, <1>2 DEF Follows
<1>4. UNCHANGED <<format, todo, sent, buf, intact, pos, got>>
      /\ phase' = IF IsRequest(format) /\ Len(buf) - pos > 0 THEN "rejected" ELSE "accepted"
  BY DEF end_of_fields, remaining
<1>5. pos = P[Len(sent)] /\ pos \in Nat /\ Len(buf) \in Nat /\ pos <= Len(buf)
  BY <1>2, <1>3, AllRead, LenProperties DEF Types
<1>6. Walk(T, P)' /\ Buffered(P)'
  BY <1>3, <1>4 DEF Walk, Buffered
<1>7. Types'
  BY <1>2, <1>4 DEF Types
<1>8. Reading(T, P)'
  <2>1. CASE intact
    BY <2>1, <1>2, <1>3, <1>4, <1>5 DEF Reading
  <2>2. CASE ~intact
    BY <2>2, <1>2, <1>3, <1>4, <1>5 DEF Reading
  <2>. QED
    BY <2>1, <2>2
<1>9. phase' # "writing"
  BY <1>4
<1>. QED
  BY <1>6, <1>7, <1>8, <1>9 DEF IInv, Follows

-----------------------------------------------------------------------------
(* The invariant is inductive. *)
LEMMA Invariance == Spec => []IInv
<1>1. Init => IInv
  BY Begun
<1>2. IInv /\ [Next]_vars => IInv'
  <2>. SUFFICES ASSUME IInv, [Next]_vars PROVE IInv'
    OBVIOUS
  <2>1. ASSUME NEW n, write_field(n) PROVE IInv'
    BY <2>1, WriteStep
  <2>2. CASE hand_over
    BY <2>2, HandOverStep
  <2>3. CASE read_field
    BY <2>3, ReadStep
  <2>4. CASE end_of_fields
    BY <2>4, EndStep
  <2>5. CASE next_message
    <3>1. Init'
      BY <2>5 DEF next_message, Init
    <3>2. Init' => IInv'
      BY Begun, PTL
    <3>. QED
      BY <3>1, <3>2
  <2>6. CASE UNCHANGED vars
    <3>1. Types'
      BY <2>6 DEF IInv, Types, vars
    <3>2. PICK T, P : Follows(T, P)
      BY DEF IInv
    <3>3. Follows(T, P)'
      BY <2>6, <3>2 DEF Follows, Walk, Buffered, Writing, Reading, vars
    <3>. QED
      BY <3>1, <3>3 DEF IInv
  <2>. QED
    BY <2>1, <2>2, <2>3, <2>4, <2>5, <2>6 DEF Next
<1>. QED
  BY <1>1, <1>2, PTL DEF Spec

(* The reader never stands behind the buffer, whatever became of it: the   *)
(* bounds checks of Reader::read_bytes are enough for read_u8 to read_u64.  *)
THEOREM TypesKept == Spec => []TypeOK
<1>1. IInv => TypeOK
  BY LenProperties DEF IInv, Types, TypeOK
<1>. QED
  BY <1>1, Invariance, PTL

(* What is read of an intact buffer is what was written, in its order: the *)
(* two ends of the C interface never misread each other's fields.          *)
THEOREM ReaderFollowsWriterAlways == Spec => []ReaderFollowsWriter
<1>1. ASSUME IInv, phase # "writing" PROVE IsPrefix(got, sent)
  <2>1. PICK T, P : Follows(T, P)
    BY <1>1 DEF IInv
  <2>2. /\ got \in Seq(FieldNames \X Nat) /\ sent \in Seq(FieldNames \X Nat)
        /\ Len(got) <= Len(sent) /\ \A i \in 1 .. Len(got) : got[i] = sent[i]
    BY <2>1, <1>1 DEF IInv, Types, Follows, Reading
  <2>3. Len(got) \in Nat /\ Len(sent) \in Nat
    BY <2>2, LenProperties
  <2>4. SubSeq(sent, 1, Len(got)) \in Seq(FieldNames \X Nat)
        /\ Len(SubSeq(sent, 1, Len(got))) = Len(got)
        /\ \A i \in 1 .. Len(got) : SubSeq(sent, 1, Len(got))[i] = sent[i]
    BY <2>2, <2>3
  <2>5. SubSeq(sent, 1, Len(got)) = got
    BY <2>2, <2>4, SeqEqual
  <2>. QED
    BY <2>2, <2>5 DEF IsPrefix
<1>2. IInv => ReaderFollowsWriter
  BY <1>1 DEF ReaderFollowsWriter
<1>. QED
  BY <1>2, Invariance, PTL

(* A message is accepted with all its fields and no byte left. *)
THEOREM AcceptedIsSentAlways == Spec => []AcceptedIsSent
<1>1. ASSUME IInv, phase = "accepted" PROVE got = sent /\ pos = Len(buf) /\ intact
  <2>1. PICK T, P : Follows(T, P)
    BY <1>1 DEF IInv
  <2>2. Types /\ Walk(T, P) /\ Reading(T, P) /\ todo = <<>>
    BY <2>1, <1>1 DEF IInv, Follows, Reading
  <2>3. got = sent /\ pos = P[Len(sent)]
    BY <2>2, AllRead
  <2>4. intact
    BY <2>2, <2>3, <1>1 DEF Reading
  <2>. QED
    BY <2>2, <2>3, <2>4 DEF Reading
<1>2. IInv => AcceptedIsSent
  BY <1>1 DEF AcceptedIsSent
<1>. QED
  BY <1>2, Invariance, PTL

(* A request that lost its tail or gained a byte is rejected, at any       *)
(* length, and an intact message never is.                                 *)
THEOREM DamageIsNoticedAlways == Spec => []DamageIsNoticed
<1>1. ASSUME IInv PROVE DamageIsNoticed
  <2>1. PICK T, P : Follows(T, P)
    BY <1>1 DEF IInv
  <2>2. CASE phase = "accepted"
    <3>1. Types /\ Walk(T, P) /\ Reading(T, P) /\ todo = <<>>
      BY <2>1, <2>2, <1>1 DEF IInv, Follows, Reading
    <3>2. pos = P[Len(sent)]
      BY <3>1, AllRead
    <3>. QED
      BY <3>1, <3>2, <2>2 DEF Reading, DamageIsNoticed
  <2>3. CASE phase = "rejected"
    BY <2>1, <2>3 DEF Follows, Reading, DamageIsNoticed
  <2>. QED
    BY <2>2, <2>3 DEF DamageIsNoticed
<1>. QED
  BY <1>1, Invariance, PTL
=============================================================================
