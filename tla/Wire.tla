-------------------------------- MODULE Wire --------------------------------
(***************************************************************************)
(* The binary format between the library and its clients: what a client    *)
(* writes and ffi/src/wire.rs reads (instructions, accounts), and what     *)
(* wire.rs writes and the clients read (results). The format has no tags:  *)
(* both ends walk the same list of fields, and a length or a count decides *)
(* what comes next. An end is modelled by the list of fields it walks, in  *)
(* its order, one field per step, over a buffer of bytes. The memory that  *)
(* is reserved for an announced count is left out.                         *)
(***************************************************************************)
EXTENDS Naturals, Sequences, SequencesExt

CONSTANTS
  KeyWidth, U64Width, U32Width,  (* bytes of a public key, a u64, a u32     *)
  Formats,                       (* who exchanges what with the library     *)
  Lengths,                       (* bounds: for every format the lengths of *)
  MaxCount                       (* bytes, and the elements of a list       *)

ASSUME ConstantsAssumption ==
  /\ {KeyWidth, U64Width, U32Width} \subseteq Nat \ {0}
  /\ Formats \subseteq {"python", "node"} \X {"instructions", "accounts", "result"}
  /\ Lengths \in [Formats -> SUBSET Nat] /\ MaxCount \in [Formats -> Nat]

(* The kinds of fields. "of" are the fields of an element of a list, or of *)
(* the value of an option.                                                 *)
Field(name, kind, width, of) == [name |-> name, kind |-> kind, width |-> width, of |-> of]
Key(name)  == Field(name, "fixed", KeyWidth, <<>>)
U64(name)  == Field(name, "fixed", U64Width, <<>>)
U32(name)  == Field(name, "fixed", U32Width, <<>>)
U8(name)   == Field(name, "fixed", 1, <<>>)
Bool(name) == Field(name, "bool", 1, <<>>)
LengthPrefixed(name) == Field(name, "bytes", U32Width, <<>>)
List(name, of) == Field(name, "list", U32Width, of)
Option(name, of) == Field(name, "option", 1, of)

-----------------------------------------------------------------------------
(* What each end walks: the writers of requests in Python and in Node, *)
(* their reader; the writer of results, its readers in Node and Python. *)

serialize_instructions ==
  <<List("instructions",
         <<Key("program_id"), LengthPrefixed("data"),
           List("accounts", <<Key("pubkey"), Bool("is_signer"), Bool("is_writable")>>)>>)>>

serialize_accounts ==
  <<List("accounts",
         <<Key("pubkey"), Key("owner"), U64("lamports"), LengthPrefixed("data"),
           Bool("executable")>>)>>

serializeInstructions ==
  <<List("instructions",
         <<Key("program_id"), LengthPrefixed("data"),
           List("accounts", <<Key("pubkey"), Bool("is_signer"), Bool("is_writable")>>)>>)>>

serializeAccounts ==
  <<List("accounts",
         <<Key("pubkey"), Key("owner"), U64("lamports"), LengthPrefixed("data"),
           Bool("executable")>>)>>

(* Mutant: the account list of an instruction is expected before its data, *)
(* which is the order of the trace in a result.                            *)
read_instructions_as_in_trace ==
  <<List("instructions",
         <<Key("program_id"),
           List("accounts", <<Key("pubkey"), Bool("is_signer"), Bool("is_writable")>>),
           LengthPrefixed("data")>>)>>

read_instructions ==
  <<List("instructions",
         <<Key("program_id"), LengthPrefixed("data"),
           List("accounts", <<Key("pubkey"), Bool("is_signer"), Bool("is_writable")>>)>>)>>

read_accounts ==
  <<List("accounts",
         <<Key("pubkey"), Key("owner"), U64("lamports"), LengthPrefixed("data"),
           Bool("executable")>>)>>

write_token_balance ==
  <<U32("account_index"), LengthPrefixed("mint"), Option("owner", <<LengthPrefixed("owner")>>),
    U8("decimals"), LengthPrefixed("amount"), Option("ui_amount", <<U64("ui_amount")>>)>>

(* Mutant: an instruction of the trace is written in the order of a request. *)
serialize_result_trace_as_in_request ==
  <<U32("status"), U64("compute_units_consumed"), U64("execution_time_us"),
    LengthPrefixed("return_data")>> \o serialize_accounts
  \o <<List("logs", <<LengthPrefixed("log")>>), LengthPrefixed("error_message"),
       List("pre_balances", <<U64("balance")>>), List("post_balances", <<U64("balance")>>),
       List("pre_token_balances", write_token_balance),
       List("post_token_balances", write_token_balance),
       List("execution_trace", <<U8("stack_depth")>> \o serialize_instructions[1].of
            \o <<U64("compute_units_consumed"), U64("result")>>)>>

serialize_result ==
  <<U32("status"), U64("compute_units_consumed"), U64("execution_time_us"),
    LengthPrefixed("return_data"),
    List("accounts",
         <<Key("pubkey"), Key("owner"), U64("lamports"), LengthPrefixed("data"),
           Bool("executable")>>),
    List("logs", <<LengthPrefixed("log")>>),
    LengthPrefixed("error_message"),
    List("pre_balances", <<U64("balance")>>),
    List("post_balances", <<U64("balance")>>),
    List("pre_token_balances", write_token_balance),
    List("post_token_balances", write_token_balance),
    List("execution_trace",
         <<U8("stack_depth"), Key("program_id"),
           List("accounts", <<Key("pubkey"), Bool("is_signer"), Bool("is_writable")>>),
           LengthPrefixed("data"), U64("compute_units_consumed"), U64("result")>>)>>

read_token_balance ==
  <<U32("account_index"), LengthPrefixed("mint"), Option("owner", <<LengthPrefixed("owner")>>),
    U8("decimals"), LengthPrefixed("amount"), Option("ui_amount", <<U64("ui_amount")>>)>>

deserializeResult ==
  <<U32("status"), U64("compute_units_consumed"), U64("execution_time_us"),
    LengthPrefixed("return_data"),
    List("accounts",
         <<Key("pubkey"), Key("owner"), U64("lamports"), LengthPrefixed("data"),
           Bool("executable")>>),
    List("logs", <<LengthPrefixed("log")>>),
    LengthPrefixed("error_message"),
    List("pre_balances", <<U64("balance")>>),
    List("post_balances", <<U64("balance")>>),
    List("pre_token_balances", read_token_balance),
    List("post_token_balances", read_token_balance),
    List("execution_trace",
         <<U8("stack_depth"), Key("program_id"),
           List("accounts", <<Key("pubkey"), Bool("is_signer"), Bool("is_writable")>>),
           LengthPrefixed("data"), U64("compute_units_consumed"), U64("result")>>)>>

token_balance ==
  <<U32("account_index"), LengthPrefixed("mint"), Option("owner", <<LengthPrefixed("owner")>>),
    U8("decimals"), LengthPrefixed("amount"), Option("ui_amount", <<U64("ui_amount")>>)>>

deserialize_result ==
  <<U32("status"), U64("compute_units_consumed"), U64("execution_time_us"),
    LengthPrefixed("return_data"),
    List("accounts",
         <<Key("pubkey"), Key("owner"), U64("lamports"), LengthPrefixed("data"),
           Bool("executable")>>),
    List("logs", <<LengthPrefixed("log")>>),
    LengthPrefixed("error_message"),
    List("pre_balances", <<U64("balance")>>),
    List("post_balances", <<U64("balance")>>),
    List("pre_token_balances", token_balance),
    List("post_token_balances", token_balance),
    List("execution_trace",
         <<U8("stack_depth"), Key("program_id"),
           List("accounts", <<Key("pubkey"), Bool("is_signer"), Bool("is_writable")>>),
           LengthPrefixed("data"), U64("compute_units_consumed"), U64("result")>>)>>

written(format) ==
  CASE format[2] = "result" -> serialize_result
    [] format = <<"python", "instructions">> -> serialize_instructions
    [] format = <<"python", "accounts">> -> serialize_accounts
    [] format = <<"node", "instructions">> -> serializeInstructions
    [] format = <<"node", "accounts">> -> serializeAccounts

expected(format) ==
  CASE format[2] = "instructions" -> read_instructions
    [] format[2] = "accounts" -> read_accounts
    [] format = <<"python", "result">> -> deserialize_result
    [] format = <<"node", "result">> -> deserializeResult

IsRequest(format) == format[2] # "result"

-----------------------------------------------------------------------------
VARIABLES
  format,  (* which format is exchanged                                    *)
  phase,   (* "writing", "reading", "accepted" or "rejected"               *)
  todo,    (* the fields the writing or reading end has before it          *)
  sent,    (* the fields written, with their values, lengths and counts    *)
  buf,     (* the buffer                                                   *)
  intact,  (* whether the reading end gets the buffer as it was written    *)
  pos,     (* Reader::pos                                                  *)
  got      (* the fields read                                              *)

vars == <<format, phase, todo, sent, buf, intact, pos, got>>

Init ==
  /\ format \in Formats
  /\ phase = "writing"
  /\ todo = written(format)
  /\ sent = <<>> /\ buf = <<>>
  /\ intact = TRUE
  /\ pos = 0 /\ got = <<>>

Zeros(n) == [i \in 1 .. n |-> 0]

(* Little-endian, of a value below the size of a byte. *)
le_bytes(n, width) == <<n>> \o Zeros(width - 1)

(* The fields that come next once a field has the value n. *)
rest(field, n, more) ==
  CASE field.kind = "list" -> FlattenSeq([i \in 1 .. n |-> field.of]) \o more
    [] field.kind = "option" /\ n # 0 -> field.of \o more
    [] OTHER -> more

values(field) ==
  CASE field.kind = "fixed" -> {1}
    [] field.kind \in {"bool", "option"} -> {0, 1}
    [] field.kind = "bytes" -> Lengths[format]
    [] field.kind = "list" -> 0 .. MaxCount[format]

write_field(n) ==
  LET field == Head(todo) IN
  /\ phase = "writing" /\ todo # <<>>
  /\ n \in values(field)
  /\ buf' = buf \o le_bytes(n, field.width) \o (IF field.kind = "bytes" THEN Zeros(n) ELSE <<>>)
  /\ sent' = Append(sent, <<field.name, n>>)
  /\ todo' = rest(field, n, Tail(todo))
  /\ UNCHANGED <<format, phase, intact, pos, got>>

(* The buffer reaches the other end; a request may have lost its tail or   *)
(* have bytes behind it.                                                   *)
hand_over ==
  /\ phase = "writing" /\ todo = <<>>
  /\ phase' = "reading"
  /\ todo' = expected(format)
  /\ \/ UNCHANGED <<buf, intact>>
     \/ /\ IsRequest(format)
        /\ intact' = FALSE
        /\ \/ \E n \in 0 .. Len(buf) - 1 : buf' = SubSeq(buf, 1, n)
           \/ \E b \in {0, 1} : buf' = Append(buf, b)
  /\ UNCHANGED <<format, sent, pos, got>>

(* Mutant: off by one at the end of the buffer. *)
read_bytes_off_by_one(at, n) == at + n <= Len(buf) + 1

(* Whether n bytes are left at this position. *)
read_bytes(at, n) == at + n <= Len(buf)

(* Mutant: a read that meets the end is tried again. *)
after_short_read_again == "reading"

(* The error of a short read leaves the loops of the deserializer. *)
after_short_read == "rejected"

(* One field, with the bytes its length announces. *)
read_field ==
  /\ phase = "reading" /\ todo # <<>>
  /\ LET field == Head(todo)
         header == pos + field.width
     IN IF ~read_bytes(pos, field.width)
        THEN phase' = after_short_read /\ UNCHANGED <<todo, pos, got>>
        ELSE LET n == buf[pos + 1]
                 body == IF field.kind = "bytes" THEN n ELSE 0
             IN IF ~read_bytes(header, body)
                THEN phase' = after_short_read /\ UNCHANGED <<todo, pos, got>>
                ELSE /\ pos' = header + body
                     /\ got' = Append(got, <<field.name, n>>)
                     /\ todo' = rest(field, n, Tail(todo))
                     /\ UNCHANGED phase
  /\ UNCHANGED <<format, sent, buf, intact>>

(* Mutant: bytes behind the last element are ignored. *)
remaining_ignored == 0

remaining == Len(buf) - pos

(* All fields are read. Bytes that remain make a request invalid; a client *)
(* does not look for them.                                                 *)
end_of_fields ==
  /\ phase = "reading" /\ todo = <<>>
  /\ phase' = IF IsRequest(format) /\ remaining > 0 THEN "rejected" ELSE "accepted"
  /\ UNCHANGED <<format, todo, sent, buf, intact, pos, got>>

(* The two ends exchange the next message. *)
next_message ==
  /\ phase \in {"accepted", "rejected"}
  /\ format' \in Formats
  /\ phase' = "writing"
  /\ todo' = written(format')
  /\ sent' = <<>> /\ buf' = <<>>
  /\ intact' = TRUE
  /\ pos' = 0 /\ got' = <<>>

Next ==
  \/ \E n \in {0, 1} \cup Lengths[format] \cup 0 .. MaxCount[format] : write_field(n)
  \/ hand_over
  \/ read_field
  \/ end_of_fields
  \/ next_message

Spec == Init /\ [][Next]_vars

(* A reading end runs to its end; the other steps are up to the client. *)
FairSpec == Spec /\ WF_vars(read_field \/ end_of_fields)

-----------------------------------------------------------------------------
(* Types of the variables: the reader never stands behind the buffer. *)
TypeOK ==
  /\ format \in Formats
  /\ phase \in {"writing", "reading", "accepted", "rejected"}
  /\ intact \in BOOLEAN
  /\ pos \in 0 .. Len(buf)
  /\ Len(got) <= pos

(* Both ends are at the same field: whatever has been read of an intact    *)
(* buffer is what was written, under the same names. About the order of    *)
(* fields in wire.rs and in the clients, which nothing in the buffer marks.*)
ReaderFollowsWriter ==
  phase # "writing" /\ intact => IsPrefix(got, sent)

(* What an end accepts is the whole message that was sent. *)
AcceptedIsSent ==
  phase = "accepted" => got = sent /\ pos = Len(buf)

(* No message is the beginning of another: a request that was cut short or *)
(* that something was appended to is rejected, and only such a one is.      *)
DamageIsNoticed ==
  /\ phase = "accepted" => intact
  /\ phase = "rejected" => ~intact

(* Every buffer is decided, whatever counts and lengths it announces. *)
EveryBufferIsDecided == (phase = "reading") ~> (phase \in {"accepted", "rejected"})
=============================================================================
