------------------------------ MODULE Message ------------------------------
(***************************************************************************)
(* Messages as bytes: serialize() (serialization.c), which writes one into *)
(* a buffer piece by piece, and parse_message() (utils.c), which takes one *)
(* apart with three Ragel machines (header.rl, body.rl, attrs.rl).         *)
(* serialize() asserts that what it wrote can be parsed, so a text that is *)
(* complete goes through the parser here as well.                          *)
(*                                                                         *)
(* A type is its two letters, e.g. <<"T", "2">>.  All char arrays have one *)
(* Width; digits and letters are the few that tell the classes apart.      *)
(***************************************************************************)
EXTENDS Integers, Sequences, SequencesExt

CONSTANTS
  NULL,
  Width,      \* elements of a char array in struct frob_msg
  Messages,   \* what is serialized: [type, values]
  Sizes,      \* into buffers of these sizes
  Texts       \* what is parsed without having been serialized

ASSUME WidthAssumption == Width \in Nat \ {0} /\ Sizes \subseteq Nat

VARIABLES
  msg, size,  \* arguments of serialize; NULL and 0 for a text from elsewhere
  todo,       \* pieces serialize has still to write
  free,       \* its f: free space
  text,       \* the bytes: up to serialize's cursor, or all of a text
  reach,      \* how far from its start the buffer was written to, or past its end
  pc,
  p, pe,      \* parse_message's cursor and end, counted from 1
  type,       \* the type the header had
  at,         \* the field the body's machine is in
  c,          \* where the last field began; 0 is uninitialized
  got         \* the members parsed so far: <<name, contents>>

vars == <<msg, size, todo, free, text, reach, pc, p, pe, type, at, c, got>>

Digit == {"0", "1", "2", "4", "7"}
Hex   == Digit \cup {"A"}
Ascii == Hex \cup {"B", "C", "D", "I", "K", "N", "P", "S", "T"}

-----------------------------------------------------------------------------
(* serialize(): the fields of each type, in the order they are written *)

Fields(kind, names) == [i \in DOMAIN names |-> [name |-> names[i], kind |-> kind, end |-> "fs"]]

\* Slip: FCOPY for UCOPY.
UnitsAsFields(names) == Fields("string", names)

Units(names) == [i \in DOMAIN names |-> [name |-> names[i], kind |-> "string", end |-> "us"]]
Fs == <<[name |-> "", kind |-> "none", end |-> "fs"]>>

Info == <<"version", "vendor", "device_type", "device_id">>
Printer == <<"printer_cpl", "printer_cpl2x", "printer_cpl4x", "printer_cpln">>
Modes == <<"printer_h2", "printer_h4", "printer_inv">>
Limits == <<"printer_max_barcode_length", "printer_max_qrcode_length",
            "printer_max_bitmap_count", "printer_max_bitmap_width",
            "printer_max_bitmap_height", "printer_aspect_ratio",
            "printer_buffer_max_lines", "display_lc", "display_cpl">>
Keys == <<"enter", "cancel", "check", "backspace", "delete", "up", "down", "left", "right">>
Features == <<"nfc", "ccr", "mcr", "bar">>
Versions == [i \in 1..20 |-> "supported_version"]

Layout(t) ==
  CASE t \in {<<"T", "2">>, <<"B", "1">>} -> Fields("string", Info)
    [] t = <<"T", "4">> -> Units(Versions) \o Fs
    [] t = <<"T", "5">> -> Fields("string", <<"version">>)
    [] t = <<"D", "5">> ->
         Fields("integer", Printer) \o Fields("boolean", Modes) \o Fields("integer", Limits)
           \o Units(Keys) \o Fs \o Fields("topology", <<"device_topo">>)
           \o Fields("boolean", Features)
    [] t = <<"S", "1">> ->
         Fields("trx_type", <<"transaction_type">>)
           \o Fields("string", <<"ecr_id", "payment_id", "amount_gross", "amount_net",
                                 "vat", "currency", "cashback", "max_cashback">>)
    [] t = <<"S", "2">> ->
         Fields("integer", <<"error">>) \o Fields("hex", <<"card_token">>)
           \o Fields("string", <<"mid", "tid", "trx_amount", "cashback",
                                 "payment_method", "msg">>)
    [] t = <<"I", "1">> -> Fields("integer", <<"status">>) \o Fields("string", <<"msg">>)
    [] t = <<"A", "2">> -> Fields("integer", <<"error">>) \o Fields("string", <<"msg">>)
    [] t = <<"B", "2">> ->
         Fields("string", Info) \o Fields("integer", <<"result">>)
           \o Fields("hex", <<"modulus", "exponent">>)
    [] t = <<"B", "3">> -> Fields("hex", <<"kek", "kcv">>)
    [] t = <<"B", "4">> -> Fields("integer", <<"result">>)
    [] t = <<"K", "0">> -> Fields("integer", <<"result">>) \o Fields("string", <<"output">>)
    [] OTHER -> <<>>      \* T1, T3, D4, P1, A1, K1

ASSUME MessagesAssumption ==
  /\ NULL \notin Messages /\ Texts \subseteq Seq(STRING)
  /\ \A m \in Messages : /\ m.type \in Seq(STRING)
                         /\ m.values \in [DOMAIN Layout(m.type) -> Seq(STRING)]

\* What the serializer of each kind prints: a string up to the end of its
\* array, "%u", a flag, an enum's code or number, and an array of bytes in hex.
Printed(kind) ==
  CASE kind = "string"   -> {v \in Seq(Ascii) : Len(v) <= Width}
    [] kind = "integer"  -> Seq(Digit) \ {<<>>}
    [] kind = "boolean"  -> {<<"0">>, <<"1">>}
    [] kind = "trx_type" -> {<<"S">>, <<"C">>}
    [] kind = "topology" -> {<<"0">>, <<"1">>, <<"2">>}
    [] kind = "hex"      -> Seq(Hex) \ {<<>>}
    [] kind = "none"     -> {<<>>}

ASSUME PrintedAssumption ==
  \A m \in Messages : \A i \in DOMAIN Layout(m.type) :
    m.values[i] \in Printed(Layout(m.type)[i].kind)

\* What each macro writes: a field and its delimiter are two pieces.
Piece(bytes) == [bytes |-> bytes, hex |-> FALSE, padded |-> FALSE]
FieldPieces(field, value) ==
  <<[bytes |-> value, hex |-> field.kind = "hex", padded |-> field.kind = "string"],
    Piece(<<field.end>>)>>

Pieces(m) ==
  LET fields == Layout(m.type)
  IN  <<Piece(<<"stx">>), Piece(<<"7">>), Piece(<<"fs">>), Piece(m.type), Piece(<<"fs">>)>>
        \o FlattenSeq([i \in DOMAIN fields |-> FieldPieces(fields[i], m.values[i])])
        \o <<Piece(<<"etx">>), Piece(<<"lrc">>)>>

\* snprint_hex wants room for a final '\0' but does not count it: with room
\* for the digits alone they are claimed and not written.
Written(piece) ==
  IF piece.hex /\ free < Len(piece.bytes) + 1
    THEN [i \in DOMAIN piece.bytes |-> "?"]
    ELSE piece.bytes

\* Slip: strcpy of a string that fills its array, the '\0' included.
TouchedOneMore(piece) == IF piece.padded THEN Width + 1 ELSE 0

\* How many bytes a serializer writes from the cursor on.  serialize_string is
\* told the room and ignores it: stpncpy writes the string and pads it with
\* zeros to the size of its array.  The next piece overwrites those as far as
\* there is a next piece.  The others write what fits.
Touched(piece) ==
  IF piece.padded THEN Width
  ELSE IF Len(piece.bytes) > free THEN 0
  ELSE IF piece.hex /\ free > Len(piece.bytes) THEN Len(piece.bytes) + 1
  ELSE Len(piece.bytes)

Further(far) == IF far > reach THEN far ELSE reach

Copying == pc = "copy" /\ todo # <<>>
Fits == Len(Head(todo).bytes) <= free

Parser == <<p, pe, type, at, c, got>>

\* Slip: the free space is not adjusted.
CopiesUncounted ==
  /\ Copying /\ Fits
  /\ text' = text \o Written(Head(todo))
  /\ reach' = Further(Len(text) + Touched(Head(todo)))
  /\ todo' = Tail(todo)
  /\ UNCHANGED <<msg, size, free, pc, Parser>>

\* XCOPY: the serializer first, then cursor and free space move together.
Copies ==
  /\ Copying /\ Fits
  /\ text' = text \o Written(Head(todo))
  /\ reach' = Further(Len(text) + Touched(Head(todo)))
  /\ free' = free - Len(Head(todo).bytes)
  /\ todo' = Tail(todo)
  /\ UNCHANGED <<msg, size, pc, Parser>>

\* bail: the serializer has run all the same.
Bails ==
  /\ Copying /\ ~Fits
  /\ reach' = Further(Len(text) + Touched(Head(todo)))
  /\ pc' = "refused"
  /\ UNCHANGED <<msg, size, todo, free, text, Parser>>

\* What serialize returns: s - f, or buf - p when it bails.
Result == IF pc = "refused" THEN -Len(text) ELSE Len(text)

\* frob_frame_process takes it: stx, at least one byte before the first etx,
\* and then the sum.
Framed ==
  LET n == Len(text)
  IN  /\ n > 3
      /\ text[1] = "stx" /\ text[n - 1] = "etx" /\ text[n] = "lrc"
      /\ \A i \in 2..(n - 2) : text[i] # "etx"

\* The asserts at its end: the frame, then parse_message(buf + 1, p - 2).
Seals ==
  /\ pc = "copy" /\ todo = <<>>
  /\ pc' = IF Framed THEN "header" ELSE "misframed"
  /\ p' = 2 /\ pe' = Len(text) - 1
  /\ UNCHANGED <<msg, size, todo, free, text, reach, at, c, got, type>>

-----------------------------------------------------------------------------
(* frob_header_extract *)

Types == ({"T"} \X {"1", "2", "3", "4", "5"}) \cup ({"S"} \X {"1", "2"})
           \cup ({"D"} \X (Digit \cup {"5", "A"})) \cup ({"K"} \X Digit)
           \cup ({"B"} \X {"1", "2", "3", "4"})
           \cup {<<"A", "1">>, <<"P", "1">>, <<"M", "1">>, <<"L", "1">>}

\* h{1,6} fs type fs, with n digits in the token.
Header(n) ==
  /\ p + n + 4 <= pe
  /\ \A i \in p..(p + n - 1) : text[i] \in Hex
  /\ text[p + n] = "fs"
  /\ <<text[p + n + 1], text[p + n + 2]>> \in Types
  /\ text[p + n + 3] = "fs"

\* In the assert of serialize the type is known beforehand and must match.
HeaderExtracted ==
  /\ pc = "header"
  /\ \E n \in 1..6 :
       /\ Header(n)
       /\ type' = <<text[p + n + 1], text[p + n + 2]>>
       /\ msg # NULL => type' = msg.type
       /\ p' = p + n + 4
  /\ pc' = "body" /\ at' = 1
  /\ UNCHANGED <<msg, size, todo, free, text, reach, pe, c, got>>

HeaderRejected ==
  /\ pc = "header"
  /\ \A n \in 1..6 :
       Header(n) => msg # NULL /\ <<text[p + n + 1], text[p + n + 2]>> # msg.type
  /\ pc' = "rejected"
  /\ UNCHANGED <<msg, size, todo, free, text, reach, Parser>>

-----------------------------------------------------------------------------
(* frob_body_extract *)

Reads(class, names) == [i \in DOMAIN names |-> [name |-> names[i], class |-> class, end |-> "fs"]]
Names(names) == [i \in DOMAIN names |-> [name |-> names[i], class |-> "a*", end |-> "us"]]
JustFs == Reads("none", <<"">>)

\* A machine: its fields, how many must be there, and whether the function
\* looks at the state it ends in at all.
By(fields, required) == [fields |-> fields, required |-> required, checked |-> TRUE]
Unchecked(fields) == [fields |-> fields, required |-> 0, checked |-> FALSE]

Status == Reads("a+", <<"version">>) \o Reads("a+?", <<"vendor", "device_type", "device_id">>)

extract_t(n) ==
  CASE n = "1" -> Unchecked(JustFs)
    [] n = "2" -> Unchecked(Status)
    [] n = "3" -> By(JustFs, 0)
    [] n = "4" -> Unchecked(Reads("a+", <<"supported_version">>))
    [] n = "5" -> By(Reads("a+", <<"version">>), 1)

extract_s1 ==
  By(Reads("S|C", <<"transaction_type">>) \o Reads("a+", <<"ecr_id", "payment_id">>)
       \o Reads("n+", <<"amount_gross", "amount_net", "vat">>) \o Reads("aaa", <<"currency">>)
       \o Reads("n+", <<"cashback", "max_cashback">>), 8)

extract_s2 ==
  By(Reads("n*", <<"error">>) \o Reads("h*", <<"card_token">>)
       \o Reads("a*", <<"mid", "tid", "trx_id">>) \o Reads("digit*", <<"trx_amount", "cashback">>)
       \o Reads("a*", <<"payment_method", "msg">>), 5)

extract_d5 ==
  By(Reads("n*", Printer) \o Reads("n", Modes) \o Reads("n*", Limits)
       \o Names(Keys) \o JustFs \o Reads("0|1|2|3", <<"device_topo">>)
       \o Reads("n", Features), 31)

extract_b(n) ==
  CASE n = "1" -> By(Status, 4)
    [] n = "2" -> By(Status \o Reads("n*", <<"result">>) \o Reads("h*", <<"modulus", "exponent">>), 5)
    [] n = "3" -> By(Reads("h*", <<"kek", "kcv">>), 2)
    [] n = "4" -> By(Reads("n*", <<"result">>), 1)

extract_k(n) ==
  CASE n = "0" -> By(Reads("n*", <<"result">>) \o Reads("a*", <<"output">>), 1)
    [] n = "1" -> By(JustFs, 0)

Machine(t) ==
  CASE t[1] = "T" -> extract_t(t[2])
    [] t[1] = "B" -> extract_b(t[2])
    [] t[1] = "K" -> extract_k(t[2])
    [] t = <<"S", "1">> -> extract_s1
    [] t = <<"S", "2">> -> extract_s2
    [] t = <<"D", "4">> -> Unchecked(JustFs)
    [] t = <<"D", "5">> -> extract_d5

Extracted == ({"T"} \X {"1", "2", "3", "4", "5"}) \cup ({"S"} \X {"1", "2"})
               \cup ({"D"} \X {"4", "5"}) \cup ({"K"} \X {"0", "1"})
               \cup ({"B"} \X {"1", "2", "3", "4"})

Chars(class) ==
  CASE class \in {"a*", "a+", "a+?", "aaa"} -> Ascii
    [] class \in {"n*", "n+", "n", "digit*"} -> Digit
    [] class = "h*" -> Hex
    [] class = "S|C" -> {"S", "C"}
    [] class = "0|1|2|3" -> {"0", "1", "2"}
    [] class = "none" -> {}

AtLeast(class) ==
  CASE class \in {"a+", "n+", "n", "S|C", "0|1|2|3"} -> 1
    [] class = "aaa" -> 3
    [] OTHER -> 0

AtMost(class) ==
  CASE class \in {"n", "S|C", "0|1|2|3"} -> 1
    [] class = "aaa" -> 3
    [] OTHER -> pe - p

\* How many bytes from the cursor on the machine takes for this class.
Run(class) ==
  Max({n \in 0..(pe - p) : n <= AtMost(class) /\ \A i \in p..(p + n - 1) : text[i] \in Chars(class)})

\* COPY takes what the member holds, STRTOL stops at the first other byte.
\* From a pointer never set it takes whatever that points to, if it returns.
Contents(class, from, to) ==
  CASE from = 0 -> <<"?">>
    [] from # 0 /\ class \in {"n*", "n"} ->
         SubSeq(text, from, from - 1 + Max({n \in 0..(to - from + 1) :
                              \A i \in from..(from + n - 1) : text[i] \in Digit}))
    [] from # 0 /\ class = "h*" -> SubSeq(text, from, to)
    [] OTHER -> SubSeq(text, from, IF to - from < Width THEN to ELSE from + Width - 1)

\* Slip: `$C' for `>C', every byte of a field taken for its first one.
BeganLast(n) == IF n > 0 THEN p + n - 1 ELSE c

\* >C runs on the first byte of a field: an empty one leaves c as it was.
\* device_topo has no >C, but nothing looks at c before nfc sets it.
Began(n) == IF n > 0 THEN p ELSE c

Body == Machine(type)
InField == pc = "body" /\ type \in Extracted /\ at <= Len(Body.fields)
Field == Body.fields[at]
Taken == Run(Field.class)

\* The field is followed by its delimiter.
FieldEnds ==
  /\ InField
  /\ Taken >= AtLeast(Field.class)
  /\ p + Taken < pe /\ text[p + Taken] = Field.end

\* version* of T4 is the only field that is repeated.
NextField == IF type = <<"T", "4">> THEN at ELSE at + 1

FieldExtracted ==
  /\ FieldEnds
  /\ c' = Began(Taken)
  /\ got' = IF Field.class = "none" \/ (Field.class = "a+?" /\ Taken = 0)
              THEN got
              ELSE Append(got, <<Field.name, Contents(Field.class, c', p + Taken - 1)>>)
  /\ p' = p + Taken + 1
  /\ at' = NextField
  /\ UNCHANGED <<msg, size, todo, free, text, reach, pc, pe, type>>

\* Slip: the byte the machine stopped at is skipped.
StopPast == IF InField THEN p + Taken + 1 ELSE p

\* The action of a first field that is empty reads through the pointer as it was
\* on the stack: FieldExtracted with any contents, or the end of the process.
Wild(n) == c = 0 /\ n = 0
FieldFaults ==
  /\ FieldEnds /\ Wild(Taken) /\ Field.class \notin {"none", "a+?"}
  /\ pc' = "fault"
  /\ UNCHANGED <<msg, size, todo, free, text, reach, Parser>>

\* The machine stops where it is: at the end, or at a byte it has no use for.
Stop == IF InField THEN p + Taken ELSE p
Final == p = pe /\ at > Body.required

\* c of attrs.rl is a variable of its own.
BodyExtracted ==
  /\ pc = "body" /\ type \in Extracted /\ ~FieldEnds
  /\ Body.checked => Final
  /\ pc' = "attributes" /\ p' = Stop /\ c' = 0 /\ at' = 0
  /\ UNCHANGED <<msg, size, todo, free, text, reach, pe, got, type>>

BodyRejected ==
  /\ pc = "body"
  /\ \/ type \notin Extracted                          \* ENOSYS
     \/ type \in Extracted /\ ~FieldEnds /\ Body.checked /\ ~Final
  /\ pc' = "rejected"
  /\ UNCHANGED <<msg, size, todo, free, text, reach, Parser>>

-----------------------------------------------------------------------------
(* frob_extract_additional_attributes: ((a* us)+ fs)? *)

Unit == Run("a*")
UnitEnds == pc = "attributes" /\ p + Unit < pe /\ text[p + Unit] = "us"

\* COPY((*out)[i++], c, fpc) counts i once for its first argument and once or
\* twice in min(): elementsof takes the address of (*out)[i++], and the array's
\* size is the smaller one if the unit fills it.  The element beyond the last
\* that may be written lies in the padding of struct frob_msg.
Counts(from, to) ==
  IF from = 0 THEN {2, 3} ELSE IF to - from + 1 < Width THEN {2} ELSE {3}

AttributeExtracted ==
  /\ UnitEnds
  /\ c' = Began(Unit)
  /\ IF at < 19
       THEN /\ got' = Append(got, <<"attr", Contents("a*", c', p + Unit - 1)>>)
            /\ \E n \in Counts(c', p + Unit - 1) : at' = at + n
       ELSE UNCHANGED <<got, at>>
  /\ p' = p + Unit + 1
  /\ UNCHANGED <<msg, size, todo, free, text, reach, pc, pe, type>>

\* A first unit that is empty: memcpy from c as it was on the stack, with a
\* length computed from it.
AttributeFaults ==
  /\ UnitEnds /\ Wild(Unit) /\ at < 19
  /\ pc' = "fault"
  /\ UNCHANGED <<msg, size, todo, free, text, reach, Parser>>

\* Nothing at all, or at least one unit, and the fs as the last byte.
AttributesFinal ==
  \/ at = 0 /\ p = pe
  \/ at > 0 /\ p = pe - 1 /\ text[p] = "fs"

Rest == IF at > 0 /\ p < pe /\ text[p] = "fs" THEN p + 1 ELSE p + Unit

\* Slip: the final state is not looked at.
AttributesUnchecked ==
  /\ pc = "attributes" /\ ~UnitEnds
  /\ pc' = "parsed" /\ p' = Rest
  /\ UNCHANGED <<msg, size, todo, free, text, reach, pe, at, c, got, type>>

AttributesEnd ==
  /\ pc = "attributes" /\ ~UnitEnds
  /\ pc' = IF AttributesFinal THEN "parsed" ELSE "rejected"
  /\ p' = Rest
  /\ UNCHANGED <<msg, size, todo, free, text, reach, pe, at, c, got, type>>

-----------------------------------------------------------------------------
Start(m, s, pieces, bytes, where) ==
  /\ msg = m /\ size = s /\ free = s /\ todo = pieces /\ text = bytes /\ reach = 0
  /\ pc = where
  /\ p = 1 /\ pe = Len(bytes) + 1
  /\ type = NULL /\ at = 0 /\ c = 0 /\ got = <<>>

Init ==
  \/ \E m \in Messages, s \in Sizes : Start(m, s, Pieces(m), <<>>, "copy")
  \/ \E bytes \in Texts : Start(NULL, 0, <<>>, bytes, "header")

Next ==
  \/ Copies \/ Bails \/ Seals
  \/ HeaderExtracted \/ HeaderRejected
  \/ FieldExtracted \/ FieldFaults \/ BodyExtracted \/ BodyRejected
  \/ AttributeExtracted \/ AttributeFaults \/ AttributesEnd

Spec == Init /\ [][Next]_vars

-----------------------------------------------------------------------------
(* Properties *)

(***************************************************************************)
(* The cursor of the parser stays between the ends of the text, whichever  *)
(* machine it has been handed to and wherever that one stopped.            *)
(***************************************************************************)
CursorInside ==
  pc \in {"header", "body", "attributes", "parsed", "rejected"} =>
    /\ p \in 1..pe /\ pe <= Len(text) + 1
    /\ c < p

Encoding(m) == FlattenSeq([i \in DOMAIN Pieces(m) |-> Pieces(m)[i].bytes])

(***************************************************************************)
(* serialize() has either written all of a message, every byte it counts   *)
(* included, or refused, and it refuses exactly the buffers that are too   *)
(* small.  The digits snprint_hex counts without writing them never get    *)
(* out: the delimiter after them does not fit either.  The caller, who     *)
(* looks for a negative result (frob.c:300), learns of a refusal unless    *)
(* the buffer was empty: buf - p is 0 then.                                *)
(***************************************************************************)
WholeOrRefused ==
  /\ msg # NULL /\ pc \notin {"copy", "refused"} =>
       text = Encoding(msg) /\ Len(text) <= size
  /\ pc = "refused" => /\ Len(Encoding(msg)) > size
                        /\ Result < 0 <=> size > 0

(***************************************************************************)
(* stpncpy writes whole arrays, past the end of a buffer that holds the    *)
(* message or that is about to be refused.  After every string there is at *)
(* least its delimiter, the ETX and the LRC: a buffer that is longer than  *)
(* the message by an array's size less those three is never left.          *)
(***************************************************************************)
SlackSuffices == reach > size => size < Len(Encoding(msg)) + Width - 3

(***************************************************************************)
(* ut.t:420: "frame_serialized_correctly_for_large_enough_buffer", from    *)
(* buffers of just the message's length on.                                *)
(***************************************************************************)
StaysInside == msg # NULL /\ Len(Encoding(msg)) <= size => reach <= size

\* Members with something in them: the others are zero in either message.
Kept(member) ==
  IF member[1] \notin {"", "attr"} /\ member[2] # <<>> THEN <<member>> ELSE <<>>
Filled(members) == FlattenSeq([i \in DOMAIN members |-> Kept(members[i])])

Members(m) ==
  LET fields == Layout(m.type)
  IN  [i \in DOMAIN fields |->
         <<fields[i].name, IF fields[i].kind = "none" THEN <<>> ELSE m.values[i]>>]

\* What an empty field would be filled with is another field's contents.
NoneEmpty(m) ==
  \A i \in DOMAIN Layout(m.type) :
    Layout(m.type)[i].kind # "none" /\ m.values[i] = <<>> =>
      m.type \in {<<"T", "2">>, <<"B", "1">>, <<"B", "2">>}

(***************************************************************************)
(* A message that is parsed is the message that was serialized, member by  *)
(* member.  Not so for T4, whose versions serialize() separates by US and  *)
(* the machine expects to end in FS, nor for S2, where it leaves out       *)
(* trx_id; nor for an empty field outside the machines that have a case    *)
(* for it: `>C' does not run on an empty field, the one before is copied.  *)
(***************************************************************************)
RoundTrip ==
  pc = "parsed" /\ msg # NULL /\ NoneEmpty(msg) /\ msg.type \notin {<<"T", "4">>, <<"S", "2">>} =>
    Filled(got) = Filled(Members(msg))

(***************************************************************************)
(* The asserts in serialize that take what was written apart again do not  *)
(* fail for any message autoresponder answers with, whichever values it    *)
(* has.  All of those have a version; without one T2, T5 and B2 would be   *)
(* written and then not be parsed.  The only one that may not come back    *)
(* from the parser is T4: none of it is left to the body's machine, and    *)
(* the first unit the attributes' machine finds is empty.                  *)
(***************************************************************************)
Answers == {<<"T", "2">>, <<"T", "3">>, <<"T", "4">>, <<"T", "5">>, <<"D", "5">>,
            <<"B", "2">>, <<"K", "1">>}

HasVersion(m) ==
  \A i \in DOMAIN Layout(m.type) : Layout(m.type)[i].name = "version" => m.values[i] # <<>>

AnswersParse ==
  pc \in {"rejected", "misframed", "fault"} /\ msg # NULL =>
    \/ msg.type \notin Answers
    \/ ~HasVersion(msg)
    \/ msg.type = <<"T", "4">> /\ pc = "fault"

(***************************************************************************)
(* serialization.c:235: "Parseable message was serialized".                *)
(***************************************************************************)
AnswersReturn == pc = "fault" /\ msg # NULL => msg.type \notin Answers

(***************************************************************************)
(* parse_message: assert(cur == pe) once all three machines have agreed,   *)
(* though T1, T2, T4 and D4 stop anywhere in the body and are believed.    *)
(***************************************************************************)
AllConsumed == pc = "parsed" => p = pe

=============================================================================
