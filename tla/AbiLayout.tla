----------------------------- MODULE AbiLayout -----------------------------
(***************************************************************************)
(* The calldata of a strategy action: the arguments of a call are brought  *)
(* into the order of the ABI and laid out as words, the parts of unknown   *)
(* size behind the others and found by an offset.  The model counts words, *)
(* so an offset of 32 bytes is an offset of one.                           *)
(*                                                                         *)
(* A type is a word, bytes (a string too), a tuple of types, or an array   *)
(* of a type.  A value is what JSON offers: a scalar, text, a list, or an  *)
(* object whose fields have names, in any order.  Types and values nest;   *)
(* what the compiler does with those nested d deep is made from what it    *)
(* does with those nested d - 1 deep, and Codec[d] is all of it.           *)
(***************************************************************************)
EXTENDS Integers, Sequences, SequencesExt

CONSTANTS MaxDepth,          \* bound: how deep arguments nest
          MaxArgs,           \* bound: arguments of a call
          ArgTypes,          \* bound: the types of the arguments
          ArgValues          \* bound: what is written for the arguments

VARIABLES call,     \* the types and the arguments of the call
          calldata  \* how far the compiler got, and the words laid out

abiVars == <<call, calldata>>

(***************************************************************************)
(* Types, values and words.  c is the codec of the parts.                  *)
(***************************************************************************)
Word          == [kind |-> "word"]
Bytes         == [kind |-> "bytes"]
Tuple(parts)  == [kind |-> "tuple", parts |-> parts]
Array(of, n)  == [kind |-> "array", of |-> of, len |-> n]

\* The length of an array type that gives none, and the size of a type that has none.
Unsized == -1
Dynamic == -1

Types(c) ==
  {Word, Bytes} \cup [kind : {"tuple"}, parts : Seq(c.types)]
                \cup [kind : {"array"}, of : c.types, len : Nat \cup {Unsized}]

\* A parameter's name is given as its number: normalize_named_specs leaves no two alike.
Scalar(n)           == [kind |-> "scalar", number |-> n]
Text(bytes)         == [kind |-> "text", bytes |-> bytes]
List(items)         == [kind |-> "list", items |-> items]
Object(names, items) == [kind |-> "object", names |-> names, items |-> items]

Values(c) ==
  [kind : {"scalar"}, number : Nat] \cup [kind : {"text"}, bytes : Seq(0..255)]
    \cup [kind : {"list"}, items : Seq(c.values)]
    \cup [kind : {"object"}, names : Seq(Nat), items : Seq(c.values)]

IsLeaf(v) == v.kind \in {"scalar", "text"}

\* A word of calldata: a number, or 32 bytes of a text.
Number(n)    == [number |-> n]
Chunk(bytes) == [chunk |-> bytes]

AbiWords == [number : Nat] \cup [chunk : [1..32 -> 0..255]]

Repeat(type, n) == [k \in 1..n |-> type]

PartTypes(t, v) == IF t.kind = "tuple" THEN t.parts ELSE Repeat(t.of, Len(v.items))

\* Running sums: Sums(s)[k] is the sum of the first k.
Sums(s) ==
  LET sum[k \in 0..Len(s)] == IF k = 0 THEN 0 ELSE sum[k - 1] + s[k]
  IN  sum

Total(s) == Sums(s)[Len(s)]

\* static_word_size: split_array_type tells the arrays.
StaticWords(c) ==
  [t \in Types(c) |->
     CASE t.kind = "word"  -> 1
       [] t.kind = "bytes" -> Dynamic
       [] t.kind = "tuple" ->
            IF \E k \in 1..Len(t.parts) : c.words[t.parts[k]] = Dynamic THEN Dynamic
            ELSE Total([k \in 1..Len(t.parts) |-> c.words[t.parts[k]]])
       [] t.kind = "array" ->
            IF t.len = Unsized \/ c.words[t.of] = Dynamic THEN Dynamic ELSE c.words[t.of] * t.len]

IsDynamic(c, type) == c.words[type] = Dynamic

(***************************************************************************)
(* Lowering: what the agent wrote into the shape of the ABI.               *)
(***************************************************************************)
\* A mutant of Field: the fields of an object in the order in which they were written.
FieldAsWritten(value, k) == value.items[k]

\* The value of a parameter: by its name in an object, by its place in a list.
Field(value, k) ==
  IF value.kind = "object" THEN value.items[CHOOSE j \in DOMAIN value.names : value.names[j] = k]
  ELSE value.items[k]

\* A list has the length of its type, an object exactly the names of the parameters.
Shaped(t, v) ==
  CASE t.kind = "tuple" ->
         /\ v.kind \in {"list", "object"} /\ Len(v.items) = Len(t.parts)
         /\ v.kind = "object" => Len(v.names) = Len(v.items) /\ ToSet(v.names) = 1..Len(v.items)
    [] t.kind = "array" -> v.kind = "list" /\ (t.len = Unsized \/ Len(v.items) = t.len)
    [] t.kind = "word"  -> v.kind = "scalar"
    [] t.kind = "bytes" -> v.kind = "text"

\* The types with the values that are accepted for them.
Fitting(c) ==
  {x \in Types(c) \X Values(c) :
     /\ Shaped(x[1], x[2])
     /\ ~IsLeaf(x[2]) =>
          \A k \in 1..Len(x[2].items) : <<PartTypes(x[1], x[2])[k], Field(x[2], k)>> \in c.fitting}

\* lower_value_to_canonical_shape and lower_tuple_value.
Lower(c) ==
  [x \in Fitting(c) |->
     IF IsLeaf(x[2]) THEN x[2]
     ELSE List([k \in 1..Len(x[2].items) |->
                  c.lower[<<PartTypes(x[1], x[2])[k], Field(x[2], k)>>]])]

(***************************************************************************)
(* Encoding.                                                               *)
(***************************************************************************)
\* The length in bytes, and the bytes padded to full words.
EncodeDynamicBytes(bytes) ==
  <<Number(Len(bytes))>> \o
  [k \in 1..(Len(bytes) + 31) \div 32 |->
     Chunk([i \in 1..32 |-> IF 32 * (k - 1) + i <= Len(bytes) THEN bytes[32 * (k - 1) + i] ELSE 0])]

\* The words a parameter has in the head.
HeadWords(c, types) ==
  [k \in 1..Len(types) |-> IF IsDynamic(c, types[k]) THEN 1 ELSE c.words[types[k]]]

\* What has no fixed size goes behind the head.
Tails(c, types, parts) ==
  [k \in 1..Len(types) |-> IF IsDynamic(c, types[k]) THEN parts[k] ELSE <<>>]

\* The tails begin behind the whole head, each behind the tails before it.
Offset(c, types, parts, k) ==
  Total(HeadWords(c, types)) + Sums([j \in 1..Len(types) |-> Len(Tails(c, types, parts)[j])])[k - 1]

Heads(c, types, parts) ==
  [k \in 1..Len(types) |-> IF IsDynamic(c, types[k]) THEN <<Number(Offset(c, types, parts, k))>>
                           ELSE parts[k]]

\* encode_abi_params, of the parameters as they are encoded one by one.
EncodeParams(c, types, parts) ==
  FlattenSeq(Heads(c, types, parts)) \o FlattenSeq(Tails(c, types, parts))

EncodedParts(c, types, items) == [k \in 1..Len(items) |-> c.encode[<<types[k], items[k]>>]]

\* encode_abi_static and encode_abi_dynamic, of a lowered value; the width of a number
\* (parse_u256) and sizes past the machine's are left out.
Encode(c) ==
  [x \in Fitting(c) |->
     LET types == PartTypes(x[1], x[2])
         parts == EncodedParts(c, types, x[2].items)
     IN  CASE x[2].kind = "scalar" -> <<Number(x[2].number)>>
           [] x[2].kind = "text"   -> EncodeDynamicBytes(x[2].bytes)
           [] OTHER ->
                IF StaticWords(c)[x[1]] # Dynamic THEN FlattenSeq(parts)
                ELSE (IF x[1].kind = "array" /\ x[1].len = Unsized THEN <<Number(Len(x[2].items))>>
                      ELSE <<>>)
                       \o EncodeParams(c, types, parts)]

(***************************************************************************)
(* The reference: how a contract reads its arguments, and what the agent   *)
(* said.                                                                   *)
(***************************************************************************)
\* A parameter lies in the head, or where the head says.
ReadParams(c, types, data, base) ==
  [k \in 1..Len(types) |->
     LET head == base + Sums(HeadWords(c, types))[k - 1]
     IN  c.read[<<types[k], data, IF IsDynamic(c, types[k]) THEN base + data[head].number ELSE head>>]]

ReadText(data, at) ==
  Text([i \in 1..data[at].number |-> data[at + 1 + ((i - 1) \div 32)].chunk[((i - 1) % 32) + 1]])

Read(c) ==
  [x \in Types(c) \X Seq(AbiWords) \X Nat |->
     LET t == x[1]  data == x[2]  at == x[3]
     IN  CASE t.kind = "word"  -> Scalar(data[at].number)
           [] t.kind = "bytes" -> ReadText(data, at)
           [] t.kind = "tuple" -> List(ReadParams(c, t.parts, data, at))
           [] t.kind = "array" ->
                IF t.len = Unsized THEN List(ReadParams(c, Repeat(t.of, data[at].number), data, at + 1))
                ELSE List(ReadParams(c, Repeat(t.of, t.len), data, at))]

\* The pairs of what was written and what is read that say the same: an item of a list is read
\* at its place, a field of an object at the place of the parameter it names.
Says(c) ==
  {y \in Values(c) \X Values(c) :
     \/ IsLeaf(y[1]) /\ y[2] = y[1]
     \/ /\ y[1].kind = "list" /\ y[2].kind = "list" /\ Len(y[2].items) = Len(y[1].items)
        /\ \A k \in 1..Len(y[1].items) : <<y[1].items[k], y[2].items[k]>> \in c.says
     \/ /\ y[1].kind = "object" /\ y[2].kind = "list" /\ Len(y[2].items) = Len(y[1].items)
        /\ \A k \in 1..Len(y[1].items) : <<y[1].items[k], y[2].items[y[1].names[k]]>> \in c.says}

(***************************************************************************)
(* All of it for types and values nested one deeper.                       *)
(***************************************************************************)
NoCodec == [types |-> {}, values |-> {}, words |-> <<>>, fitting |-> {}, lower |-> <<>>,
            encode |-> <<>>, read |-> <<>>, says |-> {}]

Over(c) == [types |-> Types(c), values |-> Values(c), words |-> StaticWords(c),
            fitting |-> Fitting(c), lower |-> Lower(c), encode |-> Encode(c), read |-> Read(c),
            says |-> Says(c)]

Codec[d \in 0..MaxDepth] == Over(IF d = 0 THEN NoCodec ELSE Codec[d - 1])

\* What the compiler does with the arguments of a call.
ArgCodec == Codec[MaxDepth]

ASSUME AbiAssumption ==
  MaxDepth \in Nat /\ ArgTypes \subseteq ArgCodec.types /\ ArgValues \subseteq Values(ArgCodec)

AbiTypeOK ==
  /\ call \in [types : Seq(ArgCodec.types), args : Values(ArgCodec)]
  /\ calldata \in [state : {"typed", "rejected", "encoded"}, words : Seq(AbiWords)]
  /\ calldata.state # "encoded" => calldata.words = <<>>

Planned(types, args) ==
  /\ calldata = [state |-> "typed", words |-> <<>>]
  /\ call = [types |-> types, args |-> args]

\* The arguments fit the types of the call, or are those of another call.
AbiInit ==
  \E types \in UNION {[1..n -> ArgTypes] : n \in 0..MaxArgs}, args \in ArgValues :
    Planned(types, args)

\* The arguments of one call of the action are lowered and encoded, or the plan is rejected.
EncodeCall ==
  LET typed   == <<Tuple(call.types), call.args>>
      lowered == Lower(ArgCodec)[typed].items
  IN  /\ calldata.state = "typed" /\ UNCHANGED call
      /\ calldata' =
           IF typed \in Fitting(ArgCodec)
             THEN [state |-> "encoded",
                   words |-> EncodeParams(ArgCodec, call.types,
                                          EncodedParts(ArgCodec, call.types, lowered))]
             ELSE [calldata EXCEPT !.state = "rejected"]

AbiNext == EncodeCall

AbiSpec == AbiInit /\ [][AbiNext]_abiVars

\* A contract reads back the arguments the agent meant, whatever is nested in what: the words
\* compile_intent lays out say what the strategy action was asked to do.
CalldataReadsBack ==
  calldata.state = "encoded" =>
    <<call.args, List(ReadParams(ArgCodec, call.types, calldata.words, 1))>> \in Says(ArgCodec)

=============================================================================
