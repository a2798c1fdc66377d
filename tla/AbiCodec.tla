------------------------------- MODULE AbiCodec -------------------------------
(***************************************************************************)
(* The codec of aggregate3 (rpc/multicall.ts): a call is a target, whether *)
(* it may fail, and bytes; a result is a success and bytes.  Data is a     *)
(* sequence of bytes, made of words and padded to words; tuples lie behind *)
(* their offsets.  An offset counts from the place it is relative to.      *)
(***************************************************************************)
EXTENDS Naturals, Sequences

CONSTANT WordBytes   \* 32, less in a small instance

ASSUME WordAssumption == WordBytes \in Nat \ {0}

(* What is left of a number without its last digits, in base 256. *)
Quotients(value) ==
  LET rest[n \in 0..WordBytes] == IF n = 0 THEN value ELSE rest[n - 1] \div 256
  IN  rest

(* The number has no more digits than a word has bytes. *)
Holds(value) == Quotients(value)[WordBytes] = 0

Word(value) ==
  LET rest == Quotients(value)
  IN  [i \in 1..WordBytes |-> rest[WordBytes - i] % 256]

(* The first n sequences, joined. *)
Joining(seqs) ==
  LET joined[n \in 0..Len(seqs)] == IF n = 0 THEN <<>> ELSE joined[n - 1] \o seqs[n]
  IN  joined
Join(seqs) == Joining(seqs)[Len(seqs)]

(* Zeros up to the next word. *)
Padded(bytes) ==
  bytes \o [i \in 1..((WordBytes - (Len(bytes) % WordBytes)) % WordBytes) |-> 0]

EncodeBytes(bytes) == Word(Len(bytes)) \o Padded(bytes)

EncodeCall(call) ==
  Word(call.target) \o Word(IF call.allowFailure THEN 1 ELSE 0)
    \o Word(3 * WordBytes) \o EncodeBytes(call.data)

(* An array of tuples: where it is, its length, their offsets, the tuples. *)
EncodeArray(tuples) ==
  LET before == Joining(tuples)
      Offset(i) == Len(tuples) * WordBytes + Len(before[i - 1])
  IN  Word(WordBytes) \o Word(Len(tuples))
        \o Join([i \in DOMAIN tuples |-> Word(Offset(i))]) \o Join(tuples)

EncodeAggregate3(calls) == EncodeArray([i \in DOMAIN calls |-> EncodeCall(calls[i])])
-----------------------------------------------------------------------------
HasWord(data, offset) == offset + WordBytes <= Len(data)

ReadWord(data, offset) ==
  LET value[n \in 0..WordBytes] == IF n = 0 THEN 0 ELSE 256 * value[n - 1] + data[offset + n]
  IN  value[WordBytes]

HasBytes(data, offset) ==
  /\ HasWord(data, offset)
  /\ offset + WordBytes + ReadWord(data, offset) <= Len(data)

ReadBytes(data, offset) ==
  SubSeq(data, offset + WordBytes + 1, offset + WordBytes + ReadWord(data, offset))

ArrayAt(data) == ReadWord(data, 0)
LengthOf(data) == ReadWord(data, ArrayAt(data))
HeadsAt(data) == ArrayAt(data) + WordBytes

(* Where the i-th tuple is, and the bytes its word at `place` points to. *)
TupleAt(data, i) == HeadsAt(data) + ReadWord(data, HeadsAt(data) + (i - 1) * WordBytes)
Pointed(data, i, place) == TupleAt(data, i) + ReadWord(data, TupleAt(data, i) + place)

(* decodeAggregate3 throws on anything that leaves the data. *)
Decodes(data) ==
  /\ HasWord(data, 0) /\ HasWord(data, ArrayAt(data))
  /\ HeadsAt(data) + LengthOf(data) * WordBytes <= Len(data)
  /\ \A i \in 1..LengthOf(data) :
       /\ HasWord(data, TupleAt(data, i)) /\ ReadWord(data, TupleAt(data, i)) \in {0, 1}
       /\ HasWord(data, TupleAt(data, i) + WordBytes)
       /\ HasBytes(data, Pointed(data, i, WordBytes))

DecodeAggregate3(data) ==
  [i \in 1..LengthOf(data) |->
     [success |-> ReadWord(data, TupleAt(data, i)) = 1,
      data |-> ReadBytes(data, Pointed(data, i, WordBytes))]]
-----------------------------------------------------------------------------
(* The contract's side: the calls it is given and the results it returns.  *)
ReceivedCalls(data) ==
  [i \in 1..LengthOf(data) |->
     [target |-> ReadWord(data, TupleAt(data, i)),
      allowFailure |-> ReadWord(data, TupleAt(data, i) + WordBytes) = 1,
      data |-> ReadBytes(data, Pointed(data, i, 2 * WordBytes))]]

Returned(results) ==
  EncodeArray([i \in DOMAIN results |->
    Word(IF results[i].success THEN 1 ELSE 0) \o Word(2 * WordBytes) \o EncodeBytes(results[i].data)])
=============================================================================
