------------------------- MODULE InstructionDecoding -------------------------
(***************************************************************************)
(* What the decoders make of the data of an instruction or an account.     *)
(*                                                                         *)
(* A decoder is the list of the types it knows, in the order in which it   *)
(* tries them: [type, disc, fields].  Data and discriminators are          *)
(* sequences of words; Borsh reads one word for a field, and a word can be *)
(* Invalid (no bool, no variant of an enum).                               *)
(*                                                                         *)
(* Nothing here looks at the program that was called: an instruction of    *)
(* another program is decoded if its data fit.                             *)
(***************************************************************************)
EXTENDS Integers, Sequences, FiniteSets, FiniteSetsExt, SequencesExt

Invalid == "invalid"
None    == "none"

\* An inner instruction that came in another form than compiled, or whose data
\* are no base58, goes on with empty data.
NoData == <<>>

\* What data and decoders are.
IsWords(data)      == data \in Seq(Range(data))
IsDecoder(decoder) ==
  /\ IsWords(decoder)
  /\ \A i \in DOMAIN decoder :
       IsWords(decoder[i].disc) /\ decoder[i].fields \in Nat /\ decoder[i].type # None

\* BorshDeserialize of a struct: field by field; words may be left over.
BorshReads(fields, rest) ==
  /\ Len(rest) >= fields
  /\ \A i \in 1..fields : rest[i] # Invalid

\* CarbonDeserialize::deserialize gives Some.
Deserializes(variant, data) ==
  LET size == Len(variant.disc) IN
  /\ Len(data) >= size
  /\ SubSeq(data, 1, size) = variant.disc
  /\ BorshReads(variant.fields, SubSeq(data, size + 1, Len(data)))

\* The first that gives Some.
FirstOf(results) ==
  LET some == {i \in DOMAIN results : results[i] # None}
  IN IF some = {} THEN None ELSE results[Min(some)]

\* decode_instruction and decode_account.
DecodeWith(decoder, data) ==
  FirstOf([i \in DOMAIN decoder |->
             IF Deserializes(decoder[i], data) THEN decoder[i].type ELSE None])

\* parse_instruction and get_type of a collection of [program, decoder].
ParseInstruction(collection, data) ==
  FirstOf([i \in DOMAIN collection |->
             LET type == DecodeWith(collection[i].decoder, data)
             IN IF type = None THEN None ELSE <<collection[i].program, type>>])

-----------------------------------------------------------------------------
(* The reference, for the properties.                                      *)

\* The data are a discriminator of the decoder, followed by the fields of its
\* type and anything else.
Understands(decoder, data) ==
  \E i \in DOMAIN decoder :
    LET disc == decoder[i].disc
        end  == Len(disc) + decoder[i].fields
    IN /\ IsPrefix(disc, data) /\ end <= Len(data)
       /\ Invalid \notin {data[k] : k \in (Len(disc) + 1)..end}
=============================================================================
