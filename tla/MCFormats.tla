----------------------------- MODULE MCFormats -----------------------------
(***************************************************************************)
(* The formats and the checks of untrusted bytes side by side: each        *)
(* behaviour exercises one of them, which part names, and leaves the       *)
(* variables of the others alone.                                          *)
(***************************************************************************)
EXTENDS Records

VARIABLES
  part,                  \* the format of this behaviour
  node, pages, forged,   \* PageCodec
  ty, input, result,     \* Encoding
  given,                 \* Manifest
  code                   \* Verifier

page == <<node, pages, forged>>
coded == <<ty, input, result>>
stored == <<format, message, bytes, changes, found>>

-----------------------------------------------------------------------------
(* Pages: leaves, internal nodes and overflow chains.                      *)

Leaf == INSTANCE PageCodec WITH
  PAGE_SIZE <- 9, MAX_KEY <- 2, INLINE_LIMIT <- 1, MAX_VALUE <- 3, PageCount <- 4,
  Kind <- "leaf", Forgeries <- 2
Internal == INSTANCE PageCodec WITH
  PAGE_SIZE <- 9, MAX_KEY <- 2, INLINE_LIMIT <- 1, MAX_VALUE <- 3, PageCount <- 4,
  Kind <- "internal", Forgeries <- 2
Overflow == INSTANCE PageCodec WITH
  PAGE_SIZE <- 9, MAX_KEY <- 2, INLINE_LIMIT <- 1, MAX_VALUE <- 30, PageCount <- 6,
  Kind <- "overflow", Forgeries <- 2

(* Values, descriptors and keys.                                           *)

Pair == TupleT(<<BytesT(1), BoolT>>)
ValueTypes ==
  {UnitT, BoolT, I64, BytesT(2), StringT(2), Pair, TupleT(<<StringT(2), UnitT, U64>>),
   RowsT(2, BoolT, BytesT(1)), RowsT(2, BytesT(1), UnitT), RowsT(1, I64, BoolT)}
KeyTypes ==
  {UnitT, BoolT, I64, U64, BytesT(2), StringT(2), Pair,
   TupleT(<<I64, BytesT(1)>>), TupleT(<<BytesT(1), BytesT(1)>>)}

Descriptors == INSTANCE Encoding WITH
  Kind <- "descriptor", Types <- {UnitT}, MaxInput <- 5
ValueCodes == INSTANCE Encoding WITH Kind <- "value", Types <- ValueTypes, MaxInput <- 6
KeyCodes == INSTANCE Encoding WITH Kind <- "key", Types <- KeyTypes, MaxInput <- 6
Order == INSTANCE Encoding WITH Kind <- "order", Types <- KeyTypes, MaxInput <- 0

(* Access manifests: the empty key, two short ones, one too long.          *)
Declared == INSTANCE Manifest WITH
  Tables <- {0, 1, 2, 3}, Keys <- {<<>>, <<0>>, <<0, 0>>}, TABLE_LIMIT <- 3,
  MAX_KEY <- 1, MAX_ENTRIES <- 2, MAX_DECLARED <- 3

(* Programs: two registers, jumps everywhere.                              *)
Instruction(op, dst, src, x) ==
  [op |-> op, dst |-> dst, src |-> src, x |-> x, lo |-> FALSE, hi |-> FALSE,
   rows |-> 0, bytes |-> 0]
Verified == INSTANCE Verifier WITH
  program <- code, MAX_LENGTH <- 5,
  Instructions <-
    {Instruction("arg", 1, <<>>, 1), Instruction("boolnot", 2, <<1>>, 0),
     Instruction("return", 0, <<2>>, 0), Instruction("abort", 0, <<>>, 7)}
      \cup {Instruction("jump", 0, <<>>, x) : x \in {2, 4, 5}}
      \cup {Instruction("jumpiffalse", 0, <<1>>, x) : x \in {3, 4, 6}}

(* Stored forms: what an encoder takes and what it refuses.                *)
Name == <<2, 1>>
Policies == {<<3, 2, 2, 9>>, <<0, 0, 0, 0>>, <<3, 2, 3, 9>>}
Versions ==
  {[id |-> id, live |-> live, name |-> name, key |-> key, value |-> value] :
     id \in {1, 24}, live \in BOOLEAN, name \in {Name, <<>>, <<3, 3, 3>>},
     key \in {U64, TupleT(<<BytesT(2), BytesT(2)>>)}, value \in {Pair, RowsT(1, BoolT, UnitT)}}
OperationsGiven ==
  {[op |-> op, table |-> table, name |-> name, key |-> BytesT(1), value |-> value] :
     op \in {"create"}, table \in {0}, name \in {Name, <<0>>}, value \in {UnitT, StringT(3)}}
    \cup {[op |-> "rename", table |-> table, name |-> name, key |-> UnitT, value |-> UnitT] :
            table \in {0, 4}, name \in {Name, <<>>}}
    \cup {[op |-> "drop", table |-> table, name |-> <<>>, key |-> UnitT, value |-> UnitT] :
            table \in {4, 24}}
Entry(table, kind, mode, key) == [table |-> table, kind |-> kind, mode |-> mode, key |-> key]
Transactions ==
  {[program |-> program, arguments |-> arguments, manifest |-> manifest, claims |-> <<2, 1, 2, 0>>] :
     program \in {<<>>, <<9, 9>>, <<9, 9, 9>>}, arguments \in {<<>>, <<4>>},
     manifest \in {<<>>, <<Entry(2, 0, 1, <<>>), Entry(2, 1, 2, <<0>>)>>, <<Entry(3, 1, 3, <<>>)>>}}
CatalogueValue == <<1, 1, 0, 2, 2, 1, 2, 1, 3, 2, 1, 0>>
E(tag, table, key, value) == [tag |-> tag, table |-> table, key |-> key, value |-> value]
O(sequence, kind, ok, abort, type, value, effects) ==
  [sequence |-> sequence, digest |-> 9, kind |-> kind, ok |-> ok,
   reason |-> abort[1], instruction |-> abort[2], code |-> abort[3], detail |-> abort[4],
   type |-> type, value |-> value, effects |-> effects]
Outcomes ==
  {O(5, 1, TRUE, NoAbort, ty_, Val(ty_.t, n, <<>>, <<>>), effects) :
     ty_ \in {UnitT, BoolT}, n \in {0},
     effects \in {<<>>, <<E(2, 4, <<>>, <<>>), E(1, 3, <<1>>, <<0>>)>>,
                 <<E(1, 3, <<1>>, <<0, 0>>), E(2, 3, <<>>, <<>>)>>,
                 <<E(1, 3, <<1>>, <<0>>), E(2, 3, <<1>>, <<>>)>>,
                 <<E(1, 5, <<>>, <<>>)>>}}
    \cup {O(5, 1, TRUE, NoAbort, StringT(2), StringV(Name), <<E(1, 1, <<0, 1>>, <<0, 1>>)>>)}
    \cup {O(sequence, 2, TRUE, NoAbort, U64, Number("u64", 5), <<E(3, 5, <<>>, CatalogueValue)>>) :
            sequence \in {5, 6}}
    \cup {O(sequence, 2, TRUE, NoAbort, UnitT, UnitV, <<E(3, 5, <<>>, CatalogueValue)>>) :
            sequence \in {5, 6}}
    \cup {O(5, 3, TRUE, NoAbort, UnitT, UnitV, <<E(4, 0, <<>>, <<3, 2, 2, 9>>)>>)}
    \cup {O(5, kind, FALSE, abort, UnitT, UnitV, <<>>) :
            kind \in 1 .. 3,
            abort \in {<<1, 3, 0, 0>>, <<4, 3, 7, 0>>, <<7, 0, 0, 4>>, <<7, 0, 0, 5>>, <<16, 24, 0, 0>>}}
StoredCeilings == <<3, 2, 2, 9>>
StoredMessages ==
  [policy |-> Policies, limits |-> Policies,
   genesis |-> {[id |-> id, policy |-> policy] : id \in {0, 6}, policy \in Policies \ {<<3, 2, 3, 9>>}},
   current |-> {[generation |-> g, digest |-> 9] : g \in {0, 1, 24}},
   token |-> {[kind |-> k, db |-> 6, namespace |-> 7, id |-> 1] : k \in 1 .. 3},
   watermark |-> {[db |-> 6, sequence |-> s] : s \in {0, 23}},
   hex |-> {[db |-> 6, sequence |-> s] : s \in {0, 23}},
   key |-> {[id |-> id, sequence |-> s] : id \in 1 .. 4, s \in 4 .. 6},
   catalogue |-> Versions, transaction |-> Transactions,
   operation |-> OperationsGiven, outcome |-> Outcomes]

-----------------------------------------------------------------------------
Blank == <<>>
NoPage == node = Blank /\ pages = Blank /\ forged = 0
NoCoded == ty = UnitT /\ input = Blank /\ result = Reject
NoStored == format = "" /\ message = Blank /\ bytes = Blank /\ changes = 0 /\ found = Unread

FormatsInit ==
  \/ /\ \/ part = "leaf" /\ Leaf!Init
        \/ part = "internal" /\ Internal!Init
        \/ part = "overflow" /\ Overflow!Init
     /\ NoCoded /\ given = Blank /\ code = Blank /\ NoStored
  \/ /\ \/ part = "descriptor" /\ Descriptors!Init
        \/ part = "value" /\ ValueCodes!Init
        \/ part = "key" /\ KeyCodes!Init
        \/ part = "order" /\ Order!Init
     /\ NoPage /\ given = Blank /\ code = Blank /\ NoStored
  \/ part = "manifest" /\ Declared!Init /\ NoPage /\ NoCoded /\ code = Blank /\ NoStored
  \/ part = "program" /\ Verified!Init /\ NoPage /\ NoCoded /\ given = Blank /\ NoStored
  \/ part = "stored" /\ Init /\ NoPage /\ NoCoded /\ given = Blank /\ code = Blank

FormatsNext ==
  /\ \/ part = "leaf" /\ Leaf!Next /\ UNCHANGED <<coded, given, code, stored>>
     \/ part = "internal" /\ Internal!Next /\ UNCHANGED <<coded, given, code, stored>>
     \/ part = "overflow" /\ Overflow!Next /\ UNCHANGED <<coded, given, code, stored>>
     \/ part = "descriptor" /\ Descriptors!Next /\ UNCHANGED <<page, given, code, stored>>
     \/ part = "value" /\ ValueCodes!Next /\ UNCHANGED <<page, given, code, stored>>
     \/ part = "key" /\ KeyCodes!Next /\ UNCHANGED <<page, given, code, stored>>
     \/ part = "order" /\ Order!Next /\ UNCHANGED <<page, given, code, stored>>
     \/ part = "manifest" /\ Declared!Next /\ UNCHANGED <<page, coded, code, stored>>
     \/ part = "program" /\ Verified!Next /\ UNCHANGED <<page, coded, given, stored>>
     \/ part = "stored" /\ Next /\ UNCHANGED <<page, coded, given, code>>
  /\ UNCHANGED part

FormatsSpec == FormatsInit /\ [][FormatsNext]_<<part, page, coded, given, code, stored>>

-----------------------------------------------------------------------------
(* What was written reads back (encode_node and decode_node agree, a       *)
(* stored value is walked to exactly its length) and nothing else does:    *)
(* whatever fields changed, a page that decode_node accepts is the         *)
(* encoding of the node it decodes to, and an overflow chain that is read  *)
(* covers its value exactly.                                               *)
PagesAreCanonical ==
  /\ part = "leaf" => Leaf!RoundTrip /\ Leaf!AcceptedIsCanonical
  /\ part = "internal" => Internal!RoundTrip /\ Internal!AcceptedIsCanonical
  /\ part = "overflow" => Overflow!RoundTrip /\ Overflow!AcceptedChainIsExact

(* Type::decode and Schema::decode accept one descriptor per type and      *)
(* agree on its size; decode_value and the separate validate_value accept  *)
(* the same bytes, the only encoding of a value; decode_key accepts only   *)
(* the key of the value it gives, and keys are ordered as values are.      *)
(* Records, outcomes, catalogue versions, metadata, tokens and watermarks  *)
(* that were encoded are read back, and nothing else is: however an        *)
(* encoding was damaged, what is still accepted is an encoding itself.     *)
CodecsAreExact ==
  /\ part = "descriptor" => Descriptors!DescriptorsAreCanonical
  /\ part = "value" => ValueCodes!DecodedIsExact
  /\ part = "key" => KeyCodes!KeysAreCanonical
  /\ part = "order" => Order!EncodedIsDecoded /\ Order!KeysKeepOrder
  /\ part = "stored" => EncodedIsRead /\ ReadIsCanonical /\ VersionsDescend

(* AccessManifest::new loses and adds no access, decode accepts exactly    *)
(* what new and encode produce, and overlap says yes exactly when two      *)
(* scopes share an address.                                                *)
ManifestsAreExact ==
  part = "manifest" =>
    Declared!NewKeepsCoverage /\ Declared!DecodeIsCanonical /\ Declared!OverlapIsIntersection

(* verify accepts exactly the programs whose every path is sound.          *)
VerifierIsExact == part = "program" => Verified!VerifierIsExact
=============================================================================
