----------------------------- MODULE MCRuntime -----------------------------
(***************************************************************************)
(* Programs, claims and rows for the runs of Runtime.                      *)
(***************************************************************************)
EXTENDS Resources, TLC

Rows1 == [id |-> 2, key |-> BoolT, value |-> BytesT(1)]
KeyBytes(b) == EncodeKey(BoolT, Encode(BoolV(b))).v
Address(b) == <<2, KeyBytes(b)>>

(* Registers: a key, a value, the rows of a scan.                          *)
StorageProgram(arguments, ins) ==
  [types |-> <<BoolT, BytesT(2), RowsT(1, BoolT, BytesT(1))>>,
   argtypes |-> <<BoolT>>, arguments |-> arguments,
   consttypes |-> <<BytesT(2), BytesT(2), BoolT>>,
   constants |-> <<BytesV(<<1>>), BytesV(<<1, 1>>), BoolV(TRUE)>>,
   tables |-> <<Rows1>>, result |-> BytesT(1), ins |-> ins]

Accesses ==
  {Ins("load", 2, <<1>>, 1), Ins("exists", 1, <<1>>, 1), Ins("insert", 0, <<1, 2>>, 1),
   Ins("store", 0, <<1, 2>>, 1), Ins("delete", 0, <<1>>, 1),
   ScanIns(3, 1, 0, 0, FALSE, FALSE, 2, 9), ScanIns(3, 1, 1, 0, TRUE, FALSE, 1, 9),
   ScanIns(3, 1, 1, 1, TRUE, FALSE, 1, 1)}
Moves ==
  {Ins("move", 3, <<3>>, 0), Ins("const", 1, <<>>, 3), Ins("const", 2, <<>>, 2), Ins("boolnot", 1, <<1>>, 0),
   Ins("jumpiffalse", 0, <<1>>, 5), Ins("jumpiffalse", 0, <<1>>, 6), Ins("jump", 0, <<>>, 5),
   Ins("require", 0, <<1>>, 7), Ins("abort", 0, <<>>, 7), Ins("return", 0, <<2>>, 0)}
Full == Accesses \cup Moves
Core ==
  Full \ {Ins("const", 2, <<>>, 2), Ins("boolnot", 1, <<1>>, 0), Ins("move", 3, <<3>>, 0),
          Ins("exists", 1, <<1>>, 1), Ins("jump", 0, <<>>, 5), Ins("require", 0, <<1>>, 7),
          ScanIns(3, 1, 1, 1, TRUE, FALSE, 1, 1)}

StoragePrograms(instructions, n) ==
  {StorageProgram(<<BoolV(k)>>,
     <<Ins("arg", 1, <<>>, 1), Ins("const", 2, <<>>, 1)>> \o b \o <<Ins("return", 0, <<2>>, 0)>>) :
   k \in BOOLEAN, b \in UNION {[1 .. l -> instructions] : l \in 0 .. n}}

TwoStores ==
  [{Address(FALSE), Address(TRUE)} -> {Absent, Encode(BytesV(<<0>>))}]

Loose == [id \in 1 .. 17 |-> 99]
Tight ==
  {Loose} \cup {[Loose EXCEPT ![id] = n] : id \in {2, 8, 9, 10, 13, 15}, n \in 0 .. 1}
    \cup {[Loose EXCEPT ![id] = n] : id \in {11, 12, 17}, n \in {1, 2}}
    \cup {[Loose EXCEPT ![id] = n] : id \in {14, 16}, n \in {2, 11, 12}}
    \cup {[Loose EXCEPT ![1] = 48], [Loose EXCEPT ![5] = 2]}

Broad == {Entry(2, WholeTable, {"r", "w"})}
Points == {Entry(2, KeyBytes(FALSE), {"r", "w"}), Entry(2, WholeTable, {"r"})}

(* One operation on two or three arguments, for every signature over a few *)
(* types; the rows come from a scan.                                       *)
Pairs == TupleT(<<U64, BoolT>>)
ScanT == RowsT(2, BoolT, BytesT(1))
Signature == {BoolT, U64, I64, BytesT(2), StringT(2), Pairs, ScanT}
Sample(t) ==
  CASE t = BoolT -> {BoolV(b) : b \in BOOLEAN}
    [] t = U64 -> {Number("u64", n) : n \in {0, 1, 8, 15}}
    [] t = I64 -> {Number("i64", n) : n \in {-8, -1, 0, 7}}
    [] t = BytesT(2) -> {BytesV(b) : b \in {<<>>, <<3>>, <<1, 2>>}}
    [] t = StringT(2) -> {StringV(b) : b \in {<<>>, <<1>>, <<1, 1>>}}
    [] t = Pairs -> {TupleV(<<Number("u64", 1), BoolV(TRUE)>>)}
    [] t = ScanT -> {UnitV}

Some(t, all) == IF all THEN Sample(t) ELSE {CHOOSE v \in Sample(t) : TRUE}

Input(r, t) == IF t = ScanT THEN ScanIns(r, 1, 0, 0, FALSE, FALSE, 2, 9) ELSE Ins("arg", r, <<>>, r - 1)
ArgType(t) == IF t = ScanT THEN UnitT ELSE t
PureProgram(result, given, args, ins) ==
  LET sig == given \o <<UnitT, UnitT, UnitT>>
      n == Len(given)
  IN
  [types |-> <<result>> \o given, argtypes |-> SubSeq(<<ArgType(sig[1]), ArgType(sig[2]), ArgType(sig[3])>>, 1, n),
   arguments |-> args, consttypes |-> <<>>, constants |-> <<>>, tables |-> <<Rows1>>,
   result |-> result,
   ins |-> SubSeq(<<Input(2, sig[1]), Input(3, sig[2]), Input(4, sig[3])>>, 1, n) \o <<ins, Ins("return", 0, <<1>>, 0)>>]

BinaryPrograms(types) ==
  UNION {{PureProgram(d, <<l, r>>, <<a, b>>, Ins(op, 1, <<2, 3>>, 0)) :
            op \in BinaryOps, a \in Some(l, d \in {l, BoolT}), b \in Some(r, r \in {l, U64})} :
         d \in Signature \ {StringT(2), Pairs}, l \in types, r \in {U64, I64, BoolT, BytesT(2), StringT(2)}}
UnaryPrograms(types) ==
  UNION {{PureProgram(d, <<l>>, <<a>>, Ins(op, 1, <<2>>, 0)) :
            op \in UnaryOps \cup {"move", "require"}, a \in Sample(l)} :
         d \in types, l \in types}
OtherPrograms(types) ==
  {PureProgram(BytesT(2), <<BytesT(2), U64, U64>>, <<a, b, c>>, Ins("slice", 1, <<2, 3, 4>>, 0)) :
     a \in Sample(BytesT(2)), b \in Sample(U64), c \in Sample(U64)}
  \cup UNION {{PureProgram(TupleT(<<d, e>>), <<l, r>>, <<a, b>>, Ins("tuple", 1, <<2, 3>>, 0)) :
            a \in Sample(l), b \in Sample(r)} :
         d \in {BoolT, U64, BytesT(1)}, e \in {BoolT, I64}, l \in types \ {ScanT},
         r \in types \ {ScanT}}
  \cup {PureProgram(d, <<Pairs>>, <<a>>, Ins("field", 1, <<2>>, x)) :
         d \in types \ {ScanT}, a \in Sample(Pairs), x \in 0 .. 3}
PurePrograms ==
  BinaryPrograms(Signature) \cup UnaryPrograms(Signature) \cup OtherPrograms(Signature)

OneStore == {[a \in {Address(FALSE), Address(TRUE)} |-> Encode(BytesV(<<0>>))]}

-----------------------------------------------------------------------------
(* Programs with three accesses or branches under every kind of manifest,  *)
(* shorter ones under claims that end them, and single pure operations.    *)
MCCases ==
  {[programs |-> StoragePrograms(Core, 3), claims |-> {Loose}, stores |-> TwoStores,
    manifests |-> {Broad, Points}],
   [programs |-> StoragePrograms(Full, 2), claims |-> Tight, stores |-> TwoStores,
    manifests |-> {}],
   [programs |-> PurePrograms, claims |-> {Loose}, stores |-> OneStore, manifests |-> {}]}

=============================================================================
