-------------------------- MODULE MCHDCSerializers --------------------------
(* Trees that hold what the formats differ in. *)
EXTENDS HDCSerializers

Struct(keys, kids) ==
    [p \in {<<>>} \cup UNION {{<<keys[i]>> \o q : q \in DOMAIN kids[i]} : i \in DOMAIN keys} |->
        IF p = <<>> THEN StructNode(keys)
        ELSE kids[CHOOSE i \in DOMAIN keys : keys[i] = Head(p)][Tail(p)]]
Data(type, shape, elems) == Alone(Array(type, shape, elems))
InFortranOrder(t) == [t EXCEPT ![<<>>].order = "F"]
External(t) == [t EXCEPT ![<<>>].external = TRUE]

Text == Data("STRING", <<>>, <<7>>)
Truth == Data("BOOL", <<>>, <<2>>)
One == Data("INT32", <<>>, <<2>>)
Two == Data("INT64", <<>>, <<4>>)
Large == Data("INT64", <<>>, <<2 * IntMax + 2>>)
Half == Data("DOUBLE", <<>>, <<1>>)
Whole == Data("DOUBLE", <<>>, <<4>>)
Pair == Data("INT32", <<2>>, <<2, 4>>)
Wholes == Data("DOUBLE", <<2>>, <<2, 2 * IntMax + 2>>)
Huge == Data("DOUBLE", <<2>>, <<2, 2 * LargestMax + 2>>)
Gap == Data("DOUBLE", <<2>>, <<NaN, 1>>)
Bools == Data("BOOL", <<2>>, <<0, 2>>)
Nothing == Data("INT32", <<2, 0>>, <<>>)
Grid == Data("DOUBLE", <<2, 3>>, <<1, 2, 3, 4, 5, 6>>)
Cube == Data("UINT8", <<1, 1, 2>>, <<2, 4>>)
Fortran == InFortranOrder(Grid)
FortranPair == InFortranOrder(Pair)
FortranScalar == InFortranOrder(One)
ExternalPair == External(Pair)
ExternalBools == External(Bools)
ExternalGrid == External(Grid)

Single == {Empty, Text, Truth, One, Large, Half, Whole, Pair, Wholes, Huge, Gap, Bools,
          Nothing, Grid, Cube, Fortran, FortranPair, FortranScalar, ExternalPair, ExternalBools,
          ExternalGrid}
Items == {Empty, Text, Truth, One, Half, Whole, Pair, Gap, Wholes, Bools, ExternalPair,
          List(<<>>), Alone(StructNode(<<>>))}
Lists == {List(<<x, y>>): x \in Items, y \in Items} \cup {List(<<>>)}
MCTrees ==
    Single \cup Lists
    \cup {Struct(<<2, 1>>, <<x, y>>): x \in Items, y \in {Fortran, Large, List(<<One, Text>>)}}
    \cup {List(<<List(<<Pair, x>>), y>>): x \in {Pair, One, Text}, y \in {List(<<Pair, Pair>>), Pair}}
    \cup {Alone(StructNode(<<>>))}

MCUploads == {
    Struct(<<2, 1>>, <<One, List(<<Text, Gap>>)>>),
    Struct(<<1>>, <<List(<<Two, Half, Two>>)>>),
    Struct(<<3>>, <<Struct(<<1, 2>>, <<ExternalPair, Large>>)>>)}
=============================================================================
