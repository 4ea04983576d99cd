----------------------------- MODULE MCRouter ------------------------------
(* A finite instance of Router for TLC.                                    *)
EXTENDS Router

SomeCharacters == {"/", "?", "#", "&", "=", "a", "A", "b"}
SomeLower == [x \in SomeCharacters |-> IF x = "A" THEN "a" ELSE x]

SomeResources == {<<"/">>, <<"/", "a">>, <<"/", "A", "/">>, <<"/", "a", "/", "b">>}

(* Every path of up to three characters and one longer, with nothing after *)
(* it, a query, a fragment or both; every query of two items of up to      *)
(* three words; and targets with several "?" and "#".                      *)
Paths == UNION {[1..n -> {"/", "a", "A", "b"}] : n \in 0..3} \cup {<<"/", "A", "/", "b">>}
Words == {<<>>, <<"a">>}
Items == UNION {[1..n -> Words] : n \in 1..3}
Pair == << <<"a">>, <<"b">> >>
Unclear == << <<"a">>, <<"?">> >>

SomeInputs ==
    [path : Paths, query : {None, << Pair >>}, fragment : {None, <<"?", "b">>}]
    \cup [path : {<<"/", "a">>}, query : {<<i, j>> : i, j \in Items}, fragment : {None}]
    \cup [path : {<<>>, <<"/", "a">>}, query : {None, << Pair >>, << Unclear >>},
           fragment : {None, <<"#">>, <<"b", "#", "?">>}]
=============================================================================
