-------------------------------- MODULE MCRomFs --------------------------------
(* RomFs with bytes of four values, and files of up to sixteen bytes, one more *)
(* than the format can hold, whose data look like ends of names, sizes and     *)
(* names.                                                                      *)
EXTENDS RomFs

File(name, data) == [name |-> name, data |-> data]
MCFiles == {File(<<1>>, <<>>), File(<<1, 2>>, <<0, 0, 1>>), File(<<2>>, <<1, 0, 2, 0, 3>>),
            File(<<1, 2, 3>>, <<3>>), File(<<11>>, <<2, 1>>),
            File(<<2, 1>>, [i \in 1..16 |-> i % 3]),
            File(<<3, 3>>, [i \in 1..15 |-> i % 4])}

MCLists == UNION {[1..n -> MCFiles] : n \in 0..3}
MCAsked == {<<1>>, <<11, 2>>, <<2>>, <<3, 3>>}
MCOffsets == {-1, 2}
=============================================================================
