----------------------------- MODULE MCZlbClient -----------------------------
(* A small instance of ZlbClient: two columns, asked for in three ways.     *)
EXTENDS ZlbClient

Id   == [name |-> "id", type |-> 3]
Name == [name |-> "name", type |-> 253]

MCSelects == {<<Id, Name>>, <<Name, Id>>, <<Name>>}
=============================================================================
