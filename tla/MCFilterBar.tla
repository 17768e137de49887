----------------------------- MODULE MCFilterBar -----------------------------
(***************************************************************************)
(* Two fields, ims.id that holds a string and frame.number that does not,  *)
(* the beginning of the first, and a value.  A link has a set with one     *)
(* member quoted already, which does not compile and is not rewritten.     *)
(***************************************************************************)
EXTENDS FilterBar

CONSTANTS im, id, num, v, and

MCWord == {im, id, num, v, and}

Eq     == Piece("op")
Member == <<Bare(id), Piece("in"), Piece("{"), Bare(v), Piece(","), Bare(v), Piece("}")>>
Quoted == [Member EXCEPT ![4] = Str(v), ![6] = Str(v)]

Mixed  == [Member EXCEPT ![4] = Str(v)]

Both   == <<Bare(num), Eq, Bare(v), Bare(and)>> \o Member

MCTyped == {<<>>, <<Bare(im)>>, <<Bare(id), Eq, Bare(v)>>, Both}
MCLinked == {<<>>, Mixed}
MCFieldText == {<<Bare(num), Eq, Bare(v)>>}
MCAccepts == {<<Bare(id)>>, <<Bare(num)>>, <<Bare(id), Eq, Str(v)>>, <<Bare(num), Eq, Bare(v), Bare(and)>> \o Quoted}
MCOffers == [w \in MCWord |-> IF w = im THEN <<id, num>> ELSE IF w = id THEN <<id>> ELSE <<>>]
MCString == {id}
=============================================================================
