-------------------------------- MODULE List --------------------------------
(***************************************************************************)
(* What vector/vector.c promises: a sequence of values.  Positions count   *)
(* from 0, as in the code.                                                 *)
(***************************************************************************)
EXTENDS Integers, Sequences, SequencesExt

CONSTANTS
  Values,    (* what can be stored                                        *)
  Default,   (* what default_constructor makes                            *)
  MaxSize    (* bound on the size                                         *)

VARIABLE contents

Resized(s, n) == IF n <= Len(s) THEN SubSeq(s, 1, n)
                 ELSE s \o [j \in 1..(n - Len(s)) |-> Default]

ListInit == contents = <<>>

ListNext ==
  \/ \E n \in 0..MaxSize : contents' = Resized(contents, n)
  \/ contents # <<>> /\ contents' = Front(contents)
  \/ \E v \in Values, p \in 0..MaxSize :
       \/ p < Len(contents) /\ contents' = [contents EXCEPT ![p + 1] = v]
       \/ p <= Len(contents) /\ contents' = InsertAt(contents, p + 1, v)
  \/ \E p \in 0..MaxSize :
       p < Len(contents) /\ contents' = RemoveAt(contents, p + 1)

ListSpec == ListInit /\ [][ListNext]_contents
=============================================================================
