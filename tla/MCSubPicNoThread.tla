-------------------------- MODULE MCSubPicNoThread --------------------------
(* Small instances of SubPicNoThread: the texts the providers hold.         *)
EXTENDS SubPicNoThreadProperties, TLC

MCUnknown == 100
Providers == Permutations(Provider)

Static(a, b, l) == [start |-> a, stop |-> b, animated |-> FALSE, look |-> l]
Moving(a, b, l) == [start |-> a, stop |-> b, animated |-> TRUE, look |-> l]

\* a text whose end is not known, what it becomes when an animation follows it, and the
\* same in another style
Growing == {<<Static(0, MCUnknown, 1)>>,
            <<Static(0, 1, 1), Moving(2, 4, 2)>>,
            <<Static(0, 1, 3), Moving(2, 4, 2)>>}
=============================================================================
