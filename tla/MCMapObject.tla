---------------------------- MODULE MCMapObject ----------------------------
(* Small maps, a table of four buckets at first and of six when it grows:   *)
(* the letters of the names decide which chains a put meets.                *)
EXTENDS MapObject

LOCAL INSTANCE SequencesExt

CONSTANTS v1, v2

a == <<97>>
b == <<98>>
c == <<99>>
d == <<100>>
e == <<101>>
f == <<102>>
h == <<104>>
l == <<108>>

\* a and e collide.
Colliding == SetToSeqs({a, e, b})

\* No two of them collide in a table of four or of six, and none leaves its
\* bucket when the table grows.
Lucky == SetToSeqs({<<96>>, a, b, c})

\* d, e and f all leave their buckets when the put of c makes the table grow, f
\* for a lower one than before; there l collides with f.
Moving == {names \o <<c, l>> : names \in SetToSeqs({d, e, f})}

\* With a long of 16 bits: an overflow to a positive and one to a negative
\* number, and a sum that just fits.
Long == SetToSeqs({<<97, 97, 97, 97>>, <<102, 103, 103, 103>>, <<122, 97, 121>>})

Regular == Colliding \cup Lucky \cup Moving \cup Long

\* The theorems about MapObject are about all of them.
ASSUME RegularAreTame ==
    /\ \A names \in Colliding \cup Long : Few(names)
    /\ \A names \in Lucky \cup Moving : ~Few(names) /\ Scattered(names)

\* h and b share a bucket of six, though not of four.
Meeting == SetToSeqs({h, a, b, c})
=============================================================================
