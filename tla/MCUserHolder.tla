----------------------------- MODULE MCUserHolder -----------------------------
(* UserHolder for TLC: a few contents on a coarse clock.  The buffer holds *)
(* two lines, so that a third overwrites the first.                        *)
EXTENDS UserHolder

CONSTANTS u1, u2

Limited(u, n) == [user |-> u, max |-> n, len |-> 1]
Broken == [user |-> Nobody, max |-> 0, len |-> 1]
Content(ls, nl) == [lines |-> ls, ended |-> nl]

MCContents ==
    {Content(ls, TRUE) : ls \in {<<>>,
                                 <<Limited(u1, 0)>>,
                                 <<Limited(u1, 1), Limited(u2, 1)>>,
                                 <<Limited(u2, 1), Limited(u2, 0)>>,
                                 <<Limited(u1, 1), Broken>>,
                                 <<Limited(u1, 1), Limited(u2, 1), Limited(u1, 0)>>}}
    \cup {Content(<<Limited(u1, 1), Limited(u2, 0)>>, FALSE)}
=============================================================================
