--------------------------- MODULE MCMatchmaking ---------------------------
(***************************************************************************)
(* Three players, two of them of one rating bucket.  Two instances run over*)
(* one pool, or one runs alone, at which players subscribe.                *)
(***************************************************************************)
EXTENDS Matchmaking

CONSTANTS i1, i2, i3

MCPlayer      == 1..3
MCRating      == <<900, 1000, 1100>>
MCInstance    == {i1, i2, i3}
MCDeployments == {{i1, i2}, {i3}}
=============================================================================
