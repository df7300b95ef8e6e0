---------------------------- MODULE MCChannelPool ----------------------------
(* Tuner a feeds tuner b, which has a user band.  Both find transponder x,  *)
(* b alone finds y, a alone z.                                             *)
EXTENDS ChannelPool, TLC
CONSTANTS x, y, z, raw, u1, u2, a, b, c
MCChans == {x, y, z}
MCTunes == (x :> {a, b}) @@ (y :> {b}) @@ (z :> {a})
MCRootOf == (a :> None) @@ (b :> a)

(* Tuner a feeds two tuners, b and c. *)
ForkTunes == (x :> {b}) @@ (y :> {c}) @@ (z :> {a})
ForkRootOf == (a :> None) @@ (b :> a) @@ (c :> a)
==============================================================================
