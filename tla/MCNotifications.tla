-------------------------- MODULE MCNotifications --------------------------
(* Values for model checking Notifications (and Documents, which it        *)
(* extends).  A cast is a set of actors that take part together, so that   *)
(* the states of different casts add instead of multiplying.               *)
EXTENDS Notifications

CONSTANTS s1, s2, e1, e2, p1, p2, k1, k2, c1, c2, u1, u2

MCCasts ==
    { {s1, e1},                         \* an upload, and extraction as soon as it may
      {e1, e2, p1, p2},                 \* two runs and two choices on one source
      {e1, k1, c1, u1, "sensors"},      \* both assets and their notifications
      {k1, k2, c1, u1, u2, "sensors"},  \* two runs of one asset, of two users
      {k1, c1, c2, u1, u2, "sensors"} } \* two connections, of one user or of two
=============================================================================
