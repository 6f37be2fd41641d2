-------------------------- MODULE SessionRefinement --------------------------
(***************************************************************************)
(* SessionStore implements SessionAtomic: the tables of the two have the   *)
(* same names, and the commits are the steps that matter.                  *)
(***************************************************************************)
EXTENDS SessionClaims

Atomic == INSTANCE SessionAtomic WITH
  status <- status, uuid <- uuid, version <- version,
  absent <- absent, games <- games, outbox <- outbox

\* However the transactions interleave, wait, deadlock and crash, what the
\* clients see in the tables is one request after the other, each applied to
\* the version its If-Match named.
TakesEffectAtOnce == Atomic!Spec
=============================================================================
