-------------------------- MODULE DeliveryContract --------------------------
(***************************************************************************)
(* What telemetry ingestion promises an adapter, without buffers, flushes  *)
(* or tasks: a call is accepted or refused as a whole; an accepted point   *)
(* stays pending until the database took it, refused it, or a cancelled    *)
(* flush gave it up; only pending points reach the database, and a settled *)
(* point is never written again.                                           *)
(***************************************************************************)
CONSTANTS Points, Invalid

VARIABLES fresh, pending, rejected, stored, dropped, lost

cvars == <<fresh, pending, rejected, stored, dropped, lost>>

CInit ==
  /\ fresh = Points /\ pending = {}
  /\ rejected = {} /\ stored = {} /\ dropped = {} /\ lost = {}

Accept(ps) ==
  /\ ps \subseteq fresh
  /\ fresh' = fresh \ ps
  /\ pending' = pending \cup (ps \ Invalid)
  /\ UNCHANGED <<rejected, stored, dropped, lost>>

Refuse(ps) ==
  /\ ps \subseteq fresh
  /\ fresh' = fresh \ ps
  /\ rejected' = rejected \cup (ps \ Invalid)
  /\ UNCHANGED <<pending, stored, dropped, lost>>

(* A write that is not acknowledged: the points stay pending and are retried. *)
Attempt(ps) ==
  /\ ps \subseteq pending
  /\ stored' = stored \cup ps
  /\ UNCHANGED <<fresh, pending, rejected, dropped, lost>>

(* A flush ends for good: ok is written, the rest is refused or given up. *)
Settle(ps, ok) ==
  /\ ps \subseteq pending /\ ok \subseteq ps
  /\ pending' = pending \ ps
  /\ stored' = stored \cup ok
  /\ \/ dropped' = dropped \cup (ps \ ok) /\ UNCHANGED lost
     \/ lost' = lost \cup (ps \ ok) /\ UNCHANGED dropped
  /\ UNCHANGED <<fresh, rejected>>

CNext ==
  \/ \E ps \in SUBSET fresh : Accept(ps) \/ Refuse(ps)
  \/ \E ps \in SUBSET pending :
       \/ Attempt(ps)
       \/ \E ok \in SUBSET ps : Settle(ps, ok)

CSpec == CInit /\ [][CNext]_cvars
=============================================================================
