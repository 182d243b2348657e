------------------------------- MODULE Deduper -------------------------------
(***************************************************************************)
(* The finding deduper of middleware/dedup.go: a map from a finding's      *)
(* identity (fingerprint, rule) to the time it was last allowed, bounded   *)
(* by MaxKeys.  The operators below are what one call of `allow` does to   *)
(* the map; the mutex makes each call one step of the modules that use     *)
(* them (FindingDedup, Guard).                                             *)
(*                                                                         *)
(* Here and in every module, an operator named Bug... is not part of the   *)
(* model: it is a faulty variant of the operator that follows it, which    *)
(* the properties are tested against.                                      *)
(***************************************************************************)
EXTENDS Integers, GoMap

CONSTANTS
    Key,      \* identities of findings: fingerprint + "\x00" + rule
    Window,   \* d.window, in clock ticks
    MaxKeys   \* d.maxKeys

ASSUME DeduperAssumption ==
    /\ Window \in Int
    /\ MaxKeys \in Nat \ {0}

SeenMap(s) ==
    /\ DOMAIN s \subseteq Key
    /\ s \in [DOMAIN s -> Nat]

\* A window <= 0 turns deduplication off.
Enabled == Window > 0

\* newDeduper
NewSeen == EmptyMap

EvictExpired(s, now) ==
    Restrict(s, {k \in DOMAIN s : now - s[k] <= Window})

BugMakeRoomByClearing(s, now) == IF Size(s) >= MaxKeys THEN EmptyMap ELSE s

\* Expired entries are evicted only once the map is at its capacity.
MakeRoom(s, now) == IF Size(s) >= MaxKeys THEN EvictExpired(s, now) ELSE s

BugDroppedNever(s, k, now) == FALSE

\* A key that is not tracked, when eviction made no room for it.
Dropped(s, k, now) ==
    /\ k \notin DOMAIN MakeRoom(s, now)
    /\ Size(MakeRoom(s, now)) >= MaxKeys

Due(s, k, now) == k \in DOMAIN s => now - s[k] > Window

\* allow(fingerprint, rule, now): its answer ...
Allows(s, k, now) ==
    \/ ~Enabled
    \/ ~Dropped(s, k, now) /\ Due(MakeRoom(s, now), k, now)

BugSeenAfterRefreshing(s, k, now) ==
    IF Enabled /\ ~Dropped(s, k, now) THEN Put(MakeRoom(s, now), k, now) ELSE MakeRoom(s, now)

\* ... and the map it leaves behind.
SeenAfter(s, k, now) ==
    CASE ~Enabled             -> s
      [] Enabled /\ Allows(s, k, now)  -> Put(MakeRoom(s, now), k, now)
      [] Enabled /\ ~Allows(s, k, now) -> MakeRoom(s, now)
=============================================================================
