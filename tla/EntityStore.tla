---------------------------- MODULE EntityStore -----------------------------
(***************************************************************************)
(* What an entity registry promises to those who hold handles.  A handle   *)
(* names one entity for ever: once the entity is gone no create returns    *)
(* that handle again.  A new entity has no components, an entity loses all *)
(* of its components when it goes, and nobody else's.                      *)
(***************************************************************************)
CONSTANTS Handles, Types

VARIABLES live,      \* the handles of the living entities
          carried,   \* <<T, h>>: the entity of h carries a T
          retired    \* handles that will not be given out any more

storeVars == <<live, carried, retired>>

StoreInit == live = {} /\ carried = {} /\ retired = {}

Create(h) ==
  /\ h \notin live \cup retired
  /\ live' = live \cup {h}
  /\ UNCHANGED <<carried, retired>>

Of(h) == Types \X {h}

Kill(h) ==
  /\ h \in live
  /\ live' = live \ {h}
  /\ carried' = carried \ Of(h)
  /\ retired' = retired \cup {h}

\* Every entity goes; handles that were never given out may be skipped.
Wipe ==
  /\ live' = {} /\ carried' = {}
  /\ live \cup retired \subseteq retired'

Attach(T, h) ==
  /\ h \in live
  /\ carried' = carried \cup {<<T, h>>}
  /\ UNCHANGED <<live, retired>>

Detach(T, h) ==
  /\ carried' = carried \ {<<T, h>>}
  /\ UNCHANGED <<live, retired>>

StoreNext ==
  \/ \E h \in Handles : Create(h) \/ Kill(h)
  \/ \E T \in Types, h \in Handles : Attach(T, h) \/ Detach(T, h)
  \/ Wipe

StoreSpec == StoreInit /\ [][StoreNext]_storeVars
=============================================================================
