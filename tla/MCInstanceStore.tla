-------------------------- MODULE MCInstanceStore --------------------------
(* Small instances of InstanceStore: entities and data instances on disk,   *)
(* some of which cannot be read, and ids for what the application creates.  *)
EXTENDS InstanceStore, TLC

CONSTANTS h1, h2, h3, a1, a2, a3, a4, Ent, BadEnt, NoEnt, D1, D2, D3

OnDisk(m, d, ok) == [meta |-> m, dims |-> d, wellformed |-> ok]

\* Only the entity Ent is on disk.
DiskEnt == Ent :> OnDisk(EntityId, 0, TRUE)
\* Its instance D1 can be read, its instance D2 cannot.
DiskSmall == DiskEnt @@ D1 :> OnDisk(Ent, 0, TRUE)
             @@ D2 :> OnDisk(Ent, 0, FALSE)
\* The entity BadEnt cannot be read and D2 is an instance of it; the metadata
\* of D3 is found nowhere.
Disk == DiskEnt @@ D1 :> OnDisk(Ent, 0, TRUE)
        @@ BadEnt :> OnDisk(EntityId, 0, FALSE)
        @@ D2 :> OnDisk(BadEnt, 0, TRUE) @@ D3 :> OnDisk(NoEnt, 0, TRUE)

Perms == Permutations(Addr \ Schema) \cup Permutations(Handles)
=============================================================================
