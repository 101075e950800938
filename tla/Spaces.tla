------------------------------- MODULE Spaces -------------------------------
(***************************************************************************)
(* The space manager, zqd/space/manager.go.  The manager keeps two maps    *)
(* under spacesMu: m.spaces (id to space) and m.names (name to id).        *)
(* Create, UpdateSpace and Get each run under the lock, so each is one     *)
(* step.  Delete calls Get, releases the lock, and then locks again to      *)
(* delete the space it got: two steps, between which other handlers run.  *)
(* A space object keeps its name (space.Name(), read from its config)      *)
(* after it has been deleted from the maps.  A space's directory and       *)
(* config on disk outlive the process: a restart of zqd runs               *)
(* NewManagerWithContext again, which loads every config it can read.      *)
(* The callers of UpdateSpace (the HTTP handlers, not in this snapshot)    *)
(* get the space with Get first; so does the model, for CreateSubspace's   *)
(* parent too.                                                             *)
(***************************************************************************)
EXTENDS Functions, FiniteSets, TLC

CONSTANTS
    Clients,    \* concurrent request handlers
    Ids,        \* space ids newSpaceID can return
    Names,      \* space names in requests
    InitSpaces, \* at most this many spaces are on disk at start
    IOErrors,   \* writeConfig, loadSpaces, space.delete, space.update may fail
    NONE        \* model value: no space

ASSUME InitSpaces \in Nat /\ IOErrors \in BOOLEAN /\ NONE \notin Ids

VARIABLES
    spaces,     \* DOMAIN m.spaces
    names,      \* m.names, a function from a subset of Names to Ids
    spaceName,  \* spaceName[id]: the name the space object with that id holds
    used,       \* ids newSpaceID has returned
    pc,         \* pc[c]: "idle", "deleting", "updating" or "subspacing"
    got,        \* got[c]: the space handler c got from Get
    archives,   \* ids of the spaces whose storage kind is an archive
    disk        \* ids whose directory under the root holds a config

vars == <<spaces, names, spaceName, used, pc, got, archives, disk>>

(* A step the file system may fail. *)
Outcomes == IF IOErrors THEN BOOLEAN ELSE {TRUE}

(* space.update rewrites the config inside the space's directory, which   *)
(* fails once a Delete has removed that directory.  space.delete removes   *)
(* the directory, which succeeds when it is already gone (RemoveAll).      *)
UpdateOutcomes(s) == IF s \in disk THEN Outcomes ELSE {FALSE}

(* How Create ends: everything succeeds; MkdirAll or writeConfig fails     *)
(* (the directory is removed); or loadSpaces fails after the config is     *)
(* written, and Create returns without removing it.                        *)
CreateOutcomes == IF IOErrors THEN {"ok", "nodir", "noload"} ELSE {"ok"}

(* The loop of NewManagerWithContext over the directories: a config that   *)
(* loadConfig cannot read is skipped with a warning; the others are        *)
(* loaded, each space into m.spaces and its name into m.names, a later     *)
(* directory's entry overwriting an earlier one of the same name.  The     *)
(* directory names are the random ids, so any of them may come last.      *)
(* The m.names it can end with when it loads the spaces L named by nm.    *)
LoadedNames(L, nm) ==
    {last \in [{nm[id] : id \in L} -> L] : \A n \in DOMAIN last : nm[last[n]] = n}

(* NewManagerWithContext at the first start, over configs written by an   *)
(* earlier run of Create, with distinct names, all of them readable.       *)
Init ==
    \E D \in SUBSET Ids, nm \in [Ids -> Names \cup {NONE}] :
        /\ Cardinality(D) <= InitSpaces
        /\ \A id \in Ids : nm[id] = NONE <=> id \notin D
        /\ IsInjective(Restrict(nm, D))
        /\ spaces = D
        /\ names \in LoadedNames(D, nm)
        /\ spaceName = nm
        /\ disk = D
        /\ used = D
        /\ pc = [c \in Clients |-> "idle"]
        /\ got = [c \in Clients |-> NONE]
        /\ archives \in SUBSET D

(* validateName: the name must not be in use (the check is not in this     *)
(* snapshot; its error "name already exists" is what the manager relies    *)
(* on to keep names unique).                                               *)
validateName(n) == n \notin DOMAIN names

(* Get: the space with that id, or ErrSpaceNotExist. *)
Get(id) == IF id \in spaces THEN id ELSE NONE

(* Remove one name from m.names: delete(m.names, name). *)
DeleteName(ns, n) == Restrict(ns, DOMAIN ns \ {n})

-----------------------------------------------------------------------------

(* Create, all under the lock: validateName, a fresh id, MkdirAll and      *)
(* writeConfig (on error the directory is removed), loadSpaces (on error   *)
(* the directory and its config stay), then both maps.  A request without  *)
(* a name gets uniqueName of its data path, an unused name: the same as    *)
(* choosing a name that validates.  req.Storage picks the storage kind.    *)
Create(c, n) ==
    /\ pc[c] = "idle"
    /\ validateName(n)
    /\ \E id \in Ids \ used, r \in CreateOutcomes, isArchive \in BOOLEAN :
          /\ used' = used \cup {id}
          /\ archives' = IF isArchive THEN archives \cup {id} ELSE archives
          /\ disk' = IF r = "nodir" THEN disk ELSE disk \cup {id}
          /\ spaceName' = IF r = "nodir" THEN spaceName ELSE [spaceName EXCEPT ![id] = n]
          /\ IF r = "ok"
             THEN /\ spaces' = spaces \cup {id}
                  /\ names' = names @@ (n :> id)
             ELSE UNCHANGED <<spaces, names>>
    /\ UNCHANGED <<pc, got>>

(* The handler of a rename gets the space by id, under the lock. *)
UpdateGet(c, id) ==
    /\ pc[c] = "idle"
    /\ Get(id) # NONE
    /\ got' = [got EXCEPT ![c] = id]
    /\ pc' = [pc EXCEPT ![c] = "updating"]
    /\ UNCHANGED <<spaces, names, spaceName, used, archives, disk>>

(* UpdateSpace(space, req), under the lock: validateName; return if the    *)
(* name is unchanged; space.update writes the new name into the config;    *)
(* then the old name leaves m.names and the new one maps to space.ID().    *)
UpdateSpace(c, n) ==
    /\ pc[c] = "updating"
    /\ LET s == got[c]
           oldname == spaceName[s]
       IN  IF validateName(n) /\ oldname # n
           THEN \E ok \in UpdateOutcomes(s) :
                  IF ok
                  THEN /\ spaceName' = [spaceName EXCEPT ![s] = n]
                       /\ names' = DeleteName(names, oldname) @@ (n :> s)
                  ELSE UNCHANGED <<spaceName, names>>
           ELSE UNCHANGED <<spaceName, names>>
    /\ pc' = [pc EXCEPT ![c] = "idle"]
    /\ got' = [got EXCEPT ![c] = NONE]
    /\ UNCHANGED <<spaces, used, archives, disk>>

(* The handler of a subspace request gets the parent by id, under the lock. *)
SubspaceGet(c, id) ==
    /\ pc[c] = "idle"
    /\ Get(id) # NONE
    /\ got' = [got EXCEPT ![c] = id]
    /\ pc' = [pc EXCEPT ![c] = "subspacing"]
    /\ UNCHANGED <<spaces, names, spaceName, used, archives, disk>>

(* CreateSubspace(parent, req), under the lock: validateName; an error     *)
(* unless the parent is an archive space; as.CreateSubspace, which writes  *)
(* the subspace's config below the parent's directory and so fails once a  *)
(* Delete has removed it; then both maps get the new space.                *)
CreateSubspace(c, n) ==
    /\ pc[c] = "subspacing"
    /\ LET parent == got[c]
       IN  IF validateName(n) /\ parent \in archives
           THEN \E id \in Ids \ used, ok \in UpdateOutcomes(parent) :
                  IF ok
                  THEN /\ used' = used \cup {id}
                       /\ spaces' = spaces \cup {id}
                       /\ disk' = disk \cup {id}
                       /\ names' = names @@ (n :> id)
                       /\ spaceName' = [spaceName EXCEPT ![id] = n]
                  ELSE UNCHANGED <<spaces, names, spaceName, used, disk>>
           ELSE UNCHANGED <<spaces, names, spaceName, used, disk>>
    /\ pc' = [pc EXCEPT ![c] = "idle"]
    /\ got' = [got EXCEPT ![c] = NONE]
    /\ UNCHANGED archives

(* Delete, first half: m.Get(id), which takes and releases the lock. *)
DeleteGet(c, id) ==
    /\ pc[c] = "idle"
    /\ Get(id) # NONE
    /\ got' = [got EXCEPT ![c] = id]
    /\ pc' = [pc EXCEPT ![c] = "deleting"]
    /\ UNCHANGED <<spaces, names, spaceName, used, archives, disk>>

(* Delete, second half, under the lock again: name := space.Name(), then   *)
(* space.delete (on error return), then delete id from m.spaces and name   *)
(* from m.names, whatever those entries hold now.                          *)
DeleteLocked(c) ==
    /\ pc[c] = "deleting"
    /\ LET s == got[c]
       IN  \E ok \in Outcomes :
             IF ok
             THEN /\ spaces' = spaces \ {s}
                  /\ disk' = disk \ {s}
                  /\ names' = DeleteName(names, spaceName[s])
             ELSE UNCHANGED <<spaces, names, disk>>
    /\ pc' = [pc EXCEPT ![c] = "idle"]
    /\ got' = [got EXCEPT ![c] = NONE]
    /\ UNCHANGED <<spaceName, used, archives>>

(* zqd restarts: the handlers in flight are gone, and                     *)
(* NewManagerWithContext builds both maps afresh from the configs on disk. *)
(* When loadSpaces fails for one of them it returns an error and zqd does  *)
(* not come up; starting it again is a later Restart.                      *)
Restart ==
    /\ \E L \in IF IOErrors THEN SUBSET disk ELSE {disk} :
          /\ spaces' = L
          /\ names' \in LoadedNames(L, spaceName)
    /\ pc' = [c \in Clients |-> "idle"]
    /\ got' = [c \in Clients |-> NONE]
    /\ UNCHANGED <<spaceName, used, archives, disk>>

Next ==
    \/ Restart
    \/ \E c \in Clients :
        \/ \E n \in Names : Create(c, n) \/ UpdateSpace(c, n) \/ CreateSubspace(c, n)
        \/ \E id \in Ids : UpdateGet(c, id) \/ SubspaceGet(c, id) \/ DeleteGet(c, id)
        \/ DeleteLocked(c)

Spec == Init /\ [][Next]_vars

-----------------------------------------------------------------------------
(* Properties.                                                             *)

TypeOK ==
    /\ spaces \subseteq used /\ used \subseteq Ids
    /\ DOMAIN names \subseteq Names /\ Range(names) \subseteq Ids
    /\ spaceName \in [Ids -> Names \cup {NONE}]
    /\ pc \in [Clients -> {"idle", "deleting", "updating", "subspacing"}]
    /\ archives \subseteq used /\ disk \subseteq used
    /\ got \in [Clients -> Ids \cup {NONE}]

(* m.names is the index of the live spaces by name: every live space's     *)
(* name maps to it, and every entry maps to a live space of that name.     *)
(* Create, UpdateSpace and Delete each update both maps under the lock.    *)
NamesIndexSpaces ==
    /\ \A s \in spaces : spaceName[s] \in DOMAIN names /\ names[spaceName[s]] = s
    /\ \A n \in DOMAIN names : names[n] \in spaces /\ spaceName[names[n]] = n

(* No two live spaces have the same name: validateName refuses a name      *)
(* that m.names holds, in Create and in UpdateSpace.                       *)
UniqueNames ==
    \A s1, s2 \in spaces : s1 # s2 => spaceName[s1] # spaceName[s2]

=============================================================================
