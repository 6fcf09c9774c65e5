------------------------------ MODULE Catalogues ------------------------------
(***************************************************************************)
(* Lists that administrators keep: the manufacturers and the configuration *)
(* are single documents, read, changed and written under a lease; sites    *)
(* have a document each and an index that is read and written without one. *)
(* A script moves the list of manufacturers from the private container to  *)
(* the public one, when the requests that write it are stopped.            *)
(***************************************************************************)
EXTENDS Naturals

CONSTANTS
  Makers, Keys, Sites, Requests, None,
  Worlds,    \* BOUND: sets of kinds of request and of fault that may happen together
  MaxOps,    \* BOUND: requests and runs of the script
  MaxFaults  \* BOUND: faults

VARIABLES
  makers,   \* manufacturers.json of the public container
  old,      \* manufacturers.json of the private container, or None
  config,   \* config.json, or None
  sites,    \* sites/{id}.json
  index,    \* sites.json
  lease, req, ops, faults,
  serial,   \* makers and config as the writes that succeeded change them, one by one
  carried,  \* a run of the script has seen the whole private list in public
  torn      \* the index was read or written by two at a time, half or blindly

lists == <<makers, old, config>>
places == <<sites, index>>
ghosts == <<serial, carried, torn>>
vars == <<lists, places, lease, req, ops, faults, ghosts>>

-----------------------------------------------------------------------------
Fields == {"name", "site"}
Leased == {"makers", "config"}
Absent == [f \in Fields |-> 0]   \* no such manufacturer; 0 is also no website
Empty == [m \in Makers |-> Absent]
Defaults == [k \in Keys |-> 0]   \* ConfigSchema.parse({})

Idle == [op |-> "none", at |-> "idle", key |-> None, patch |-> <<>>, saw |-> <<>>, again |-> FALSE]

MakerOps == {"create", "update", "delete"}
SiteOps == {"addSite", "editSite", "dropSite"}

TypeOK ==
  /\ makers \in [Makers -> [Fields -> 0 .. 2]]
  /\ old \in [Makers -> [Fields -> 0 .. 2]] \union {None}
  /\ config \in [Keys -> 0 .. 2] \union {None}
  /\ sites \in [Sites -> 0 .. 2] /\ index \in [Sites -> 0 .. 2]
  /\ lease \in [Leased -> Requests \union {None}]
  /\ carried \in BOOLEAN /\ torn \in BOOLEAN

Fault(kind) ==
  /\ kind \in faults.kinds /\ faults.count < MaxFaults
  /\ faults' = [faults EXCEPT !.count = @ + 1]

At(r, os, at) == req[r].op \in os /\ req[r].at = at
Goto(r, at) == req' = [req EXCEPT ![r].at = at]
Ends(r) == req' = [req EXCEPT ![r] = Idle]
Patched(doc, patch) == [f \in DOMAIN doc |-> IF f \in DOMAIN patch THEN patch[f] ELSE doc[f]]
Moving == \E r \in Requests : req[r].op = "move"

Begins(r, request) ==
  /\ request.op \in faults.kinds /\ ops < MaxOps
  /\ req[r] = Idle /\ r = CHOOSE q \in Requests : req[q] = Idle
  /\ ops' = ops + 1 /\ req' = [req EXCEPT ![r] = request]
  /\ UNCHANGED <<lists, places, lease, faults, serial, carried>>

New(op, at, key, patch) == [Idle EXCEPT !.op = op, !.at = at, !.key = key, !.patch = patch]

-----------------------------------------------------------------------------
(* createManufacturer, updateManufacturer, deleteManufacturer: fields that *)
(* are not sent are kept.                                                  *)
AskMaker(r) ==
  /\ ~Moving /\ UNCHANGED torn
  /\ \E m \in Makers :
       \/ makers[m] = Absent
          /\ Begins(r, New("create", "lease", m, [f \in {"name"} |-> 1]))
       \/ \E fs \in {{"name"}, {"site"}} : Begins(r, New("update", "lease", m, [f \in fs |-> 2]))
       \/ Begins(r, New("delete", "lease", m, Absent))

(* updateConfig: factors that are not sent are kept.                       *)
AskConfig(r) ==
  /\ UNCHANGED torn
  /\ \E k \in Keys, v \in 1 .. 2 : Begins(r, New("config", "lease", None, [j \in {k} |-> v]))

(* getConfig: whoever finds no configuration writes the defaults.          *)
AskDefaults(r) ==
  config = None /\ UNCHANGED torn /\ Begins(r, New("defaults", "seed", None, <<>>))

BlobOf(r) == IF req[r].op = "config" THEN "config" ELSE "makers"

(* withLeaseRetry waits for the lease of the manufacturers and gives up in *)
(* the end; withPrivateLease does not wait for that of the configuration.  *)
TakeLease(r) ==
  /\ At(r, MakerOps \union {"config"}, "lease")
  /\ LET b == BlobOf(r)
     IN \/ /\ b = "config" /\ config = None
           /\ IF req[r].again THEN Ends(r) ELSE Goto(r, "seed")
           /\ UNCHANGED lease
        \/ /\ ~(b = "config" /\ config = None) /\ lease[b] = None
           /\ lease' = [lease EXCEPT ![b] = r] /\ Goto(r, "read")
        \/ lease[b] # None /\ Ends(r) /\ UNCHANGED lease
  /\ UNCHANGED <<lists, places, ops, faults, ghosts>>

(* ensurePrivateBlob: only if there is none; then the change is tried once *)
(* more.                                                                   *)
Seed(r) ==
  /\ At(r, {"config", "defaults"}, "seed")
  /\ IF config = None
     THEN config' = Defaults /\ serial' = [serial EXCEPT !.config = Defaults]
     ELSE UNCHANGED <<config, serial>>
  /\ IF req[r].op = "defaults" THEN Ends(r)
     ELSE req' = [req EXCEPT ![r].at = "lease", ![r].again = TRUE]
  /\ UNCHANGED <<makers, old, places, lease, ops, faults, carried, torn>>

(* A manufacturer that is not there cannot be changed.                     *)
Read(r) ==
  /\ At(r, MakerOps \union {"config"}, "read")
  /\ IF req[r].op = "update" /\ makers[req[r].key] = Absent
     THEN Ends(r) /\ lease' = [b \in Leased |-> IF lease[b] = r THEN None ELSE lease[b]]
     ELSE /\ req' = [req EXCEPT ![r].at = "write",
                       ![r].saw = IF BlobOf(r) = "config" THEN config ELSE makers]
          /\ UNCHANGED lease
  /\ UNCHANGED <<lists, places, ops, faults, ghosts>>

Apply(r, doc) ==
  IF req[r].op = "config" THEN Patched(doc, req[r].patch)
  ELSE [doc EXCEPT ![req[r].key] = Patched(@, req[r].patch)]

(* Mutant: the write does not say which lease it was made under.           *)
MayWriteAnyway(r) == TRUE

MayWrite(r) == lease[BlobOf(r)] = r

(* Without the lease the write is refused: the list is read again under    *)
(* another, or the request fails.                                          *)
Write(r) ==
  /\ At(r, MakerOps \union {"config"}, "write")
  /\ LET b == BlobOf(r)
     IN \/ /\ MayWrite(r) /\ Ends(r)
           /\ lease' = [lease EXCEPT ![b] = IF @ = r THEN None ELSE @]
           /\ IF b = "config"
              THEN /\ config' = Apply(r, req[r].saw)
                   /\ serial' = [serial EXCEPT !.config = Apply(r, @)] /\ UNCHANGED makers
              ELSE /\ makers' = Apply(r, req[r].saw)
                   /\ serial' = [serial EXCEPT !.makers = Apply(r, @)] /\ UNCHANGED config
        \/ /\ ~MayWrite(r) /\ (Ends(r) \/ (b = "makers" /\ Goto(r, "lease")))
           /\ UNCHANGED <<makers, config, serial, lease>>
  /\ UNCHANGED <<old, places, ops, faults, carried, torn>>

-----------------------------------------------------------------------------
(* moveManufacturersToPublic, without --force.  Nothing else writes the    *)
(* list while the script runs.                                             *)
AskMove(r) ==
  /\ old # None /\ UNCHANGED torn
  /\ \A q \in Requests : req[q].op \notin MakerOps \union {"move"}
  /\ Begins(r, New("move", "look", None, old))

(* An empty public list is written, an equal one is left, any other is a   *)
(* conflict.                                                               *)
Look(r) ==
  /\ At(r, {"move"}, "look")
  /\ CASE makers = Empty -> Goto(r, "copy")
       [] makers # Empty /\ makers = req[r].patch -> Goto(r, "verify")
       [] OTHER -> Ends(r)
  /\ UNCHANGED <<lists, places, lease, ops, faults, ghosts>>

Copy(r) ==
  /\ At(r, {"move"}, "copy") /\ Goto(r, "verify")
  /\ makers' = req[r].patch
  /\ serial' = [serial EXCEPT !.makers = IF @ = Empty THEN req[r].patch ELSE @]
  /\ UNCHANGED <<old, config, places, lease, ops, faults, carried, torn>>

Verify(r) ==
  /\ At(r, {"move"}, "verify")
  /\ IF makers = req[r].patch THEN Goto(r, "remove") /\ carried' = TRUE
     ELSE Ends(r) /\ UNCHANGED carried
  /\ UNCHANGED <<lists, places, lease, ops, faults, serial, torn>>

Remove(r) ==
  /\ At(r, {"move"}, "remove") /\ Ends(r)
  /\ old' = None
  /\ UNCHANGED <<makers, config, places, lease, ops, faults, ghosts>>

-----------------------------------------------------------------------------
(* createSite, updateSite, deleteSite: the document, then the index.       *)
AskSite(r) ==
  /\ torn' = (torn \/ \E q \in Requests : req[q].op \in SiteOps)
  /\ \E s \in Sites :
       \/ sites[s] = 0 /\ Begins(r, New("addSite", "document", s, 1))
       \/ sites[s] # 0 /\ Begins(r, New("editSite", "document", s, 2))
       \/ sites[s] # 0 /\ Begins(r, New("dropSite", "document", s, 0))

WriteSite(r) ==
  /\ At(r, SiteOps, "document") /\ Goto(r, "index")
  /\ sites' = [sites EXCEPT ![req[r].key] = req[r].patch]
  /\ UNCHANGED <<lists, index, lease, ops, faults, ghosts>>

(* upsertSiteInIndex takes an index it cannot read for an empty one;       *)
(* removeSiteFromIndex leaves it.                                          *)
ReadIndex(r) ==
  /\ At(r, SiteOps, "index")
  /\ \/ /\ req' = [req EXCEPT ![r].at = "put", ![r].saw = index]
        /\ UNCHANGED <<faults, torn>>
     \/ /\ Fault("unread") /\ torn' = TRUE
        /\ IF req[r].op = "dropSite" THEN Ends(r)
           ELSE req' = [req EXCEPT ![r].at = "put", ![r].saw = [s \in Sites |-> 0]]
  /\ UNCHANGED <<lists, places, lease, ops, serial, carried>>

WriteIndex(r) ==
  /\ At(r, SiteOps, "put") /\ Ends(r)
  /\ index' = [req[r].saw EXCEPT ![req[r].key] = req[r].patch]
  /\ UNCHANGED <<lists, sites, lease, ops, faults, ghosts>>

-----------------------------------------------------------------------------
LeaseLapses ==
  /\ Fault("lapse")
  /\ \E b \in Leased : lease[b] # None /\ lease' = [lease EXCEPT ![b] = None]
  /\ UNCHANGED <<lists, places, req, ops, ghosts>>

Crash(r) ==
  /\ req[r] # Idle /\ Fault("crash") /\ Ends(r)
  /\ lease' = [b \in Leased |-> IF lease[b] = r THEN None ELSE lease[b]]
  /\ torn' = (torn \/ req[r].op \in SiteOps)
  /\ UNCHANGED <<lists, places, ops, serial, carried>>

AtRest == \A r \in Requests : req[r] = Idle

Init ==
  /\ makers = Empty
  /\ old \in {None, [m \in Makers |-> [f \in Fields |-> IF f = "name" THEN 1 ELSE 0]]}
  /\ config \in {None, Defaults}
  /\ sites = [s \in Sites |-> 1] /\ index = sites
  /\ lease = [b \in Leased |-> None] /\ req = [r \in Requests |-> Idle]
  /\ ops = 0 /\ faults \in [kinds : Worlds, count : {0}]
  /\ serial = [makers |-> makers, config |-> config]
  /\ carried = (old = None) /\ torn = FALSE

Next ==
  \/ \E r \in Requests :
       \/ AskMaker(r) \/ AskConfig(r) \/ AskDefaults(r) \/ AskMove(r) \/ AskSite(r)
       \/ TakeLease(r) \/ Seed(r) \/ Read(r) \/ Write(r)
       \/ Look(r) \/ Copy(r) \/ Verify(r) \/ Remove(r)
       \/ WriteSite(r) \/ ReadIndex(r) \/ WriteIndex(r) \/ Crash(r)
  \/ LeaseLapses
  \/ AtRest /\ UNCHANGED vars

Spec == Init /\ [][Next]_vars

-----------------------------------------------------------------------------
(* The lists are what the changes that were acknowledged make of them, one *)
(* after the other: none is lost to another, to a lease that ran out, to   *)
(* the defaults or to the script (upsertManufacturerInIndex, runConfigRmw, *)
(* ensurePrivateBlob, moveManufacturersToPublic).                          *)
EditsAreKept == makers = serial.makers /\ config = serial.config

(* The private list is removed only after all of it was public.            *)
MoveKeepsList == old = None => carried

(* The index of sites shows the documents, if they were changed one at a   *)
(* time, to the end, and the index could be read.                          *)
IndexShowsSites ==
  ~torn /\ (\A r \in Requests : req[r].op \notin SiteOps) => index = sites

CataloguesKeepEdits == EditsAreKept /\ MoveKeepsList /\ IndexShowsSites
=============================================================================
