------------------------------- MODULE Wording -------------------------------
(***************************************************************************)
(* The sign-to-fly wording.  Each version is a blob of its own that names  *)
(* the version that replaced it; a pointer names the one in force.  An     *)
(* administrator publishes the next version under the lease of the         *)
(* pointer, which lasts 30 seconds; the first version and the pointer are  *)
(* made without one.  A signature records the version, and the hash of its *)
(* text, that its request read.                                            *)
(***************************************************************************)
EXTENDS Naturals

CONSTANTS
  Admins, Signers, None,
  MaxTries,   \* BOUND: attempts at the lease (200 in the code)
  MaxAdds,    \* BOUND: texts published
  Worlds,     \* BOUND: sets of kinds of fault that may happen together
  MaxFaults   \* BOUND: faults

VARIABLES
  version,   \* sign-to-fly/wording/{n}.json: the text and the version that replaced it
  pointer,   \* active.json; 0 when there is none
  holder,    \* who holds the lease of the pointer
  edition,   \* the etag of the pointer: how often it was written
  admin,     \* what each publication is doing
  signer,    \* what each request to sign is doing, or has signed
  adds, faults

blobs == <<version, pointer, edition>>
vars == <<blobs, holder, admin, signer, adds, faults>>

-----------------------------------------------------------------------------
(* A text is known by the number of the request that brought it.           *)
Texts == 1 .. MaxAdds
Versions == DOMAIN version

IdleAdmin == [at |-> "idle", text |-> 0, tries |-> 0, was |-> 0, copy |-> 0, etag |-> 0]
IdleSigner == [at |-> "idle", version |-> 0, text |-> 0]

TypeOK ==
  /\ Versions = 1 .. MaxAdds \intersect Versions
  /\ \A n \in Versions : version[n].text \in Texts /\ version[n].next \in 0 .. MaxAdds
  /\ pointer \in 0 .. MaxAdds
  /\ holder \in Admins \union {None}
  /\ adds \in 0 .. MaxAdds /\ faults \in [kinds : Worlds, count : 0 .. MaxFaults]

world == faults.kinds

Fault(kind) ==
  /\ kind \in world /\ faults.count < MaxFaults
  /\ faults' = [faults EXCEPT !.count = @ + 1]

Goto(a, at) == admin' = [admin EXCEPT ![a].at = at]
Answer(a) ==
  /\ admin' = [admin EXCEPT ![a] = IdleAdmin]
  /\ holder' = IF holder = a THEN None ELSE holder

(* Mutant: what is there is written over. *)
CreateOver(n, text) == version' = [m \in Versions \union {n} |->
                         IF m = n THEN [text |-> text, next |-> 0] ELSE version[m]]
Create(n, text) ==
  IF n \in Versions THEN UNCHANGED version
  ELSE version' = [m \in Versions \union {n} |->
                     IF m = n THEN [text |-> text, next |-> 0] ELSE version[m]]

-----------------------------------------------------------------------------
(* addWordingVersion: without a pointer the first version is tried.        *)
Add(a) ==
  /\ admin[a] = IdleAdmin /\ adds < MaxAdds
  /\ adds' = adds + 1
  /\ admin' = [admin EXCEPT ![a].text = adds + 1, ![a].at = IF pointer = 0 THEN "first" ELSE "lease"]
  /\ UNCHANGED <<blobs, holder, signer, faults>>

(* ensureBootstrapped: whoever finds version 1 there goes on to add.       *)
First(a) ==
  /\ admin[a].at = "first"
  /\ Create(1, admin[a].text)
  /\ admin' = [admin EXCEPT ![a].at = "point", ![a].was = IF 1 \in Versions THEN 1 ELSE 0]
  /\ UNCHANGED <<pointer, edition, holder, signer, adds, faults>>

Point(a) ==
  /\ admin[a].at = "point"
  /\ IF pointer = 0 THEN pointer' = 1 /\ edition' = edition + 1 ELSE UNCHANGED <<pointer, edition>>
  /\ IF admin[a].was = 0 THEN admin' = [admin EXCEPT ![a] = IdleAdmin]
     ELSE Goto(a, "lease")
  /\ UNCHANGED <<version, holder, signer, adds, faults>>

(* A lease that is taken, or a next version that is there already, is      *)
(* tried again; then the request gives up.                                 *)
Again(a) ==
  IF admin[a].tries < MaxTries
  THEN /\ admin' = [admin EXCEPT ![a].at = "lease", ![a].tries = @ + 1]
       /\ holder' = IF holder = a THEN None ELSE holder
  ELSE Answer(a)

TakeLease(a) ==
  /\ admin[a].at = "lease"
  /\ IF holder = None
     THEN /\ holder' = a
          /\ admin' = [admin EXCEPT ![a].was = pointer, ![a].at = "create"]
     ELSE Again(a)
  /\ UNCHANGED <<blobs, signer, adds, faults>>

(* The version in force was read with the pointer; what is written back of *)
(* it later is that copy.                                                  *)
CreateNext(a) ==
  /\ admin[a].at = "create"
  /\ Create(admin[a].was + 1, admin[a].text)
  /\ IF admin[a].was + 1 \in Versions THEN Again(a)
     ELSE /\ admin' = [admin EXCEPT ![a].at = "supersede",
                                    ![a].copy = version[admin[a].was].text]
          /\ UNCHANGED holder
  /\ UNCHANGED <<pointer, edition, signer, adds, faults>>

Supersede(a) ==
  /\ admin[a].at = "supersede"
  /\ version' = [version EXCEPT ![admin[a].was] =
                   [text |-> admin[a].copy, next |-> admin[a].was + 1]]
  /\ Goto(a, "etag")
  /\ UNCHANGED <<pointer, edition, holder, signer, adds, faults>>

ReadEtag(a) ==
  /\ admin[a].at = "etag"
  /\ admin' = [admin EXCEPT ![a].etag = edition, ![a].at = "advance"]
  /\ UNCHANGED <<blobs, holder, signer, adds, faults>>

Advance(a) ==
  /\ admin[a].at = "advance"
  /\ IF holder = a /\ edition = admin[a].etag
     THEN pointer' = admin[a].was + 1 /\ edition' = edition + 1
     ELSE UNCHANGED <<pointer, edition>>
  /\ Answer(a)
  /\ UNCHANGED <<version, signer, adds, faults>>

-----------------------------------------------------------------------------
(* getActiveWording reads the pointer and then the version, and the ledger *)
(* keeps the first signature.                                              *)
ReadPointer(s) ==
  /\ signer[s].at = "idle" /\ pointer # 0
  /\ signer' = [signer EXCEPT ![s].at = "version", ![s].version = pointer]
  /\ UNCHANGED <<blobs, holder, admin, adds, faults>>

ReadVersion(s) ==
  /\ signer[s].at = "version"
  /\ signer' = [signer EXCEPT ![s].at = "signed", ![s].text = version[signer[s].version].text]
  /\ UNCHANGED <<blobs, holder, admin, adds, faults>>

-----------------------------------------------------------------------------
Breaks(a) ==
  /\ admin[a] # IdleAdmin /\ Fault("crash")
  /\ Answer(a)
  /\ UNCHANGED <<blobs, signer, adds>>

Lapses ==
  /\ holder # None /\ Fault("lapse")
  /\ holder' = None
  /\ UNCHANGED <<blobs, admin, signer, adds>>
Init ==
  /\ version = <<>> /\ pointer = 0 /\ edition = 0 /\ holder = None
  /\ admin = [a \in Admins |-> IdleAdmin] /\ signer = [s \in Signers |-> IdleSigner]
  /\ adds = 0 /\ faults \in [kinds : Worlds, count : {0}]

AtRest == (\A a \in Admins : admin[a] = IdleAdmin) /\ UNCHANGED vars

Next ==
  \/ \E a \in Admins :
       \/ Add(a) \/ First(a) \/ Point(a) \/ TakeLease(a) \/ CreateNext(a) \/ Supersede(a)
       \/ ReadEtag(a) \/ Advance(a) \/ Breaks(a)
  \/ \E s \in Signers : ReadPointer(s) \/ ReadVersion(s)
  \/ Lapses
  \/ AtRest

Spec == Init /\ [][Next]_vars

-----------------------------------------------------------------------------
(* The versions follow each other: all but the one in force and one that   *)
(* is being published name their successor.                                *)
VersionsInOrder ==
  /\ pointer # 0 => pointer \in Versions
  /\ Versions \subseteq 1 .. pointer + 1
  /\ \A n \in Versions :
       /\ version[n].next # 0 => version[n].next = n + 1 /\ n + 1 \in Versions
       /\ n < pointer => version[n].next = n + 1

(* What a pilot signed can be shown for ever: the version that a signature *)
(* names, never one after that in force, has the text it was signed with.  *)
SignaturesVerify ==
  \A s \in Signers :
    signer[s].at = "signed" => /\ signer[s].version <= pointer
                               /\ version[signer[s].version].text = signer[s].text

(* Publications, bootstraps included, race, die and lose their lease; the  *)
(* versions stay in order, and signatures verify                           *)
(* (addWordingVersionWithLeaseOnce, ensureBootstrapped).                   *)
WordingIsKept == VersionsInOrder /\ SignaturesVerify
=============================================================================
