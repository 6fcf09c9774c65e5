---------------------------- MODULE ServicesProofs ----------------------------
(***************************************************************************)
(* Proofs about what surrounds the rounds (the page of a round, the        *)
(* session of a tab, the credential of an account and the lists that       *)
(* administrators keep) and about what rounds refer to (the wording that   *)
(* pilots sign, the clubs they fly for, the seasons and the clubs          *)
(* registered for them), for every number of requests, calls, faults and   *)
(* steps.  Each has an inductive invariant of its own; a behaviour of      *)
(* MCServices is one of any of the first four, and so keeps the four of    *)
(* them, and a behaviour of MCReference is one of any of the others.       *)
(***************************************************************************)
EXTENDS MCReference, TLAPS

-----------------------------------------------------------------------------
(* The page of a round.                                                    *)

PageInv ==
  /\ Page!PageKeepsWatch
  /\ count \in Nat /\ posts \in Nat /\ notice \in BOOLEAN

(* However the page is rendered, groups being made are watched if they     *)
(* were, or if something new is rendered.                                  *)
LEMMA RenderedIsWatched ==
  ASSUME NEW s, NEW c \in Nat, NEW n \in BOOLEAN, NEW was,
         Page!Renders(s, c, n, was),
         <<s, c, n>> = <<round, count, notice>> => was = watch,
         Page!MakingIsWatched, count \in Nat, notice \in BOOLEAN
  PROVE  Page!MakingIsWatched' /\ count' \in Nat /\ notice' \in BOOLEAN
<1>. DEFINE t == Page!Settled(s, c, n)
<1>1. /\ round' = s /\ count' = t.count /\ notice' = t.notice
      /\ watch' = IF <<s, t.count, t.notice>> = <<round, count, notice>> THEN was
                  ELSE IF Page!Making(s) /\ t.count < MaxPolls THEN Page!Timer ELSE Page!Off
  BY DEF Page!Renders
<1>2. CASE ~Page!Making(s)
  <2>1. t.count = 0 /\ t.notice \in BOOLEAN
    BY <1>2 DEF Page!Settled
  <2>. QED
    BY <1>1, <1>2, <2>1 DEF Page!MakingIsWatched
<1>3. CASE Page!Making(s)
  <2>1. t.count = c /\ t.notice = (n \/ c >= MaxPolls)
    BY <1>3 DEF Page!Settled
  <2>2. CASE c >= MaxPolls
    BY <1>1, <2>1, <2>2 DEF Page!MakingIsWatched
  <2>3. CASE ~(c >= MaxPolls)
    <3>1. c < MaxPolls /\ t.notice = n
      BY <2>1, <2>3, ServicesAssumption
    <3>2. CASE <<s, c, n>> = <<round, count, notice>>
      <4>1. watch' = watch /\ round' = round /\ notice' = notice
        BY <1>1, <2>1, <3>1, <3>2
      <4>. QED
        BY <1>1, <2>1, <4>1 DEF Page!MakingIsWatched
    <3>3. CASE <<s, c, n>> # <<round, count, notice>>
      <4>1. watch' = Page!Timer
        BY <1>1, <1>3, <2>1, <3>1, <3>3
      <4>. QED
        BY <1>1, <2>1, <4>1 DEF Page!MakingIsWatched, Page!Timer
    <3>. QED
      BY <3>2, <3>3
  <2>. QED
    BY <2>2, <2>3
<1>. QED
  BY <1>2, <1>3

LEMMA PageInitial == Page!Init => PageInv
<1>. SUFFICES ASSUME Page!Init
     PROVE  PageInv
  OBVIOUS
<1>1. /\ round = "none" /\ count = 0 /\ notice = FALSE
      /\ phase = "idle" /\ posts = 0
  BY DEF Page!Init
<1>2. count \in Nat /\ posts \in Nat
  BY <1>1
<1>3. notice \in BOOLEAN
  BY <1>1
<1>4. Page!MakingIsWatched /\ Page!OverlayEnds
  BY <1>1 DEF Page!MakingIsWatched, Page!Making, Page!OverlayEnds
<1>. QED
  BY <1>2, <1>3, <1>4 DEF PageInv, Page!PageKeepsWatch

(* What the dialog does leaves the round of the page alone, and what the   *)
(* page does leaves the dialog alone.                                      *)
LEMMA DialogOnly ==
  ASSUME PageInv, UNCHANGED <<round, count, notice, watch>>,
         Page!OverlayEnds', posts' \in Nat
  PROVE  PageInv'
BY DEF PageInv, Page!PageKeepsWatch, Page!MakingIsWatched

LEMMA DetailOnly ==
  ASSUME PageInv, UNCHANGED <<phase, interval, posts>>,
         Page!MakingIsWatched', count' \in Nat, notice' \in BOOLEAN
  PROVE  PageInv'
BY DEF PageInv, Page!PageKeepsWatch, Page!OverlayEnds

(* However the rounds, the polls and their failures arrive, and whatever   *)
(* the user does, the page and its dialog keep their watch.                *)
LEMMA PageSteps == PageInv /\ [Page!Next]_Page!vars => PageInv'
<1>. SUFFICES ASSUME PageInv, [Page!Next]_Page!vars
     PROVE  PageInv'
  OBVIOUS
<1>0. /\ Page!MakingIsWatched /\ Page!OverlayEnds
      /\ count \in Nat /\ posts \in Nat /\ notice \in BOOLEAN
  BY DEF PageInv, Page!PageKeepsWatch
<1>1. CASE Page!ServerMoves
  BY <1>1, DialogOnly DEF PageInv, Page!ServerMoves, Page!detail, Page!dialog,
       Page!PageKeepsWatch, Page!OverlayEnds
<1>2. CASE Page!Poll
  <2>1. Page!MakingIsWatched'
    BY <1>2 DEF Page!Poll, Page!MakingIsWatched
  <2>. QED
    BY <1>0, <1>2, <2>1, DetailOnly DEF Page!Poll, Page!dialog
<1>3. CASE Page!Polled
  <2>. DEFINE Shows(s, c) == Page!Renders(s, c, notice, Page!Off)
  <2>1. UNCHANGED <<phase, interval, posts>>
    BY <1>3 DEF Page!Polled, Page!dialog
  <2>2. \E s : \/ Shows(s, count + 1) \/ (s # round /\ Shows(s, count))
    BY <1>3 DEF Page!Polled
  <2>3. PICK s : \/ Shows(s, count + 1) \/ (s # round /\ Shows(s, count))
    BY <2>2
  <2>4. count + 1 # count /\ count + 1 \in Nat
    BY <1>0
  <2>5. notice \in BOOLEAN
    BY DEF PageInv
  <2>. QED
    BY <1>0, <2>1, <2>3, <2>4, <2>5, RenderedIsWatched, DetailOnly
<1>4. ASSUME NEW k \in Page!Loads, Page!Load(k)
      PROVE  PageInv'
  BY <1>4, DialogOnly DEF PageInv, Page!Load, Page!dialog,
       Page!PageKeepsWatch, Page!OverlayEnds
<1>5. ASSUME NEW k \in Page!Loads, Page!Loaded(k)
      PROVE  PageInv'
  <2>1. UNCHANGED <<phase, interval, posts>>
    BY <1>5 DEF Page!Loaded, Page!dialog
  <2>2. PICK s : \/ Page!Renders(s, 0, FALSE, watch)
                 \/ Page!Renders(s, count, notice, watch)
    BY <1>5 DEF Page!Loaded
  <2>. QED
    BY <1>0, <2>1, <2>2, RenderedIsWatched, DetailOnly
<1>6. CASE Page!Confirming
  BY <1>0, <1>6, DialogOnly DEF Page!Confirming, Page!detail, Page!OverlayEnds
<1>7. CASE Page!Close
  BY <1>0, <1>7, DialogOnly DEF Page!Close, Page!detail, Page!OverlayEnds
<1>8. CASE Page!Confirm
  BY <1>0, <1>8, DialogOnly DEF Page!Confirm, Page!OverlayEnds
<1>9. CASE Page!Enqueued
  BY <1>0, <1>9, DialogOnly DEF Page!Enqueued, Page!detail, Page!OverlayEnds
<1>10. CASE Page!Tick
  BY <1>0, <1>10, DialogOnly DEF Page!Tick, Page!detail, Page!OverlayEnds
<1>11. CASE Page!Answered
  BY <1>0, <1>11, DialogOnly DEF Page!Answered, Page!Stops, Page!OverlayEnds
<1>12. CASE UNCHANGED Page!vars
  BY <1>0, <1>12, DialogOnly DEF Page!vars, Page!detail, Page!dialog, Page!OverlayEnds
<1>. QED
  BY <1>1, <1>2, <1>3, <1>4, <1>5, <1>6, <1>7, <1>8, <1>9, <1>10, <1>11, <1>12
  DEF Page!Next

-----------------------------------------------------------------------------
(* The session of a tab.                                                   *)

Access == [session : Nat, fresh : BOOLEAN]
TabFlow == [at : {"idle", "renew", "ask", "me"}, token : Access \union {None},
            refresh : Nat \union {None}]
TabCall == [at : {"idle", "sent", "waiting"}, token : Access \union {None}, retried : BOOLEAN]

TabTypes ==
  /\ tokens \in [refresh : Nat, session : Nat]
  /\ stored \in [access : Access \union {None}, refresh : Nat \union {None}, identity : BOOLEAN]
  /\ shown \in BOOLEAN /\ overtaken \in BOOLEAN
  /\ flow \in [Tab!Flows -> TabFlow]
  /\ call \in [Calls -> TabCall]

(* A page that is closed has no flow under way; unless the storage was     *)
(* cleared meanwhile, a flow that has a token, and an identity that is     *)
(* stored, have a refresh token beside them.                               *)
ClosedIsIdle == page = "closed" => \A k \in Tab!Flows : flow[k] = Tab!Idle
FlowsCanRenew ==
  ~overtaken => \A k \in Tab!Flows : flow[k].at \in {"renew", "me"} => stored.refresh # None
IdentityCanRenew ==
  /\ ~overtaken /\ stored.identity => stored.refresh # None
  /\ ~overtaken /\ shown => stored.identity

TabInv ==
  /\ TabTypes
  /\ ClosedIsIdle /\ FlowsCanRenew /\ IdentityCanRenew
  /\ Tab!WaitsForRenewal

LEMMA TabConstants ==
  /\ None \notin Nat
  /\ Tab!Idle \in TabFlow /\ Tab!Idle.at = "idle"
  /\ Tab!Quiet \in TabCall /\ Tab!Quiet.at = "idle"
  /\ Tab!Nothing \in [access : Access \union {None}, refresh : Nat \union {None},
                      identity : BOOLEAN]
  /\ Tab!Nothing.identity = FALSE
BY ServicesAssumption DEF Tab!Idle, Tab!Quiet, Tab!Nothing, TabFlow, TabCall

LEMMA TabInitial == Tab!Init => TabInv
<1>. SUFFICES ASSUME Tab!Init
     PROVE  TabInv
  OBVIOUS
<1>1. /\ tokens = [refresh |-> 0, session |-> 0]
      /\ stored = Tab!Nothing \/ \E f \in BOOLEAN :
           stored = [access |-> [session |-> 0, fresh |-> f], refresh |-> 0, identity |-> TRUE]
      /\ shown = FALSE /\ page = "closed" /\ overtaken = FALSE
      /\ flow = [k \in Tab!Flows |-> Tab!Idle] /\ call = [c \in Calls |-> Tab!Quiet]
  BY DEF Tab!Init
<1>2. TabTypes
  <2>1. stored \in [access : Access \union {None}, refresh : Nat \union {None},
                    identity : BOOLEAN]
    <3>1. CASE stored = Tab!Nothing
      BY <3>1, TabConstants
    <3>2. ASSUME NEW f \in BOOLEAN,
                 stored = [access |-> [session |-> 0, fresh |-> f], refresh |-> 0,
                           identity |-> TRUE]
          PROVE  stored \in [access : Access \union {None}, refresh : Nat \union {None},
                             identity : BOOLEAN]
      BY <3>2 DEF Access
    <3>. QED
      BY <1>1, <3>1, <3>2
  <2>2. tokens \in [refresh : Nat, session : Nat]
    BY <1>1
  <2>. QED
    BY <1>1, <2>1, <2>2, TabConstants DEF TabTypes
<1>3. ClosedIsIdle
  BY <1>1 DEF ClosedIsIdle
<1>4. FlowsCanRenew
  BY <1>1, TabConstants DEF FlowsCanRenew
<1>5. IdentityCanRenew
  BY <1>1, TabConstants DEF IdentityCanRenew
<1>6. Tab!WaitsForRenewal
  BY <1>1, TabConstants DEF Tab!WaitsForRenewal
<1>. QED
  BY <1>2, <1>3, <1>4, <1>5, <1>6 DEF TabInv

(* A sign-out leaves nothing stored and nobody shown, and either no flow   *)
(* under way or the note that it overtook one.                             *)
LEMMA SignedOut ==
  ASSUME NEW by, TabTypes, Tab!SignOut(by), UNCHANGED tokens,
         flow' \in [Tab!Flows -> TabFlow], call' \in [Calls -> TabCall],
         \A k \in Tab!Flows : flow'[k] = IF k = by THEN Tab!Idle ELSE flow[k],
         Tab!WaitsForRenewal'
  PROVE  TabInv'
<1>1. /\ stored' = Tab!Nothing /\ shown' = FALSE /\ page' = "ready"
      /\ overtaken' = \E k \in Tab!Flows \ {by} : flow[k] # Tab!Idle
  BY DEF Tab!SignOut
<1>2. TabTypes'
  <2>1. overtaken' \in BOOLEAN
    BY <1>1
  <2>. QED
    BY <1>1, <2>1, TabConstants DEF TabTypes
<1>3. FlowsCanRenew'
  <2>1. ~overtaken' => \A k \in Tab!Flows : flow'[k] = Tab!Idle
    BY <1>1
  <2>. QED
    BY <2>1, TabConstants DEF FlowsCanRenew
<1>4. ClosedIsIdle' /\ IdentityCanRenew'
  BY <1>1, TabConstants DEF ClosedIsIdle, IdentityCanRenew
<1>. QED
  BY <1>2, <1>3, <1>4 DEF TabInv

(* A step that changes neither what is stored and shown nor a flow.        *)
LEMMA ClientAlone ==
  ASSUME TabInv, UNCHANGED <<Tab!client, flow, overtaken>>,
         tokens' \in [refresh : Nat, session : Nat], call' \in [Calls -> TabCall],
         Tab!WaitsForRenewal'
  PROVE  TabInv'
BY DEF TabInv, TabTypes, Tab!client, ClosedIsIdle, FlowsCanRenew, IdentityCanRenew

(* A step of the flow k, which does not begin while the page is closed.    *)
LEMMA FlowGoesOn ==
  ASSUME TabInv, NEW k \in Tab!Flows, NEW next \in TabFlow,
         flow' = [flow EXCEPT ![k] = next],
         UNCHANGED <<tokens, renewal, call, overtaken>>,
         stored' \in [access : Access \union {None}, refresh : Nat \union {None},
                      identity : BOOLEAN],
         stored.refresh # None => stored'.refresh # None,
         shown' \in BOOLEAN,
         page' = "closed" => page = "closed" /\ next = Tab!Idle,
         ~overtaken /\ next.at \in {"renew", "me"} => stored'.refresh # None,
         ~overtaken /\ stored'.identity => stored'.refresh # None,
         ~overtaken /\ shown' => stored'.identity
  PROVE  TabInv'
<1>1. TabTypes'
  BY DEF TabInv, TabTypes
<1>2. \A j \in Tab!Flows : flow'[j] = IF j = k THEN next ELSE flow[j]
  BY DEF TabInv, TabTypes
<1>3. ClosedIsIdle'
  BY <1>2 DEF TabInv, ClosedIsIdle
<1>4. FlowsCanRenew'
  BY <1>2 DEF TabInv, FlowsCanRenew
<1>5. IdentityCanRenew'
  BY DEF IdentityCanRenew
<1>6. Tab!WaitsForRenewal'
  BY DEF TabInv, Tab!WaitsForRenewal
<1>. QED
  BY <1>1, <1>3, <1>4, <1>5, <1>6 DEF TabInv

LEMMA TabFacts ==
  ASSUME TabInv
  PROVE  /\ tokens \in [refresh : Nat, session : Nat]
         /\ stored \in [access : Access \union {None}, refresh : Nat \union {None},
                        identity : BOOLEAN]
         /\ shown \in BOOLEAN /\ overtaken \in BOOLEAN
         /\ flow \in [Tab!Flows -> TabFlow] /\ call \in [Calls -> TabCall]
         /\ Tab!NewAccess \in Access
         /\ {"init", "login", "reread"} = Tab!Flows
BY DEF TabInv, TabTypes, Tab!NewAccess, Access, Tab!Flows

(* AuthProvider opens the page.                                            *)
LEMMA OpenKeeps == TabInv /\ Tab!Open => TabInv'
<1>. SUFFICES ASSUME TabInv, Tab!Open
     PROVE  TabInv'
  OBVIOUS
<1>0. page = "closed" /\ UNCHANGED <<tokens, renewal, call>>
  BY DEF Tab!Open
<1>1. ASSUME stored.identity, shown' = TRUE, page' = "ready",
             UNCHANGED <<stored, flow, overtaken>>
      PROVE  TabInv'
  BY <1>0, <1>1, TabFacts
  DEF TabInv, TabTypes, ClosedIsIdle, FlowsCanRenew, IdentityCanRenew, Tab!WaitsForRenewal
<1>2. ASSUME stored.refresh # None, page' = "opening", UNCHANGED <<stored, shown, overtaken>>,
             flow' = [flow EXCEPT
               !["init"] = [Tab!Idle EXCEPT !.at = "renew", !.refresh = stored.refresh]]
      PROVE  TabInv'
  <2>. DEFINE next == [Tab!Idle EXCEPT !.at = "renew", !.refresh = stored.refresh]
  <2>1. next \in TabFlow
    BY TabFacts, TabConstants DEF TabFlow
  <2>. HIDE DEF next
  <2>2. flow' = [flow EXCEPT !["init"] = next]
    BY <1>2 DEF next
  <2>. QED
    BY <1>0, <1>2, <2>1, <2>2, TabFacts, FlowGoesOn DEF TabInv, IdentityCanRenew
<1>3. ASSUME Tab!SignOut("init"), UNCHANGED flow
      PROVE  TabInv'
  <2>1. flow["init"] = Tab!Idle
    BY <1>0, TabFacts DEF TabInv, ClosedIsIdle
  <2>2. \A k \in Tab!Flows : flow'[k] = IF k = "init" THEN Tab!Idle ELSE flow[k]
    BY <1>3, <2>1
  <2>3. Tab!WaitsForRenewal'
    BY <1>0 DEF TabInv, Tab!WaitsForRenewal
  <2>. QED
    BY <1>0, <1>3, <2>2, <2>3, TabFacts, SignedOut DEF TabInv
<1>. QED
  BY <1>1, <1>2, <1>3 DEF Tab!Open

(* A flow that fails signs the user out.                                   *)
LEMMA InitFailsKeeps == TabInv /\ Tab!InitFails => TabInv'
<1>. SUFFICES ASSUME TabInv, Tab!InitFails
     PROVE  TabInv'
  OBVIOUS
<1>1. /\ Tab!SignOut("init") /\ flow' = [flow EXCEPT !["init"] = Tab!Idle]
      /\ UNCHANGED <<tokens, renewal, call>>
  BY DEF Tab!InitFails
<1>2. flow' \in [Tab!Flows -> TabFlow]
  BY <1>1, TabFacts, TabConstants
<1>3. \A k \in Tab!Flows : flow'[k] = IF k = "init" THEN Tab!Idle ELSE flow[k]
  BY <1>1, TabFacts
<1>4. Tab!WaitsForRenewal'
  BY <1>1 DEF TabInv, Tab!WaitsForRenewal
<1>. QED
  BY <1>1, <1>2, <1>3, <1>4, TabFacts, SignedOut DEF TabInv

LEMMA InitRenewedKeeps == TabInv /\ Tab!InitRenewed => TabInv'
<1>. SUFFICES ASSUME TabInv, Tab!InitRenewed
     PROVE  TabInv'
  OBVIOUS
<1>1. CASE Tab!InitFails
  BY <1>1, InitFailsKeeps
<1>2. ASSUME flow["init"].at = "renew",
             stored' = [stored EXCEPT !.access = Tab!NewAccess],
             flow' = [flow EXCEPT
               !["init"] = [Tab!Idle EXCEPT !.at = "me", !.token = Tab!NewAccess]],
             UNCHANGED <<tokens, shown, page, renewal, call, steps, overtaken>>
      PROVE  TabInv'
  <2>. DEFINE next == [Tab!Idle EXCEPT !.at = "me", !.token = Tab!NewAccess]
  <2>1. next \in TabFlow
    BY TabFacts, TabConstants DEF TabFlow
  <2>. HIDE DEF next
  <2>2. flow' = [flow EXCEPT !["init"] = next]
    BY <1>2 DEF next
  <2>3. /\ stored' \in [access : Access \union {None}, refresh : Nat \union {None},
                        identity : BOOLEAN]
        /\ stored'.refresh = stored.refresh /\ stored'.identity = stored.identity
    BY <1>2, TabFacts
  <2>4. ~overtaken => stored.refresh # None
    BY <1>2, TabFacts DEF TabInv, FlowsCanRenew
  <2>5. page # "closed"
    BY <1>2, TabFacts, TabConstants DEF TabInv, ClosedIsIdle
  <2>6. /\ shown' \in BOOLEAN /\ page' # "closed"
        /\ stored.refresh # None => stored'.refresh # None
        /\ ~overtaken => stored'.refresh # None
        /\ ~overtaken /\ shown' => stored'.identity
    BY <1>2, <2>3, <2>4, <2>5, TabFacts DEF TabInv, IdentityCanRenew
  <2>7. UNCHANGED <<tokens, renewal, call, overtaken>>
    BY <1>2
  <2>. QED
    BY <2>1, <2>2, <2>3, <2>6, <2>7, TabFacts, FlowGoesOn
<1>. QED
  BY <1>1, <1>2 DEF Tab!InitRenewed

LEMMA MeKeeps == ASSUME NEW k \in Tab!Flows PROVE TabInv /\ Tab!Me(k) => TabInv'
<1>. SUFFICES ASSUME TabInv, Tab!Me(k)
     PROVE  TabInv'
  OBVIOUS
<1>0. flow[k].at = "me"
  BY DEF Tab!Me
<1>1. CASE Tab!InitFails
  BY <1>1, InitFailsKeeps
<1>2. page # "closed" /\ (~overtaken => stored.refresh # None)
  BY <1>0, TabFacts, TabConstants DEF TabInv, ClosedIsIdle, FlowsCanRenew
<1>3. ASSUME stored' = [stored EXCEPT !.identity = TRUE], shown' = TRUE,
             page' = IF k = "reread" THEN page ELSE "ready",
             flow' = [flow EXCEPT ![k] = Tab!Idle],
             UNCHANGED <<tokens, renewal, call, steps, overtaken>>
      PROVE  TabInv'
  <2>1. /\ stored' \in [access : Access \union {None}, refresh : Nat \union {None},
                        identity : BOOLEAN]
        /\ stored'.refresh = stored.refresh /\ stored'.identity = TRUE
    BY <1>3, TabFacts
  <2>2. page' # "closed"
    BY <1>2, <1>3
  <2>. QED
    BY <1>2, <1>3, <2>1, <2>2, TabFacts, TabConstants, FlowGoesOn
<1>4. ASSUME flow' = [flow EXCEPT ![k] = Tab!Idle],
             UNCHANGED <<tokens, stored, shown, page, renewal, call, overtaken>>
      PROVE  TabInv'
  BY <1>2, <1>4, TabFacts, TabConstants, FlowGoesOn DEF TabInv, IdentityCanRenew
<1>. QED
  BY <1>1, <1>3, <1>4 DEF Tab!Me, Tab!client

(* Signing in, and reading the profile again.                              *)
LEMMA LoginKeeps == TabInv /\ (Tab!Login \/ Tab!LoggedIn \/ Tab!Reread) => TabInv'
<1>. SUFFICES ASSUME TabInv, Tab!Login \/ Tab!LoggedIn \/ Tab!Reread
     PROVE  TabInv'
  OBVIOUS
<1>1. CASE Tab!Login
  <2>. DEFINE next == [Tab!Idle EXCEPT !.at = "ask"]
  <2>1. next \in TabFlow /\ next.at = "ask"
    BY TabConstants DEF TabFlow
  <2>. HIDE DEF next
  <2>2. flow' = [flow EXCEPT !["login"] = next] /\ page' # "closed"
    BY <1>1 DEF next, Tab!Login, Tab!client
  <2>. QED
    BY <1>1, <2>1, <2>2, TabFacts, FlowGoesOn
    DEF TabInv, IdentityCanRenew, Tab!Login, Tab!client
<1>2. CASE Tab!LoggedIn
  <2>. DEFINE next == [Tab!Idle EXCEPT !.at = "me", !.token = Tab!NewAccess]
  <2>1. next \in TabFlow
    BY TabFacts, TabConstants DEF TabFlow
  <2>. HIDE DEF next
  <2>2. /\ flow["login"].at = "ask"
        /\ flow' = [flow EXCEPT !["login"] = next]
        /\ stored' = [stored EXCEPT !.access = Tab!NewAccess, !.refresh = tokens.refresh]
        /\ UNCHANGED <<tokens, shown, page, renewal, call, overtaken>>
    BY <1>2 DEF next, Tab!LoggedIn
  <2>3. /\ stored' \in [access : Access \union {None}, refresh : Nat \union {None},
                        identity : BOOLEAN]
        /\ stored'.refresh # None /\ stored'.identity = stored.identity
    BY <2>2, TabFacts, TabConstants
  <2>4. page # "closed"
    BY <2>2, TabFacts, TabConstants DEF TabInv, ClosedIsIdle
  <2>5. /\ shown' \in BOOLEAN /\ page' # "closed"
        /\ ~overtaken /\ shown' => stored'.identity
    BY <2>2, <2>3, <2>4, TabFacts DEF TabInv, IdentityCanRenew
  <2>. QED
    BY <2>1, <2>2, <2>3, <2>5, TabFacts, FlowGoesOn
<1>3. CASE Tab!Reread
  <2>. DEFINE next == [Tab!Idle EXCEPT !.at = "me", !.token = stored.access]
  <2>1. next \in TabFlow
    BY TabFacts, TabConstants DEF TabFlow
  <2>. HIDE DEF next
  <2>2. /\ flow' = [flow EXCEPT !["reread"] = next]
        /\ page' # "closed" /\ shown
        /\ UNCHANGED <<tokens, stored, shown, page, renewal, call, overtaken>>
    BY <1>3 DEF next, Tab!Reread, Tab!client
  <2>3. /\ ~overtaken => stored'.refresh # None
        /\ ~overtaken /\ shown' => stored'.identity
    BY <2>2 DEF TabInv, IdentityCanRenew
  <2>. QED
    BY <2>1, <2>2, <2>3, TabFacts, FlowGoesOn
<1>. QED
  BY <1>1, <1>2, <1>3

(* Calls, and the renewal they wait for.                                   *)
LEMMA CallKeeps ==
  ASSUME NEW c \in Calls
  PROVE  TabInv /\ (Tab!Send(c) \/ Tab!Answered(c) \/ Tab!Refused(c)) => TabInv'
<1>. SUFFICES ASSUME TabInv, Tab!Send(c) \/ Tab!Answered(c) \/ Tab!Refused(c)
     PROVE  TabInv'
  OBVIOUS
<1>0. UNCHANGED <<tokens, Tab!client, flow, overtaken>>
  BY DEF Tab!Send, Tab!Answered, Tab!Refused
<1>1. CASE Tab!Send(c) \/ Tab!Answered(c)
  <2>1. PICK next \in TabCall : next.at # "waiting" /\ call' = [call EXCEPT ![c] = next]
    <3>. DEFINE sent == [Tab!Quiet EXCEPT !.at = "sent", !.token = stored.access]
    <3>1. sent \in TabCall /\ sent.at = "sent"
      BY TabFacts, TabConstants DEF TabCall
    <3>. HIDE DEF sent
    <3>2. call' = [call EXCEPT ![c] = sent] \/ call' = [call EXCEPT ![c] = Tab!Quiet]
      BY <1>1 DEF sent, Tab!Send, Tab!Answered
    <3>. QED
      BY <3>1, <3>2, TabConstants
  <2>2. UNCHANGED renewal
    BY <1>1 DEF Tab!Send, Tab!Answered
  <2>3. call' \in [Calls -> TabCall]
    BY <2>1, TabFacts
  <2>4. Tab!WaitsForRenewal'
    BY <2>1, <2>2, TabFacts DEF TabInv, Tab!WaitsForRenewal
  <2>. QED
    BY <1>0, <2>3, <2>4, TabFacts, ClientAlone
<1>2. CASE Tab!Refused(c)
  <2>1. /\ call' = [call EXCEPT ![c].at = "waiting"]
        /\ renewal' = IF renewal = Tab!Idle
                      THEN [Tab!Idle EXCEPT !.at = "renew", !.refresh = stored.refresh]
                      ELSE renewal
    BY <1>2 DEF Tab!Refused
  <2>2. call' \in [Calls -> TabCall]
    BY <2>1, TabFacts DEF TabCall
  <2>3. renewal' # Tab!Idle
    BY <2>1 DEF Tab!Idle
  <2>. QED
    BY <1>0, <2>2, <2>3, TabFacts, ClientAlone DEF Tab!WaitsForRenewal
<1>. QED
  BY <1>1, <1>2

LEMMA RenewedKeeps == TabInv /\ Tab!Renewed => TabInv'
<1>. SUFFICES ASSUME TabInv, Tab!Renewed
     PROVE  TabInv'
  OBVIOUS
<1>1. /\ stored' = [stored EXCEPT !.access = Tab!NewAccess]
      /\ call' = [c \in Calls |-> IF call[c].at = "waiting"
                    THEN [at |-> "sent", token |-> Tab!NewAccess, retried |-> TRUE]
                    ELSE call[c]]
      /\ UNCHANGED <<tokens, shown, page, flow, overtaken>>
  BY DEF Tab!Renewed
<1>2. [at |-> "sent", token |-> Tab!NewAccess, retried |-> TRUE] \in TabCall
  BY TabFacts DEF TabCall
<1>3. call' \in [Calls -> TabCall]
  BY <1>1, <1>2, TabFacts
<1>4. \A c \in Calls : call'[c].at # "waiting"
  BY <1>1
<1>5. /\ stored' \in [access : Access \union {None}, refresh : Nat \union {None},
                      identity : BOOLEAN]
      /\ stored'.refresh = stored.refresh /\ stored'.identity = stored.identity
  BY <1>1, TabFacts
<1>6. TabTypes'
  BY <1>1, <1>3, <1>5 DEF TabInv, TabTypes
<1>7. ClosedIsIdle' /\ FlowsCanRenew' /\ IdentityCanRenew'
  BY <1>1, <1>5 DEF TabInv, ClosedIsIdle, FlowsCanRenew, IdentityCanRenew
<1>. QED
  BY <1>4, <1>6, <1>7 DEF TabInv, Tab!WaitsForRenewal

(* The renewal failed, or the user signs out, when flows may be under way. *)
LEMMA OutKeeps == TabInv /\ (Tab!RenewalFails \/ Tab!Logout) => TabInv'
<1>. SUFFICES ASSUME TabInv, Tab!RenewalFails \/ Tab!Logout
     PROVE  TabInv'
  OBVIOUS
<1>1. Tab!SignOut(None) /\ UNCHANGED <<tokens, flow>>
  BY DEF Tab!RenewalFails, Tab!Expire, Tab!Logout
<1>2. call' \in [Calls -> TabCall] /\ Tab!WaitsForRenewal'
  <2>1. CASE Tab!RenewalFails
    <3>1. call' = [c \in Calls |-> IF call[c].at = "waiting" THEN Tab!Quiet ELSE call[c]]
      BY <2>1 DEF Tab!RenewalFails
    <3>. QED
      BY <3>1, TabFacts, TabConstants DEF Tab!WaitsForRenewal
  <2>2. CASE Tab!Logout
    BY <2>2, TabFacts DEF TabInv, Tab!Logout, Tab!WaitsForRenewal
  <2>. QED
    BY <2>1, <2>2
<1>3. \A k \in Tab!Flows : flow'[k] = IF k = None THEN Tab!Idle ELSE flow[k]
  BY <1>1, ServicesAssumption
<1>. QED
  BY <1>1, <1>2, <1>3, TabFacts, SignedOut DEF TabInv

(* What happens behind the page: at the server, to the token, or to the    *)
(* tab as a whole.                                                         *)
LEMMA BehindKeeps ==
  TabInv /\ (Tab!Mint \/ Tab!Revoke \/ Tab!Elsewhere \/ Tab!Ages \/ Tab!Close) => TabInv'
<1>. SUFFICES ASSUME TabInv, Tab!Mint \/ Tab!Revoke \/ Tab!Elsewhere \/ Tab!Ages \/ Tab!Close
     PROVE  TabInv'
  OBVIOUS
<1>1. CASE Tab!Mint \/ Tab!Revoke \/ Tab!Elsewhere
  <2>1. UNCHANGED <<Tab!client, flow, overtaken, renewal, call>>
    BY <1>1 DEF Tab!Mint, Tab!Revoke, Tab!Elsewhere
  <2>2. tokens' \in [refresh : Nat, session : Nat]
    <3>1. CASE Tab!Voids
      BY <3>1, TabFacts DEF Tab!Voids
    <3>2. CASE UNCHANGED tokens
      BY <3>2, TabFacts
    <3>. QED
      BY <1>1, <3>1, <3>2 DEF Tab!Mint, Tab!Revoke, Tab!Elsewhere
  <2>3. Tab!WaitsForRenewal'
    BY <2>1 DEF TabInv, Tab!WaitsForRenewal
  <2>. QED
    BY <2>1, <2>2, <2>3, TabFacts, ClientAlone
<1>2. CASE Tab!Ages
  <2>1. /\ stored.access # None
        /\ stored' = [stored EXCEPT !.access.fresh = FALSE]
        /\ UNCHANGED <<tokens, shown, page, flow, renewal, call, overtaken>>
    BY <1>2 DEF Tab!Ages, Tab!Fresh
  <2>2. /\ stored' \in [access : Access \union {None}, refresh : Nat \union {None},
                        identity : BOOLEAN]
        /\ stored'.refresh = stored.refresh /\ stored'.identity = stored.identity
    BY <2>1, TabFacts DEF Access
  <2>. QED
    BY <2>1, <2>2 DEF TabInv, TabTypes, ClosedIsIdle, FlowsCanRenew, IdentityCanRenew,
                      Tab!WaitsForRenewal
<1>3. CASE Tab!Close
  <2>1. /\ page' = "closed" /\ shown' = FALSE
        /\ flow' = [k \in Tab!Flows |-> Tab!Idle]
        /\ call' = [c \in Calls |-> Tab!Quiet]
        /\ UNCHANGED <<tokens, stored, overtaken>>
    BY <1>3 DEF Tab!Close
  <2>2. TabTypes'
    BY <2>1, TabFacts, TabConstants DEF TabTypes
  <2>. QED
    BY <2>1, <2>2, TabConstants
    DEF TabInv, ClosedIsIdle, FlowsCanRenew, IdentityCanRenew, Tab!WaitsForRenewal
<1>. QED
  BY <1>1, <1>2, <1>3

LEMMA TabSteps == TabInv /\ [Tab!Next]_Tab!vars => TabInv'
<1>. SUFFICES ASSUME TabInv, [Tab!Next]_Tab!vars
     PROVE  TabInv'
  OBVIOUS
<1>1. CASE UNCHANGED Tab!vars
  BY <1>1 DEF Tab!vars, Tab!client, TabInv, TabTypes, ClosedIsIdle, FlowsCanRenew,
              IdentityCanRenew, Tab!WaitsForRenewal
<1>2. CASE Tab!Next
  BY <1>1, <1>2, OpenKeeps, InitRenewedKeeps, MeKeeps, LoginKeeps, CallKeeps, RenewedKeeps,
     OutKeeps, BehindKeeps
  DEF Tab!Next
<1>. QED
  BY <1>1, <1>2

LEMMA TabIsSound == TabInv => Tab!SessionIsSound
BY DEF TabInv, Tab!SessionIsSound, Tab!ShownCanRenew, IdentityCanRenew

-----------------------------------------------------------------------------
(* The credential of an account.                                           *)

Credential == [password : Links \union {None}, version : Nat,
               failures : 0 .. MaxFailures, locked : BOOLEAN]
LinkBlob == [state : {"none", "sent", "used"}, version : Nat]
Visit == [op : {"none", "forgot", "reset", "logout", "login"},
          at : {"idle", "mail", "consume", "lease", "read", "write", "bump"},
          link : Links \union {None}, right : BOOLEAN, saw : Credential \union Nat \union {<<>>}]

AccountTypes ==
  /\ credential \in Credential
  /\ link \in [Links -> LinkBlob]
  /\ visit \in [Requests -> Visit]
  /\ told \subseteq Links

(* The password is the one of link l, or of a link made for a later        *)
(* version than l.                                                         *)
Done(l) ==
  \/ credential.password = l
  \/ /\ credential.password # None
     /\ link[credential.password].version > link[l].version

(* What the request r has found out and done so far still holds: a link to *)
(* be mailed is new, one followed is used up, what was read under a lease  *)
(* that is still held is the credential, and a reset that was written is   *)
(* done.                                                                   *)
VisitIsSound(r, v) ==
  /\ v.at = "mail" => v.link \in Links /\ link[v.link].state = "none" /\ v.saw \in Nat
  /\ v.at = "consume" => v.link \in Links
  /\ v.at \in {"lease", "read", "write", "bump"} /\ v.op = "reset" =>
       v.link \in Links /\ link[v.link].state = "used"
  /\ v.at = "write" /\ holder = r =>
       /\ v.saw = credential
       /\ v.op = "reset" => link[v.link].version = credential.version
  /\ v.at = "bump" /\ v.op = "reset" => Done(v.link)

MailsDiffer ==
  \A q, r \in Requests :
    q # r /\ visit[q].at = "mail" /\ visit[r].at = "mail" => visit[q].link # visit[r].link

(* The link of the password was made for a version that is past.           *)
PasswordIsPast ==
  credential.password # None =>
    /\ link[credential.password].state = "used"
    /\ link[credential.password].version < credential.version

AccountInv ==
  /\ AccountTypes
  /\ \A r \in Requests : VisitIsSound(r, visit[r])
  /\ MailsDiffer /\ PasswordIsPast
  /\ \A l \in told : link[l].state = "used" /\ Done(l)

LEMMA AccountConstants ==
  /\ Account!Idle \in Visit
  /\ Account!Idle.op = "none" /\ Account!Idle.at = "idle"
  /\ None \notin Links /\ None \notin Requests /\ None \notin Nat
  /\ MaxFailures \in Nat /\ MaxFailures > 0
<1>1. Account!Idle \in Visit
  BY DEF Account!Idle, Visit
<1>2. Account!Idle.op = "none" /\ Account!Idle.at = "idle"
  BY DEF Account!Idle
<1>. QED
  BY <1>1, <1>2, ServicesAssumption

LEMMA AccountInitial == Account!Init => AccountInv
<1>. SUFFICES ASSUME Account!Init
     PROVE  AccountInv
  OBVIOUS
<1>1. /\ credential = [password |-> None, version |-> 0, failures |-> 0, locked |-> FALSE]
      /\ link = [l \in Links |-> [state |-> "none", version |-> 0]]
      /\ visit = [r \in Requests |-> Account!Idle] /\ told = {}
  BY DEF Account!Init
<1>2. credential \in Credential
  BY <1>1, AccountConstants DEF Credential
<1>3. link \in [Links -> LinkBlob]
  BY <1>1 DEF LinkBlob
<1>4. visit \in [Requests -> Visit] /\ \A r \in Requests : visit[r].at = "idle"
  BY <1>1, AccountConstants
<1>5. AccountTypes
  BY <1>1, <1>2, <1>3, <1>4 DEF AccountTypes
<1>6. \A r \in Requests : VisitIsSound(r, visit[r])
  BY <1>4 DEF VisitIsSound
<1>7. MailsDiffer
  BY <1>4 DEF MailsDiffer
<1>8. PasswordIsPast
  BY <1>1 DEF PasswordIsPast
<1>. QED
  BY <1>1, <1>5, <1>6, <1>7, <1>8 DEF AccountInv

(* A step of the request r that leaves the documents alone: it may give up *)
(* the lease, or take one that nobody holds.                               *)
LEMMA VisitGoesOn ==
  ASSUME AccountInv, NEW r \in Requests, NEW next \in Visit,
         visit' = [visit EXCEPT ![r] = next],
         UNCHANGED <<credential, link, told>>,
         \A q \in Requests : q # r /\ holder' = q => holder = q,
         VisitIsSound(r, next)',
         next.at = "mail" =>
           \A q \in Requests : q # r => visit[q].link # next.link
  PROVE  AccountInv'
<1>1. \A q \in Requests : visit'[q] = IF q = r THEN next ELSE visit[q]
  BY DEF AccountInv, AccountTypes
<1>2. AccountTypes'
  BY DEF AccountInv, AccountTypes
<1>3. ASSUME NEW q \in Requests
      PROVE  VisitIsSound(q, visit[q])'
  <2>1. CASE q = r
    BY <1>1, <2>1 DEF VisitIsSound, Done
  <2>2. CASE q # r
    <3>1. visit'[q] = visit[q] /\ (holder' = q => holder = q)
      BY <1>1, <2>2
    <3>2. VisitIsSound(q, visit[q])
      BY DEF AccountInv
    <3>. QED
      BY <3>1, <3>2 DEF VisitIsSound, Done
  <2>. QED
    BY <2>1, <2>2
<1>4. MailsDiffer'
  BY <1>1 DEF AccountInv, MailsDiffer
<1>5. /\ PasswordIsPast'
      /\ \A l \in told' : (link[l].state = "used" /\ Done(l))'
  BY DEF AccountInv, PasswordIsPast, Done
<1>. QED
  BY <1>2, <1>3, <1>4, <1>5 DEF AccountInv

LEMMA AccountFacts ==
  ASSUME AccountInv
  PROVE  /\ credential \in Credential /\ credential.version \in Nat
         /\ link \in [Links -> LinkBlob] /\ visit \in [Requests -> Visit]
         /\ told \subseteq Links
         /\ \A r \in Requests : VisitIsSound(r, visit[r])
BY DEF AccountInv, AccountTypes, Credential

(* A request begins.                                                       *)
LEMMA AsksKeep ==
  ASSUME AccountInv, NEW r \in Requests,
         \/ \E l \in Links : Account!AskForgot(r, l) \/ Account!AskReset(r, l)
         \/ Account!AskLogout(r) \/ Account!AskLogin(r)
  PROVE  AccountInv'
<1>1. ASSUME NEW op \in {"forgot", "reset", "logout", "login"}, NEW request \in Visit,
             Account!Begins(r, op, request),
             request.at \in {"mail", "consume", "lease"},
             request.at = "mail" =>
               /\ request.link \in Links /\ link[request.link].state = "none"
               /\ request.saw \in Nat
               /\ \A q \in Requests : visit[q].link # request.link,
             request.at = "consume" => request.link \in Links,
             request.at = "lease" => op # "reset"
      PROVE  AccountInv'
  <2>. DEFINE next == [request EXCEPT !.op = op]
  <2>1. /\ next \in Visit /\ next.at = request.at /\ next.op = op
        /\ next.link = request.link /\ next.saw = request.saw
    BY DEF Visit
  <2>. HIDE DEF next
  <2>2. /\ visit' = [visit EXCEPT ![r] = next]
        /\ UNCHANGED <<credential, link, told, holder>>
    BY <1>1 DEF next, Account!Begins, Account!documents
  <2>3. VisitIsSound(r, next)'
    BY <1>1, <2>1, <2>2 DEF VisitIsSound
  <2>4. next.at = "mail" => \A q \in Requests : q # r => visit[q].link # next.link
    BY <1>1, <2>1
  <2>. QED
    BY <2>1, <2>2, <2>3, <2>4, VisitGoesOn
<1>2. ASSUME NEW l \in Links, Account!AskForgot(r, l)
      PROVE  AccountInv'
  <2>. DEFINE request == [Account!Idle EXCEPT !.at = "mail", !.link = l,
                                             !.saw = credential.version]
  <2>1. /\ request \in Visit /\ request.at = "mail" /\ request.link = l
        /\ request.saw = credential.version
    BY AccountFacts, AccountConstants DEF Visit
  <2>. HIDE DEF request
  <2>2. /\ Account!Begins(r, "forgot", request) /\ link[l].state = "none"
        /\ \A q \in Requests : visit[q].link # l
    BY <1>2 DEF request, Account!AskForgot
  <2>3. \A q \in Requests : visit[q].link # request.link
    BY <2>1, <2>2
  <2>. QED
    BY <1>1, <2>1, <2>2, <2>3, AccountFacts
<1>3. ASSUME NEW l \in Links, Account!AskReset(r, l)
      PROVE  AccountInv'
  <2>. DEFINE request == [Account!Idle EXCEPT !.at = "consume", !.link = l]
  <2>1. request \in Visit /\ request.at = "consume" /\ request.link = l
    BY AccountConstants DEF Visit
  <2>. HIDE DEF request
  <2>2. Account!Begins(r, "reset", request)
    BY <1>3 DEF request, Account!AskReset
  <2>. QED
    BY <1>1, <2>1, <2>2
<1>4. CASE Account!AskLogout(r)
  <2>. DEFINE request == [Account!Idle EXCEPT !.at = "lease"]
  <2>1. request \in Visit /\ request.at = "lease"
    BY AccountConstants DEF Visit
  <2>. HIDE DEF request
  <2>2. Account!Begins(r, "logout", request)
    BY <1>4 DEF request, Account!AskLogout
  <2>. QED
    BY <1>1, <2>1, <2>2
<1>5. CASE Account!AskLogin(r)
  <2>1. PICK right \in BOOLEAN :
          Account!Begins(r, "login", [Account!Idle EXCEPT !.at = "lease", !.right = right])
    BY <1>5 DEF Account!AskLogin
  <2>. DEFINE request == [Account!Idle EXCEPT !.at = "lease", !.right = right]
  <2>2. request \in Visit /\ request.at = "lease"
    BY AccountConstants DEF Visit
  <2>. HIDE DEF request
  <2>3. Account!Begins(r, "login", request)
    BY <2>1 DEF request
  <2>. QED
    BY <1>1, <2>2, <2>3
<1>. QED
  BY <1>2, <1>3, <1>4, <1>5

LEMMA IdleIsSound == ASSUME NEW r PROVE VisitIsSound(r, Account!Idle)'
BY AccountConstants DEF VisitIsSound, Account!Idle

(* A link is mailed, or used up by the one who follows it.                 *)
LEMMA LinksKeep ==
  ASSUME AccountInv, NEW r \in Requests, Account!MailLink(r) \/ Account!Consume(r)
  PROVE  AccountInv'
<1>. DEFINE l == visit[r].link
            state == IF Account!MailLink(r) THEN "sent" ELSE "used"
<1>0. visit[r] \in Visit /\ VisitIsSound(r, visit[r])
  BY AccountFacts
<1>1. CASE UNCHANGED link
  <2>1. /\ visit' = [visit EXCEPT ![r] = Account!Idle]
        /\ UNCHANGED <<credential, link, told, holder>>
    <3>1. CASE Account!MailLink(r)
      BY <1>1, <3>1 DEF Account!MailLink, Account!Ends
    <3>2. CASE Account!Consume(r)
      <4>1. link[l].state # "sent"
        <5>1. SUFFICES ASSUME link[l].state = "sent"
              PROVE  FALSE
          OBVIOUS
        <5>2. visit[r].at = "consume" /\ link' = [link EXCEPT ![l].state = "used"]
          BY <3>2, <5>1 DEF Account!Consume, Account!At
        <5>3. l \in Links
          BY <1>0, <5>2 DEF VisitIsSound
        <5>. QED
          BY <1>1, <5>1, <5>2, <5>3, AccountFacts DEF LinkBlob
      <4>. QED
        BY <1>1, <3>2, <4>1 DEF Account!Consume, Account!Ends
    <3>. QED
      BY <3>1, <3>2
  <2>. QED
    BY <2>1, VisitGoesOn, IdleIsSound, AccountConstants
<1>2. CASE link' # link
  <2>1. PICK next \in Visit, blob \in LinkBlob :
          /\ visit' = [visit EXCEPT ![r] = next]
          /\ link' = [link EXCEPT ![l] = blob] /\ l \in Links
          /\ UNCHANGED <<credential, told, holder>>
          /\ link[l].state # "used" /\ (link[l].state = "none" => visit[r].at = "mail")
          /\ next.at \in {"idle", "lease"}
          /\ next.at = "lease" => next.link = l /\ blob.state = "used"
    <3>1. CASE Account!MailLink(r)
      <4>. DEFINE blob == [state |-> "sent", version |-> visit[r].saw]
      <4>1. visit[r].at = "mail"
        BY <3>1 DEF Account!MailLink, Account!At
      <4>2. /\ visit[r].saw \in Nat /\ l \in Links /\ link[l].state = "none"
        BY <1>0, <4>1 DEF VisitIsSound
      <4>3. blob \in LinkBlob
        BY <4>2 DEF LinkBlob
      <4>4. /\ visit' = [visit EXCEPT ![r] = Account!Idle]
            /\ link' = [link EXCEPT ![l] = blob]
            /\ UNCHANGED <<credential, told, holder>>
        BY <3>1 DEF Account!MailLink, Account!Ends
      <4>. QED
        BY <4>1, <4>2, <4>3, <4>4, AccountConstants
    <3>2. CASE Account!Consume(r)
      <4>. DEFINE blob == [link[l] EXCEPT !.state = "used"]
                  next == [visit[r] EXCEPT !.at = "lease"]
      <4>1. visit[r].at = "consume" /\ link[l].state = "sent"
        BY <1>2, <3>2 DEF Account!Consume, Account!At
      <4>2. l \in Links
        BY <1>0, <4>1 DEF VisitIsSound
      <4>3. blob \in LinkBlob /\ blob.state = "used"
        BY <4>2, AccountFacts DEF LinkBlob
      <4>4. next \in Visit /\ next.at = "lease" /\ next.link = l
        BY <1>0 DEF Visit
      <4>5. /\ visit' = [visit EXCEPT ![r] = next]
            /\ link' = [link EXCEPT ![l] = blob]
            /\ UNCHANGED <<credential, told, holder>>
        BY <3>2, <4>1 DEF Account!Consume, Account!Goto
      <4>. HIDE DEF next, blob
      <4>. QED
        BY <4>1, <4>2, <4>3, <4>4, <4>5
    <3>. QED
      BY <3>1, <3>2
  <2>2. \A q \in Requests : visit'[q] = IF q = r THEN next ELSE visit[q]
    BY <2>1, AccountFacts
  <2>3. \A k \in Links : link'[k] = IF k = l THEN blob ELSE link[k]
    BY <2>1, AccountFacts
  <2>. HIDE DEF l
  <2>4. AccountTypes'
    BY <2>1, AccountFacts DEF AccountInv, AccountTypes
  <2>5. \A k \in Links : link[k].state = "used" => k # l /\ link'[k] = link[k]
    BY <2>1, <2>3
  <2>6. PasswordIsPast' /\ \A k \in told' : (link[k].state = "used" /\ Done(k))'
    <3>1. credential.password # None => credential.password \in Links
      BY AccountFacts DEF Credential
    <3>. QED
      BY <2>1, <2>5, <3>1, AccountFacts DEF AccountInv, PasswordIsPast, Done
  <2>7. ASSUME NEW q \in Requests
        PROVE  VisitIsSound(q, visit[q])'
    <3>1. CASE q = r
      BY <2>1, <2>2, <2>3, <3>1 DEF VisitIsSound
    <3>2. CASE q # r
      <4>1. visit'[q] = visit[q] /\ VisitIsSound(q, visit[q])
        BY <2>2, <3>2, AccountFacts
      <4>2. visit[q].at = "mail" => visit[q].link # l
        BY <2>1, <3>2, <4>1 DEF l, AccountInv, MailsDiffer, VisitIsSound
      <4>3. credential.password # None =>
              credential.password \in Links /\ link[credential.password].state = "used"
        BY AccountFacts DEF AccountInv, PasswordIsPast, Credential
      <4>. QED
        BY <2>1, <2>3, <2>5, <4>1, <4>2, <4>3 DEF VisitIsSound, Done
    <3>. QED
      BY <3>1, <3>2
  <2>8. MailsDiffer'
    BY <2>1, <2>2 DEF AccountInv, MailsDiffer
  <2>. QED
    BY <2>4, <2>6, <2>7, <2>8 DEF AccountInv
<1>. QED
  BY <1>1, <1>2

(* The lease is taken, and the credential read under it.                   *)
LEMMA LeasesKeep ==
  ASSUME AccountInv, NEW r \in Requests,
         Account!TakeLease(r) \/ Account!ReadCredential(r) \/ Account!Crash(r)
  PROVE  AccountInv'
<1>0. visit[r] \in Visit /\ VisitIsSound(r, visit[r])
  BY AccountFacts
<1>1. UNCHANGED <<credential, link, told>>
  BY DEF Account!TakeLease, Account!ReadCredential, Account!Crash, Account!documents
<1>2. \A q \in Requests : q # r /\ holder' = q => holder = q
  BY AccountConstants DEF Account!TakeLease, Account!ReadCredential, Account!Crash
<1>3. CASE visit' = [visit EXCEPT ![r] = Account!Idle]
  BY <1>1, <1>2, <1>3, VisitGoesOn, IdleIsSound, AccountConstants
<1>4. CASE Account!TakeLease(r) /\ visit' = [visit EXCEPT ![r].at = "read"]
  <2>1. visit[r].at = "lease"
    BY <1>4 DEF Account!TakeLease, Account!At
  <2>. PICK next : next = [visit[r] EXCEPT !.at = "read"]
    OBVIOUS
  <2>2. next \in Visit /\ next.at = "read" /\ next.op = visit[r].op /\ next.link = visit[r].link
    BY <1>0 DEF Visit
  <2>3. visit' = [visit EXCEPT ![r] = next]
    BY <1>4
  <2>4. VisitIsSound(r, next)'
    BY <1>0, <1>1, <2>1, <2>2 DEF VisitIsSound
  <2>. QED
    BY <1>1, <1>2, <2>2, <2>3, <2>4, VisitGoesOn
<1>5. CASE /\ Account!ReadCredential(r)
           /\ visit' = [visit EXCEPT ![r].at = "write", ![r].saw = credential]
           /\ visit[r].op = "reset" => Account!IsForVersion(visit[r].link)
  <2>1. visit[r].at = "read"
    BY <1>5 DEF Account!ReadCredential, Account!At
  <2>. PICK next : next = [visit[r] EXCEPT !.at = "write", !.saw = credential]
    OBVIOUS
  <2>2. /\ next \in Visit /\ next.at = "write" /\ next.saw = credential
        /\ next.op = visit[r].op /\ next.link = visit[r].link
    BY <1>0, AccountFacts DEF Visit
  <2>3. visit' = [visit EXCEPT ![r] = next]
    BY <1>5
  <2>4. VisitIsSound(r, next)'
    BY <1>0, <1>1, <1>5, <2>1, <2>2 DEF VisitIsSound, Account!IsForVersion
  <2>. QED
    BY <1>1, <1>2, <2>2, <2>3, <2>4, VisitGoesOn
<1>. QED
  BY <1>3, <1>4, <1>5
  DEF Account!TakeLease, Account!ReadCredential, Account!Crash, Account!Ends, Account!Goto

(* What the write makes of the credential that was read.                   *)
LEMMA RewrittenIs ==
  ASSUME NEW r \in Requests, visit[r] \in Visit, visit[r].saw = credential,
         credential \in Credential,
         visit[r].op = "reset" => visit[r].link \in Links
  PROVE  LET c == Account!Rewritten(r)
         IN /\ c \in Credential
            /\ visit[r].op = "reset" =>
                 c.password = visit[r].link /\ c.version = credential.version + 1
            /\ visit[r].op # "reset" =>
                 c.password = credential.password /\ c.version >= credential.version
<1>0. credential.version \in Nat /\ credential.failures \in 0 .. MaxFailures
      /\ credential.password \in Links \union {None} /\ credential.locked \in BOOLEAN
  BY DEF Credential
<1>1. CASE visit[r].op = "reset"
  <2>. DEFINE d == [credential EXCEPT !.password = visit[r].link, !.version = @ + 1]
  <2>1. Account!Rewritten(r) = d
    BY <1>1 DEF Account!Rewritten
  <2>2. d \in Credential
    <3>1. visit[r].link \in Links \union {None} /\ credential.version + 1 \in Nat
      BY <1>0, <1>1
    <3>. QED
      BY <3>1 DEF Credential
  <2>3. /\ d.password = visit[r].link /\ d.version = credential.version + 1
    BY DEF Credential
  <2>. HIDE DEF d
  <2>. QED
    BY <1>1, <2>1, <2>2, <2>3
<1>2. CASE visit[r].op = "logout"
  BY <1>0, <1>2 DEF Account!Rewritten, Credential
<1>3. CASE visit[r].op = "login" /\ visit[r].right
  <2>. DEFINE d == [credential EXCEPT !.failures = 0, !.locked = FALSE]
  <2>1. Account!Rewritten(r) = d
    BY <1>3 DEF Account!Rewritten
  <2>2. d \in Credential
    <3>1. 0 \in 0 .. MaxFailures
      BY AccountConstants
    <3>. QED
      BY <3>1 DEF Credential
  <2>3. d.password = credential.password /\ d.version = credential.version
    BY DEF Credential
  <2>. HIDE DEF d
  <2>. QED
    BY <1>0, <1>3, <2>1, <2>2, <2>3, AccountConstants
<1>4. CASE /\ visit[r].op \notin {"reset", "logout"}
           /\ ~(visit[r].op = "login" /\ visit[r].right)
  <2>1. Account!Rewritten(r) = Account!Failed(credential)
    BY <1>4 DEF Account!Rewritten
  <2>. DEFINE n == IF credential.failures < MaxFailures
                   THEN credential.failures + 1 ELSE MaxFailures
  <2>2. n \in 0 .. MaxFailures
    BY <1>0, AccountConstants
  <2>3. Account!Failed(credential)
          = [credential EXCEPT !.failures = n, !.locked = @ \/ n = MaxFailures]
    BY DEF Account!Failed
  <2>. DEFINE d == [credential EXCEPT !.failures = n, !.locked = @ \/ n = MaxFailures]
  <2>4. d.password = credential.password /\ d.version = credential.version
    BY DEF Credential
  <2>. HIDE DEF n
  <2>5. d \in Credential
    <3>1. (credential.locked \/ n = MaxFailures) \in BOOLEAN
      OBVIOUS
    <3>. QED
      BY <1>0, <2>2, <3>1 DEF Credential
  <2>. HIDE DEF d
  <2>6. Account!Rewritten(r) = d
    BY <2>1, <2>3 DEF d
  <2>. QED
    <3>1. visit[r].op # "reset" /\ d.version >= credential.version
      BY <1>0, <1>4, <2>4
    <3>. QED
      BY <2>4, <2>5, <2>6, <3>1
<1>. QED
  BY <1>1, <1>2, <1>3, <1>4

(* The write is refused, or is made by the request that holds the lease.   *)
LEMMA WriteKeeps ==
  ASSUME AccountInv, NEW r \in Requests, Account!WriteCredential(r)
  PROVE  AccountInv'
<1>. PICK c, l : c = Account!Rewritten(r) /\ l = visit[r].link
  OBVIOUS
<1>0. visit[r] \in Visit /\ VisitIsSound(r, visit[r]) /\ visit[r].at = "write"
  BY AccountFacts DEF Account!WriteCredential, Account!At
<1>1. CASE ~Account!MayWrite(r)
  <2>1. /\ visit' = [visit EXCEPT ![r] = Account!Idle]
        /\ UNCHANGED <<credential, link, told, holder>>
    BY <1>1 DEF Account!WriteCredential, Account!Ends
  <2>. QED
    BY <2>1, VisitGoesOn, IdleIsSound, AccountConstants
<1>2. CASE Account!MayWrite(r)
  <2>1. /\ holder = r /\ credential' = c /\ holder' = None
        /\ UNCHANGED <<link, told>>
    BY <1>2 DEF Account!WriteCredential, Account!MayWrite
  <2>2. /\ visit[r].saw = credential
        /\ visit[r].op = "reset" =>
             l \in Links /\ link[l].state = "used" /\ link[l].version = credential.version
    BY <1>0, <2>1 DEF VisitIsSound
  <2>3. PICK next \in Visit :
          /\ visit' = [visit EXCEPT ![r] = next]
          /\ \/ next = Account!Idle
             \/ next.at = "bump" /\ next.op = visit[r].op /\ next.link = l
    <3>. DEFINE bump == [visit[r] EXCEPT !.at = "bump"]
    <3>1. bump \in Visit /\ bump.at = "bump" /\ bump.op = visit[r].op /\ bump.link = l
      BY <1>0 DEF Visit
    <3>2. visit' = [visit EXCEPT ![r] = bump] \/ visit' = [visit EXCEPT ![r] = Account!Idle]
      BY <1>2 DEF Account!WriteCredential, Account!Ends, Account!Goto
    <3>. HIDE DEF bump
    <3>. QED
      BY <3>1, <3>2, AccountConstants
  <2>4. /\ c \in Credential
        /\ visit[r].op = "reset" => c.password = l /\ c.version = credential.version + 1
        /\ visit[r].op # "reset" =>
             c.password = credential.password /\ c.version >= credential.version
    BY <1>0, <2>2, RewrittenIs, AccountFacts
  <2>5. \A q \in Requests : visit'[q] = IF q = r THEN next ELSE visit[q]
    BY <2>3, AccountFacts
  <2>6. /\ credential.version \in Nat /\ credential'.version \in Nat
        /\ \A k \in Links : link[k].version \in Nat
        /\ credential.password \in Links \union {None} /\ None \notin Links
    BY <2>1, <2>4, AccountFacts, AccountConstants DEF Credential, LinkBlob
  <2>7. PasswordIsPast'
    BY <2>1, <2>2, <2>4, <2>6 DEF AccountInv, PasswordIsPast
  <2>8. ASSUME NEW k \in Links, Done(k)
        PROVE  Done(k)'
    <3>1. CASE visit[r].op # "reset"
      BY <2>1, <2>4, <2>8, <3>1 DEF Done
    <3>2. CASE visit[r].op = "reset"
      <4>1. credential'.password = l /\ l # None /\ link'[l].version = credential.version
        BY <2>1, <2>2, <2>4, <2>6, <3>2
      <4>2. link[k].version < credential.version
        <5>1. CASE credential.password = k
          BY <2>6, <5>1 DEF AccountInv, PasswordIsPast
        <5>2. CASE /\ credential.password # None
                   /\ link[credential.password].version > link[k].version
          <6>1. /\ credential.password \in Links
                /\ link[credential.password].version < credential.version
            BY <2>6, <5>2 DEF AccountInv, PasswordIsPast
          <6>. QED
            BY <2>6, <5>2, <6>1
        <5>. QED
          BY <2>8, <5>1, <5>2 DEF Done
      <4>. QED
        BY <2>1, <2>6, <4>1, <4>2 DEF Done
    <3>. QED
      BY <3>1, <3>2
  <2>9. visit[r].op = "reset" => Done(l)'
    BY <2>1, <2>4 DEF Done
  <2>10. ASSUME NEW q \in Requests
         PROVE  VisitIsSound(q, visit[q])'
    <3>1. CASE q = r
      BY <2>1, <2>2, <2>3, <2>5, <2>9, <3>1, AccountConstants DEF VisitIsSound
    <3>2. CASE q # r
      <4>1. visit'[q] = visit[q] /\ VisitIsSound(q, visit[q]) /\ holder' # q
        BY <2>1, <2>5, <3>2, AccountFacts, AccountConstants
      <4>2. visit[q].at = "bump" /\ visit[q].op = "reset" => Done(visit[q].link)'
        BY <2>8, <4>1 DEF VisitIsSound
      <4>. QED
        BY <2>1, <4>1, <4>2 DEF VisitIsSound
    <3>. QED
      BY <3>1, <3>2
  <2>11. AccountTypes'
    BY <2>1, <2>3, <2>4, AccountFacts DEF AccountTypes
  <2>12. MailsDiffer'
    BY <2>3, <2>5, AccountConstants DEF AccountInv, MailsDiffer
  <2>13. \A k \in told' : (link[k].state = "used" /\ Done(k))'
    BY <2>1, <2>8, AccountFacts DEF AccountInv
  <2>. QED
    BY <2>7, <2>10, <2>11, <2>12, <2>13 DEF AccountInv
<1>. QED
  BY <1>1, <1>2

LEMMA BumpKeeps ==
  ASSUME AccountInv, NEW r \in Requests, Account!Bump(r)
  PROVE  AccountInv'
<1>0. visit[r] \in Visit /\ VisitIsSound(r, visit[r]) /\ visit[r].at = "bump"
  BY AccountFacts DEF Account!Bump, Account!At
<1>1. /\ visit' = [visit EXCEPT ![r] = Account!Idle]
      /\ told' = IF visit[r].op = "reset" THEN told \union {visit[r].link} ELSE told
      /\ UNCHANGED <<credential, link, holder>>
  BY DEF Account!Bump, Account!Ends
<1>2. \A q \in Requests : visit'[q] = IF q = r THEN Account!Idle ELSE visit[q]
  BY <1>1, AccountFacts
<1>3. ASSUME NEW l \in told'
      PROVE  l \in Links /\ (link[l].state = "used")' /\ Done(l)'
  <2>1. \/ l \in told
        \/ visit[r].op = "reset" /\ l = visit[r].link
    BY <1>1
  <2>2. l \in Links /\ link[l].state = "used" /\ Done(l)
    BY <1>0, <2>1, AccountFacts DEF AccountInv, VisitIsSound
  <2>. QED
    BY <1>1, <2>2 DEF Done
<1>4. AccountTypes'
  <2>1. visit' \in [Requests -> Visit]
    BY <1>1, AccountFacts, AccountConstants
  <2>. QED
    BY <1>1, <1>3, <2>1, AccountFacts DEF AccountTypes
<1>5. ASSUME NEW q \in Requests
      PROVE  VisitIsSound(q, visit[q])'
  <2>1. CASE q = r
    BY <1>2, <2>1, AccountConstants DEF VisitIsSound
  <2>2. CASE q # r
    BY <1>1, <1>2, <2>2, AccountFacts DEF VisitIsSound, Done
  <2>. QED
    BY <2>1, <2>2
<1>6. MailsDiffer'
  BY <1>2, AccountConstants DEF AccountInv, MailsDiffer
<1>7. PasswordIsPast'
  BY <1>1 DEF AccountInv, PasswordIsPast
<1>. QED
  BY <1>3, <1>4, <1>5, <1>6, <1>7 DEF AccountInv

(* Time: a lease runs out, and so does the lock of an account that nobody  *)
(* is signing in to.                                                       *)
LEMMA TimeKeeps ==
  ASSUME AccountInv, Account!LeaseLapses \/ Account!LockExpires
  PROVE  AccountInv'
<1>1. CASE Account!LeaseLapses
  <2>1. holder' = None /\ UNCHANGED <<credential, link, visit, told>>
    BY <1>1 DEF Account!LeaseLapses, Account!documents
  <2>2. ASSUME NEW q \in Requests
        PROVE  VisitIsSound(q, visit[q])'
    BY <2>1, AccountFacts, AccountConstants DEF VisitIsSound, Done
  <2>. QED
    BY <2>1, <2>2 DEF AccountInv, AccountTypes, MailsDiffer, PasswordIsPast, Done
<1>2. CASE Account!LockExpires
  <2>1. /\ credential' = [credential EXCEPT !.locked = FALSE, !.failures = 0]
        /\ \A r \in Requests : visit[r] = Account!Idle
        /\ UNCHANGED <<link, visit, told>>
    BY <1>2 DEF Account!LockExpires
  <2>2. /\ credential' \in Credential
        /\ credential'.password = credential.password
        /\ credential'.version = credential.version
    <3>1. 0 \in 0 .. MaxFailures
      BY AccountConstants
    <3>. QED
      BY <2>1, <3>1, AccountFacts DEF Credential
  <2>3. ASSUME NEW q \in Requests
        PROVE  VisitIsSound(q, visit[q])'
    BY <2>1, AccountConstants DEF VisitIsSound
  <2>. QED
    BY <2>1, <2>2, <2>3 DEF AccountInv, AccountTypes, MailsDiffer, PasswordIsPast, Done
<1>. QED
  BY <1>1, <1>2

LEMMA AccountSteps == AccountInv /\ [Account!Next]_Account!vars => AccountInv'
<1>. SUFFICES ASSUME AccountInv, [Account!Next]_Account!vars
     PROVE  AccountInv'
  OBVIOUS
<1>1. CASE UNCHANGED Account!vars
  BY <1>1 DEF Account!vars, Account!documents, AccountInv, AccountTypes, VisitIsSound,
              MailsDiffer, PasswordIsPast, Done
<1>2. ASSUME NEW r \in Requests,
             \/ \E l \in Links : Account!AskForgot(r, l) \/ Account!AskReset(r, l)
             \/ Account!AskLogout(r) \/ Account!AskLogin(r)
             \/ Account!MailLink(r) \/ Account!Consume(r) \/ Account!TakeLease(r)
             \/ Account!ReadCredential(r) \/ Account!WriteCredential(r)
             \/ Account!Bump(r) \/ Account!Crash(r)
      PROVE  AccountInv'
  BY <1>2, AsksKeep, LinksKeep, LeasesKeep, WriteKeeps, BumpKeeps
<1>3. CASE Account!LeaseLapses \/ Account!LockExpires
  BY <1>3, TimeKeeps
<1>. QED
  BY <1>1, <1>2, <1>3 DEF Account!Next

LEMMA AccountIsSound == AccountInv => Account!ResetIsFinal
BY DEF AccountInv, Account!ResetIsFinal, Done

-----------------------------------------------------------------------------
(* The lists of the administrators.                                        *)

MakerLists == [Makers -> [Fields -> 0 .. 2]]
Configs == [Keys -> 0 .. 2]
Places == [Sites -> 0 .. 2]
PatchOf(S) == UNION {[T -> 0 .. 2] : T \in SUBSET S}

Request == [op : {"none", "config", "defaults", "move"} \union MakerOps \union SiteOps,
            at : {"idle", "lease", "read", "write", "seed", "look", "copy", "verify",
                  "remove", "document", "index", "put"},
            key : Makers \union Sites \union {None},
            patch : PatchOf(Fields) \union PatchOf(Keys) \union MakerLists
                      \union 0 .. 2 \union {<<>>},
            saw : MakerLists \union Configs \union Places \union {<<>>},
            again : BOOLEAN]

ListTypes ==
  /\ makers \in MakerLists /\ old \in MakerLists \union {None}
  /\ config \in Configs \union {None}
  /\ lease \in [Leased -> Requests \union {None}]
  /\ serial \in [makers : MakerLists, config : Configs \union {None}]
  /\ req \in [Requests -> Request]

(* A change of a list that holds its lease has read the list as it is.     *)
ListOf(q) == IF q.op = "config" THEN config ELSE makers

EditIsSound(r, q) ==
  /\ q.op \in MakerOps =>
       /\ q.key \in Makers /\ q.patch \in PatchOf(Fields)
       /\ q.at = "write" => q.saw \in MakerLists
  /\ q.op = "config" =>
       /\ q.patch \in PatchOf(Keys)
       /\ q.at \in {"read", "write"} => config # None
       /\ q.at = "write" => q.saw \in Configs
  /\ q.op \in MakerOps \union {"config"} /\ q.at = "write"
       /\ lease[IF q.op = "config" THEN "config" ELSE "makers"] = r => q.saw = ListOf(q)

(* A run of the script copies to an empty list, and removes the old one    *)
(* after it was seen in public.                                            *)
MoveIsSound(q) ==
  q.op = "move" =>
    /\ q.patch \in MakerLists
    /\ q.at = "copy" => makers = Empty
    /\ q.at = "remove" => carried

MoveIsAlone ==
  \A q, r \in Requests :
    q # r /\ req[r].op = "move" => req[q].op \notin MakerOps \union {"move"}

ListInv ==
  /\ ListTypes
  /\ \A r \in Requests : EditIsSound(r, req[r]) /\ MoveIsSound(req[r])
  /\ MoveIsAlone
  /\ EditsAreKept /\ MoveKeepsList

(* What one change of a site, by itself, has done so far.                  *)
SiteIsSound(q) ==
  q.op \in SiteOps =>
    /\ q.key \in Sites /\ q.patch \in 0 .. 2
    /\ q.at = "put" => q.saw \in Places
    /\ ~torn =>
         /\ q.at = "document" => index = sites
         /\ q.at \in {"index", "put"} => sites = [index EXCEPT ![q.key] = q.patch]
         /\ q.at = "put" => q.saw = index

SitesInv ==
  /\ sites \in Places /\ index \in Places /\ torn \in BOOLEAN
  /\ \A r \in Requests : SiteIsSound(req[r])
  /\ ~torn => \A q, r \in Requests :
                q # r /\ req[q].op \in SiteOps => req[r].op \notin SiteOps
  /\ IndexShowsSites

CatalogueInv == ListInv /\ SitesInv

LEMMA CatalogueConstants ==
  /\ Idle \in Request /\ Idle.op = "none" /\ Idle.at = "idle"
  /\ None \notin Configs /\ None \notin Requests
  /\ Absent \in [Fields -> 0 .. 2] /\ Empty \in MakerLists /\ Defaults \in Configs
<1>1. Idle \in Request
  BY DEF Idle, Request
<1>2. Idle.op = "none" /\ Idle.at = "idle"
  BY DEF Idle
<1>3. Absent \in [Fields -> 0 .. 2]
  BY DEF Absent
<1>4. Empty \in MakerLists /\ Defaults \in Configs
  BY <1>3 DEF Empty, Defaults, MakerLists, Configs
<1>. QED
  BY <1>1, <1>2, <1>3, <1>4, ServicesAssumption DEF Configs

LEMMA CatalogueInitial == Init => CatalogueInv
<1>. SUFFICES ASSUME Init
     PROVE  CatalogueInv
  OBVIOUS
<1>1. /\ makers = Empty
      /\ \/ old = None
         \/ old = [m \in Makers |-> [f \in Fields |-> IF f = "name" THEN 1 ELSE 0]]
      /\ config \in {None, Defaults}
      /\ sites = [s \in Sites |-> 1] /\ index = sites
      /\ lease = [b \in Leased |-> None] /\ req = [r \in Requests |-> Idle]
      /\ serial = [makers |-> makers, config |-> config]
      /\ carried = (old = None) /\ torn = FALSE
  BY DEF Init
<1>2. \A r \in Requests : req[r].op = "none"
  BY <1>1, CatalogueConstants
<1>3. ListTypes
  <2>1. old \in MakerLists \union {None}
    BY <1>1 DEF MakerLists
  <2>2. serial \in [makers : MakerLists, config : Configs \union {None}]
    BY <1>1, CatalogueConstants
  <2>. QED
    BY <1>1, <2>1, <2>2, CatalogueConstants DEF ListTypes
<1>4. \A r \in Requests : EditIsSound(r, req[r]) /\ MoveIsSound(req[r])
  BY <1>2 DEF EditIsSound, MoveIsSound, MakerOps
<1>5. MoveIsAlone
  BY <1>2 DEF MoveIsAlone
<1>6. EditsAreKept /\ MoveKeepsList
  BY <1>1 DEF EditsAreKept, MoveKeepsList
<1>7. SitesInv
  <2>1. sites \in Places /\ index \in Places
    BY <1>1 DEF Places
  <2>2. \A r \in Requests : req[r].op \notin SiteOps
    BY <1>2 DEF SiteOps
  <2>. QED
    BY <1>1, <2>1, <2>2 DEF SitesInv, SiteIsSound, IndexShowsSites
<1>. QED
  BY <1>3, <1>4, <1>5, <1>6, <1>7 DEF CatalogueInv, ListInv

ListOps == MakerOps \union {"config", "defaults", "move"}

LEMMA OpsAreApart ==
  /\ MakerOps = {"create", "update", "delete"}
  /\ SiteOps = {"addSite", "editSite", "dropSite"}
  /\ ListOps = {"create", "update", "delete", "config", "defaults", "move"}
BY DEF MakerOps, SiteOps, ListOps

(* A step that no request about the lists takes.                           *)
LEMMA ListsUntouched ==
  ASSUME ListInv, UNCHANGED <<lists, serial, carried>>,
         req' \in [Requests -> Request],
         lease' \in [Leased -> Requests \union {None}],
         \A q \in Requests : req'[q].op \in ListOps => req'[q] = req[q],
         \A q \in Requests, b \in Leased : lease'[b] = q => lease[b] = q
  PROVE  ListInv'
<1>1. ListTypes'
  BY DEF ListInv, ListTypes, lists
<1>2. ASSUME NEW q \in Requests
      PROVE  (EditIsSound(q, req[q]) /\ MoveIsSound(req[q]))'
  <2>1. CASE req'[q].op \notin ListOps
    BY <2>1, OpsAreApart DEF EditIsSound, MoveIsSound
  <2>2. CASE req'[q].op \in ListOps
    <3>1. req'[q] = req[q] /\ EditIsSound(q, req[q]) /\ MoveIsSound(req[q])
      BY <2>2 DEF ListInv
    <3>2. \A b \in Leased : lease'[b] = q => lease[b] = q
      OBVIOUS
    <3>3. {"makers", "config"} = Leased
      BY DEF Leased
    <3>. QED
      BY <3>1, <3>2, <3>3 DEF EditIsSound, MoveIsSound, ListOf, lists
  <2>. QED
    BY <2>1, <2>2
<1>3. MoveIsAlone'
  BY OpsAreApart DEF ListInv, MoveIsAlone
<1>4. EditsAreKept' /\ MoveKeepsList'
  BY DEF ListInv, EditsAreKept, MoveKeepsList, lists
<1>. QED
  BY <1>1, <1>2, <1>3, <1>4 DEF ListInv

(* A step that no change of a site takes, or one that breaks off there.    *)
LEMMA SitesUntouched ==
  ASSUME SitesInv, UNCHANGED places, torn' \in BOOLEAN, torn => torn',
         \A q \in Requests : req'[q].op \in SiteOps => req'[q] = req[q],
         \A q \in Requests : req[q].op \in SiteOps => req'[q] = req[q] \/ torn'
  PROVE  SitesInv'
<1>1. \A q \in Requests : SiteIsSound(req[q])'
  BY DEF SitesInv, SiteIsSound, places
<1>2. IndexShowsSites'
  BY DEF SitesInv, IndexShowsSites, places
<1>. QED
  BY <1>1, <1>2 DEF SitesInv, places

(* A step of the request r about the lists.                                *)
LEMMA EditGoesOn ==
  ASSUME CatalogueInv, NEW r \in Requests, NEW next \in Request,
         req' = [req EXCEPT ![r] = next],
         UNCHANGED <<makers, old, serial, places, torn>>,
         carried => carried',
         UNCHANGED config,
         lease' \in [Leased -> Requests \union {None}],
         \A q \in Requests, b \in Leased : q # r /\ lease'[b] = q => lease[b] = q,
         req[r].op \notin SiteOps, next.op \notin SiteOps,
         EditIsSound(r, next)', MoveIsSound(next)',
         \/ next.op = req[r].op
         \/ next.op \notin MakerOps \union {"move"}
         \/ next.op \in MakerOps /\ \A q \in Requests : req[q].op # "move"
         \/ next.op = "move" /\ \A q \in Requests : req[q].op \notin MakerOps \union {"move"}
  PROVE  CatalogueInv'
<1>1. \A q \in Requests : req'[q] = IF q = r THEN next ELSE req[q]
  BY DEF CatalogueInv, ListInv, ListTypes
<1>2. ListTypes'
  BY DEF CatalogueInv, ListInv, ListTypes
<1>3. ASSUME NEW q \in Requests
      PROVE  (EditIsSound(q, req[q]) /\ MoveIsSound(req[q]))'
  <2>1. CASE q = r
    BY <1>1, <2>1 DEF EditIsSound, MoveIsSound, ListOf
  <2>2. CASE q # r
    <3>1. req'[q] = req[q] /\ EditIsSound(q, req[q]) /\ MoveIsSound(req[q])
      BY <1>1, <2>2 DEF CatalogueInv, ListInv
    <3>2. \A b \in {"makers", "config"} : lease'[b] = q => lease[b] = q
      BY <2>2 DEF Leased
    <3>. QED
      BY <3>1, <3>2 DEF EditIsSound, MoveIsSound, ListOf
  <2>. QED
    BY <2>1, <2>2
<1>4. MoveIsAlone'
  BY <1>1, OpsAreApart DEF CatalogueInv, ListInv, MoveIsAlone
<1>5. EditsAreKept' /\ MoveKeepsList'
  BY DEF CatalogueInv, ListInv, EditsAreKept, MoveKeepsList
<1>6. SitesInv'
  BY <1>1, SitesUntouched DEF CatalogueInv, SitesInv
<1>. QED
  BY <1>2, <1>3, <1>4, <1>5, <1>6 DEF CatalogueInv, ListInv

LEMMA CatalogueFacts ==
  ASSUME CatalogueInv
  PROVE  /\ ListTypes /\ SitesInv
         /\ req \in [Requests -> Request]
         /\ lease \in [Leased -> Requests \union {None}]
         /\ \A r \in Requests : /\ req[r] \in Request /\ EditIsSound(r, req[r])
                                /\ MoveIsSound(req[r]) /\ SiteIsSound(req[r])
BY DEF CatalogueInv, ListInv, ListTypes, SitesInv

LEMMA PatchIsOf ==
  ASSUME NEW S, NEW T \in SUBSET S, NEW p \in [T -> 0 .. 2]
  PROVE  p \in PatchOf(S)
BY DEF PatchOf

LEMMA NewIs ==
  ASSUME NEW op \in ListOps \union SiteOps, NEW at \in {"lease", "seed", "look", "document"},
         NEW key \in Makers \union Sites \union {None},
         NEW patch \in PatchOf(Fields) \union PatchOf(Keys) \union MakerLists
                         \union 0 .. 2 \union {<<>>}
  PROVE  /\ New(op, at, key, patch) \in Request
         /\ New(op, at, key, patch).op = op /\ New(op, at, key, patch).at = at
         /\ New(op, at, key, patch).key = key /\ New(op, at, key, patch).patch = patch
<1>. DEFINE q == [Idle EXCEPT !.op = op]
            t == [q EXCEPT !.at = at]
            u == [t EXCEPT !.key = key]
            v == [u EXCEPT !.patch = patch]
<1>1. q \in Request /\ q.op = op
  BY CatalogueConstants, OpsAreApart DEF Request
<1>. HIDE DEF q
<1>2. t \in Request /\ t.op = op /\ t.at = at
  BY <1>1 DEF Request
<1>. HIDE DEF t
<1>3. u \in Request /\ u.op = op /\ u.at = at /\ u.key = key
  BY <1>2 DEF Request
<1>. HIDE DEF u
<1>4. v \in Request /\ v.op = op /\ v.at = at /\ v.key = key /\ v.patch = patch
  BY <1>3 DEF Request
<1>5. New(op, at, key, patch) = v
  BY DEF New, q, t, u, v
<1>. QED
  BY <1>4, <1>5

(* A request about the lists begins.                                       *)
LEMMA EditsBegin ==
  ASSUME CatalogueInv, NEW r \in Requests,
         AskMaker(r) \/ AskConfig(r) \/ AskDefaults(r) \/ AskMove(r)
  PROVE  CatalogueInv'
<1>1. ASSUME NEW op \in ListOps, NEW at \in {"lease", "seed", "look"},
             NEW key \in Makers \union {None},
             NEW patch \in PatchOf(Fields) \union PatchOf(Keys) \union MakerLists \union {<<>>},
             Begins(r, New(op, at, key, patch)), UNCHANGED torn,
             op \in MakerOps =>
               /\ key \in Makers /\ patch \in PatchOf(Fields)
               /\ \A q \in Requests : req[q].op # "move",
             op = "config" => patch \in PatchOf(Keys),
             op = "move" =>
               /\ patch \in MakerLists
               /\ \A q \in Requests : req[q].op \notin MakerOps \union {"move"}
      PROVE  CatalogueInv'
  <2>1. PICK next : next = New(op, at, key, patch)
    OBVIOUS
  <2>2. next \in Request /\ next.op = op /\ next.at = at /\ next.key = key /\ next.patch = patch
    BY <2>1, NewIs
  <2>3. /\ req' = [req EXCEPT ![r] = next] /\ req[r].op = "none"
        /\ UNCHANGED <<lists, places, lease, serial, carried>>
    BY <1>1, <2>1, CatalogueConstants DEF Begins
  <2>4. EditIsSound(r, next)' /\ MoveIsSound(next)'
    BY <1>1, <2>2, OpsAreApart DEF EditIsSound, MoveIsSound
  <2>5. next.op \notin SiteOps /\ req[r].op \notin SiteOps
    BY <2>2, <2>3, OpsAreApart
  <2>6. \/ next.op \notin MakerOps \union {"move"}
        \/ next.op \in MakerOps /\ \A q \in Requests : req[q].op # "move"
        \/ next.op = "move" /\ \A q \in Requests : req[q].op \notin MakerOps \union {"move"}
    BY <1>1, <2>2
  <2>7. UNCHANGED <<makers, old, config, serial, places, torn, carried, lease>>
    BY <1>1, <2>3 DEF lists
  <2>8. /\ lease' \in [Leased -> Requests \union {None}] /\ (carried => carried')
        /\ \A q \in Requests, b \in Leased : q # r /\ lease'[b] = q => lease[b] = q
    BY <2>7, CatalogueFacts
  <2>. QED
    BY <2>2, <2>3, <2>4, <2>5, <2>6, <2>7, <2>8, EditGoesOn
<1>2. CASE AskMaker(r)
  <2>1. UNCHANGED torn /\ \A q \in Requests : req[q].op # "move"
    BY <1>2 DEF AskMaker, Moving
  <2>2. PICK m \in Makers :
          \/ Begins(r, New("create", "lease", m, [f \in {"name"} |-> 1]))
          \/ \E fs \in {{"name"}, {"site"}} :
               Begins(r, New("update", "lease", m, [f \in fs |-> 2]))
          \/ Begins(r, New("delete", "lease", m, Absent))
    BY <1>2 DEF AskMaker
  <2>3. \E op \in MakerOps, patch \in PatchOf(Fields) : Begins(r, New(op, "lease", m, patch))
    <3>1. [f \in {"name"} |-> 1] \in PatchOf(Fields)
      <4>1. {"name"} \in SUBSET Fields /\ [f \in {"name"} |-> 1] \in [{"name"} -> 0 .. 2]
        BY DEF Fields
      <4>. QED
        BY <4>1, PatchIsOf
    <3>2. ASSUME NEW fs \in {{"name"}, {"site"}}
          PROVE  [f \in fs |-> 2] \in PatchOf(Fields)
      <4>1. fs \in SUBSET Fields /\ [f \in fs |-> 2] \in [fs -> 0 .. 2]
        BY DEF Fields
      <4>. QED
        BY <4>1, PatchIsOf
    <3>3. Absent \in PatchOf(Fields)
      BY PatchIsOf, CatalogueConstants
    <3>. QED
      BY <2>2, <3>1, <3>2, <3>3, OpsAreApart
  <2>. QED
    BY <1>1, <2>1, <2>3, OpsAreApart
<1>3. CASE AskConfig(r)
  <2>1. PICK k \in Keys, v \in 1 .. 2 : Begins(r, New("config", "lease", None, [j \in {k} |-> v]))
    BY <1>3 DEF AskConfig
  <2>2. [j \in {k} |-> v] \in PatchOf(Keys)
    <3>1. {k} \in SUBSET Keys /\ [j \in {k} |-> v] \in [{k} -> 0 .. 2]
      OBVIOUS
    <3>. QED
      BY <3>1, PatchIsOf
  <2>3. UNCHANGED torn
    BY <1>3 DEF AskConfig
  <2>. QED
    BY <1>1, <2>1, <2>2, <2>3, OpsAreApart
<1>4. CASE AskDefaults(r)
  BY <1>1, <1>4, OpsAreApart DEF AskDefaults
<1>5. CASE AskMove(r)
  <2>1. old \in MakerLists
    BY <1>5, CatalogueFacts DEF AskMove, ListTypes
  <2>. PICK list : list = old
    OBVIOUS
  <2>2. /\ Begins(r, New("move", "look", None, list)) /\ UNCHANGED torn
        /\ \A q \in Requests : req[q].op \notin MakerOps \union {"move"}
    BY <1>5 DEF AskMove
  <2>. QED
    BY <1>1, <2>1, <2>2, OpsAreApart
<1>. QED
  BY <1>2, <1>3, <1>4, <1>5

LEMMA IdleEdit ==
  ASSUME NEW r
  PROVE  EditIsSound(r, Idle)' /\ MoveIsSound(Idle)' /\ SiteIsSound(Idle)'
<1>. PICK q : q = Idle
  OBVIOUS
<1>1. q.op \notin ListOps \union SiteOps
  BY CatalogueConstants, OpsAreApart
<1>2. EditIsSound(r, q)' /\ MoveIsSound(q)' /\ SiteIsSound(q)'
  BY <1>1, OpsAreApart DEF EditIsSound, MoveIsSound, SiteIsSound
<1>. QED
  BY <1>2 DEF Idle

(* A request about the lists ends, and gives up a lease it may have.       *)
LEMMA EditEnds ==
  ASSUME CatalogueInv, NEW r \in Requests, req' = [req EXCEPT ![r] = Idle],
         UNCHANGED <<lists, serial, places, torn>>, carried => carried',
         lease' \in [Leased -> Requests \union {None}],
         \A q \in Requests, b \in Leased : q # r /\ lease'[b] = q => lease[b] = q,
         req[r].op \notin SiteOps
  PROVE  CatalogueInv'
<1>1. Idle.op \notin ListOps \union SiteOps
  BY CatalogueConstants, OpsAreApart
<1>. QED
  BY <1>1, EditGoesOn, IdleEdit, CatalogueConstants, OpsAreApart DEF lists

(* The request goes on to another step of its own.                         *)
LEMMA EditMoves ==
  ASSUME CatalogueInv, NEW r \in Requests, NEW next \in Request,
         req' = [req EXCEPT ![r] = next],
         next.op = req[r].op, req[r].op \notin SiteOps,
         UNCHANGED <<lists, serial, places, torn>>, carried => carried',
         lease' \in [Leased -> Requests \union {None}],
         \A q \in Requests, b \in Leased : q # r /\ lease'[b] = q => lease[b] = q,
         EditIsSound(r, next)', MoveIsSound(next)'
  PROVE  CatalogueInv'
BY EditGoesOn DEF lists

LEMMA TakeLeaseKeeps ==
  ASSUME CatalogueInv, NEW r \in Requests, TakeLease(r)
  PROVE  CatalogueInv'
<1>0. /\ req[r] \in Request /\ req[r].op \in MakerOps \union {"config"} /\ req[r].at = "lease"
      /\ EditIsSound(r, req[r]) /\ req[r].op \notin SiteOps
  BY CatalogueFacts, OpsAreApart DEF TakeLease, At
<1>1. UNCHANGED <<lists, serial, places, torn, carried>>
  BY DEF TakeLease, ghosts
<1>2. /\ lease' \in [Leased -> Requests \union {None}]
      /\ \A q \in Requests, b \in Leased : q # r /\ lease'[b] = q => lease[b] = q
  <2>1. lease' = lease \/ \E b \in Leased : lease' = [lease EXCEPT ![b] = r]
    BY <1>0 DEF TakeLease, BlobOf, Leased
  <2>. QED
    BY <2>1, CatalogueFacts
<1>3. CASE req' = [req EXCEPT ![r] = Idle]
  BY <1>0, <1>1, <1>2, <1>3, EditEnds
<1>4. ASSUME NEW at \in {"seed", "read"}, req' = [req EXCEPT ![r].at = at],
             at = "read" /\ req[r].op = "config" => config # None
      PROVE  CatalogueInv'
  <2>. PICK next : next = [req[r] EXCEPT !.at = at]
    OBVIOUS
  <2>1. /\ next \in Request /\ next.op = req[r].op /\ next.at = at
        /\ next.key = req[r].key /\ next.patch = req[r].patch
    BY <1>0 DEF Request
  <2>2. EditIsSound(r, next)' /\ MoveIsSound(next)'
    BY <1>0, <1>1, <1>4, <2>1, OpsAreApart DEF EditIsSound, MoveIsSound, lists
  <2>3. req' = [req EXCEPT ![r] = next]
    BY <1>4
  <2>. QED
    BY <1>0, <1>1, <1>2, <2>1, <2>2, <2>3, EditMoves
<1>. QED
  BY <1>0, <1>3, <1>4 DEF TakeLease, Ends, Goto, BlobOf

LEMMA ReadKeeps ==
  ASSUME CatalogueInv, NEW r \in Requests, Read(r)
  PROVE  CatalogueInv'
<1>0. /\ req[r] \in Request /\ req[r].op \in MakerOps \union {"config"} /\ req[r].at = "read"
      /\ EditIsSound(r, req[r]) /\ req[r].op \notin SiteOps
  BY CatalogueFacts, OpsAreApart DEF Read, At
<1>1. UNCHANGED <<lists, serial, places, torn, carried>>
  BY DEF Read, ghosts
<1>2. /\ lease' \in [Leased -> Requests \union {None}]
      /\ \A q \in Requests, b \in Leased : q # r /\ lease'[b] = q => lease[b] = q
  <2>1. \/ lease' = lease
        \/ lease' = [b \in Leased |-> IF lease[b] = r THEN None ELSE lease[b]]
    BY DEF Read
  <2>. QED
    BY <2>1, CatalogueFacts, CatalogueConstants
<1>3. CASE req' = [req EXCEPT ![r] = Idle]
  BY <1>0, <1>1, <1>2, <1>3, EditEnds
<1>4. CASE req' = [req EXCEPT ![r].at = "write",
                     ![r].saw = IF BlobOf(r) = "config" THEN config ELSE makers]
  <2>. PICK list : list = ListOf(req[r])
    OBVIOUS
  <2>. PICK next : next = [req[r] EXCEPT !.at = "write", !.saw = list]
    OBVIOUS
  <2>1. /\ req[r].op \in MakerOps => list \in MakerLists
        /\ req[r].op = "config" => list \in Configs
    BY <1>0, CatalogueFacts, OpsAreApart DEF ListOf, EditIsSound, ListTypes
  <2>2. /\ next \in Request /\ next.op = req[r].op /\ next.at = "write" /\ next.saw = list
        /\ next.key = req[r].key /\ next.patch = req[r].patch
    <3>1. list \in MakerLists \union Configs \union Places \union {<<>>}
      BY <1>0, <2>1
    <3>. QED
      BY <1>0, <3>1 DEF Request
  <2>3. EditIsSound(r, next)' /\ MoveIsSound(next)'
    BY <1>0, <1>1, <2>1, <2>2, OpsAreApart DEF EditIsSound, MoveIsSound, ListOf, lists
  <2>4. req' = [req EXCEPT ![r] = next]
    BY <1>4 DEF ListOf, BlobOf
  <2>. QED
    BY <1>0, <1>1, <1>2, <2>2, <2>3, <2>4, EditMoves
<1>. QED
  BY <1>3, <1>4 DEF Read, Ends

(* A request that wrote a list: what the others have read under a lease    *)
(* they still hold, and where a run of the script is, is not about it.     *)
LEMMA ListWritten ==
  ASSUME CatalogueInv, NEW r \in Requests, NEW next \in Request,
         req' = [req EXCEPT ![r] = next],
         next.op \in {"none", req[r].op}, req[r].op \notin SiteOps,
         UNCHANGED <<old, places, torn, carried>>,
         makers' \in MakerLists, config' \in Configs \union {None},
         serial' \in [makers : MakerLists, config : Configs \union {None}],
         lease' \in [Leased -> Requests \union {None}],
         EditsAreKept',
         EditIsSound(r, next)', MoveIsSound(next)',
         \A q \in Requests \ {r} : EditIsSound(q, req[q])' /\ MoveIsSound(req[q])'
  PROVE  CatalogueInv'
<1>1. \A q \in Requests : req'[q] = IF q = r THEN next ELSE req[q]
  BY CatalogueFacts
<1>2. ListTypes'
  BY CatalogueFacts DEF ListTypes
<1>3. \A q \in Requests : (EditIsSound(q, req[q]) /\ MoveIsSound(req[q]))'
  BY <1>1 DEF EditIsSound, MoveIsSound, ListOf
<1>4. MoveIsAlone'
  BY <1>1, OpsAreApart DEF CatalogueInv, ListInv, MoveIsAlone
<1>5. MoveKeepsList'
  BY DEF CatalogueInv, ListInv, MoveKeepsList
<1>6. SitesInv'
  <2>1. next.op \notin SiteOps
    BY OpsAreApart
  <2>. QED
    BY <1>1, <2>1, SitesUntouched DEF CatalogueInv, SitesInv
<1>. QED
  BY <1>2, <1>3, <1>4, <1>5, <1>6 DEF CatalogueInv, ListInv

LEMMA SeedKeeps ==
  ASSUME CatalogueInv, NEW r \in Requests, Seed(r)
  PROVE  CatalogueInv'
<1>0. /\ req[r] \in Request /\ req[r].op \in {"config", "defaults"} /\ req[r].at = "seed"
      /\ EditIsSound(r, req[r]) /\ req[r].op \notin SiteOps
  BY CatalogueFacts, OpsAreApart DEF Seed, At
<1>1. UNCHANGED <<makers, old, lease, places, torn, carried>>
  BY DEF Seed
<1>2. /\ \/ /\ config = None /\ config' = Defaults
            /\ serial' = [serial EXCEPT !.config = Defaults]
         \/ config # None /\ UNCHANGED <<config, serial>>
      /\ config' # None
  BY CatalogueConstants DEF Seed
<1>3. /\ config' \in Configs \union {None}
      /\ serial' \in [makers : MakerLists, config : Configs \union {None}]
      /\ EditsAreKept'
  BY <1>1, <1>2, CatalogueFacts, CatalogueConstants
  DEF ListTypes, CatalogueInv, ListInv, EditsAreKept
<1>4. PICK next \in Request :
        /\ req' = [req EXCEPT ![r] = next]
        /\ \/ next.op = "none"
           \/ next.op = "config" /\ next.at = "lease" /\ next.patch = req[r].patch
        /\ next.op \in {"none", req[r].op}
  <2>1. CASE req[r].op = "defaults"
    BY <2>1, CatalogueConstants DEF Seed, Ends
  <2>2. CASE req[r].op = "config"
    <3>. DEFINE next == [req[r] EXCEPT !.at = "lease", !.again = TRUE]
    <3>1. next \in Request
      BY <1>0 DEF Request
    <3>2. next.op = "config" /\ next.at = "lease" /\ next.patch = req[r].patch
      BY <1>0, <2>2 DEF Request
    <3>3. req' = [req EXCEPT ![r] = next]
      BY <2>2 DEF Seed
    <3>. HIDE DEF next
    <3>. QED
      BY <2>2, <3>1, <3>2, <3>3
  <2>. QED
    BY <1>0, <2>1, <2>2
<1>5. EditIsSound(r, next)' /\ MoveIsSound(next)'
  BY <1>0, <1>4, OpsAreApart DEF EditIsSound, MoveIsSound
<1>6. ASSUME NEW q \in Requests \ {r}
      PROVE  EditIsSound(q, req[q])' /\ MoveIsSound(req[q])'
  <2>1. /\ req'[q] = req[q] /\ EditIsSound(q, req[q]) /\ MoveIsSound(req[q])
    BY <1>4, CatalogueFacts
  <2>2. req[q].op = "config" /\ req[q].at = "write" => UNCHANGED config
    BY <1>2, <2>1 DEF EditIsSound
  <2>. QED
    BY <1>1, <1>2, <2>1, <2>2, OpsAreApart DEF EditIsSound, MoveIsSound, ListOf
<1>. QED
  BY <1>0, <1>1, <1>3, <1>4, <1>5, <1>6, CatalogueFacts, ListWritten DEF ListTypes

LEMMA PatchedIs ==
  ASSUME NEW S, NEW written \in [S -> 0 .. 2], NEW p \in PatchOf(S)
  PROVE  Patched(written, p) \in [S -> 0 .. 2]
<1>1. PICK T \in SUBSET S : p \in [T -> 0 .. 2]
  BY DEF PatchOf
<1>2. \A f \in S : (IF f \in DOMAIN p THEN p[f] ELSE written[f]) \in 0 .. 2
  BY <1>1
<1>. QED
  BY <1>2 DEF Patched

LEMMA AppliedIs ==
  ASSUME CatalogueInv, NEW r \in Requests
  PROVE  /\ req[r].op = "config" => \A written \in Configs : Apply(r, written) \in Configs
         /\ req[r].op \in MakerOps => \A written \in MakerLists : Apply(r, written) \in MakerLists
<1>0. EditIsSound(r, req[r])
  BY CatalogueFacts
<1>1. ASSUME req[r].op = "config", NEW written \in Configs
      PROVE  Apply(r, written) \in Configs
  <2>1. req[r].patch \in PatchOf(Keys) /\ Apply(r, written) = Patched(written, req[r].patch)
    BY <1>0, <1>1 DEF EditIsSound, Apply
  <2>. QED
    BY <2>1, PatchedIs DEF Configs
<1>2. ASSUME req[r].op \in MakerOps, NEW written \in MakerLists
      PROVE  Apply(r, written) \in MakerLists
  <2>1. /\ req[r].key \in Makers /\ req[r].patch \in PatchOf(Fields)
        /\ Apply(r, written) = [written EXCEPT ![req[r].key] = Patched(written[req[r].key], req[r].patch)]
    BY <1>0, <1>2, OpsAreApart DEF EditIsSound, Apply
  <2>2. Patched(written[req[r].key], req[r].patch) \in [Fields -> 0 .. 2]
    BY <2>1, PatchedIs DEF MakerLists
  <2>. QED
    BY <2>1, <2>2 DEF MakerLists
<1>. QED
  BY <1>1, <1>2

(* The change is written under its lease, or refused.                      *)
LEMMA ListWriteKeeps ==
  ASSUME CatalogueInv, NEW r \in Requests, Write(r)
  PROVE  CatalogueInv'
<1>0. /\ req[r] \in Request /\ req[r].op \in MakerOps \union {"config"} /\ req[r].at = "write"
      /\ EditIsSound(r, req[r]) /\ req[r].op \notin SiteOps
  BY CatalogueFacts, OpsAreApart DEF Write, At
<1>1. UNCHANGED <<old, places, torn, carried>>
  BY DEF Write
<1>2. CASE ~MayWrite(r)
  <2>1. UNCHANGED <<lists, serial, places, torn, lease>>
    BY <1>1, <1>2 DEF Write, lists
  <2>2. CASE req' = [req EXCEPT ![r] = Idle]
    BY <1>0, <1>1, <2>1, <2>2, CatalogueFacts, EditEnds
  <2>3. CASE req' = [req EXCEPT ![r].at = "lease"]
    <3>. PICK next : next = [req[r] EXCEPT !.at = "lease"]
      OBVIOUS
    <3>1. /\ next \in Request /\ next.op = req[r].op /\ next.at = "lease"
          /\ next.key = req[r].key /\ next.patch = req[r].patch
      BY <1>0 DEF Request
    <3>2. EditIsSound(r, next)' /\ MoveIsSound(next)'
      BY <1>0, <3>1, OpsAreApart DEF EditIsSound, MoveIsSound
    <3>3. req' = [req EXCEPT ![r] = next]
      BY <2>3
    <3>. QED
      BY <1>0, <1>1, <2>1, <3>1, <3>2, <3>3, CatalogueFacts, EditMoves
  <2>. QED
    BY <1>2, <2>2, <2>3 DEF Write, Ends, Goto
<1>3. CASE MayWrite(r)
  <2>. PICK b : b = BlobOf(r)
    OBVIOUS
  <2>1. /\ lease[b] = r /\ b \in Leased
        /\ lease' = [lease EXCEPT ![b] = IF @ = r THEN None ELSE @]
        /\ req' = [req EXCEPT ![r] = Idle]
    BY <1>3 DEF MayWrite, Write, Ends, BlobOf, Leased
  <2>2. /\ lease' \in [Leased -> Requests \union {None}]
        /\ \A q \in Requests, c \in Leased : lease'[c] = q => lease[c] = q /\ c # b
    BY <2>1, CatalogueFacts, CatalogueConstants
  <2>3. /\ EditIsSound(r, Idle)' /\ MoveIsSound(Idle)'
        /\ Idle \in Request /\ Idle.op = "none"
    BY IdleEdit, CatalogueConstants
  <2>4. CASE b = "config"
    <3>1. /\ req[r].op = "config" /\ req[r].saw = config /\ config \in Configs
      BY <1>0, <2>1, <2>4, OpsAreApart DEF BlobOf, EditIsSound, ListOf
    <3>2. /\ config' = Apply(r, config) /\ UNCHANGED makers
          /\ serial' = [serial EXCEPT !.config = Apply(r, @)]
      BY <1>3, <2>4, <3>1 DEF Write
    <3>3. config' \in Configs /\ config' # None
      BY <3>1, <3>2, AppliedIs, CatalogueConstants
    <3>4. serial.config = config /\ serial.makers = makers
      BY DEF CatalogueInv, ListInv, EditsAreKept
    <3>5. /\ serial' \in [makers : MakerLists, config : Configs \union {None}]
          /\ EditsAreKept'
      BY <3>2, <3>3, <3>4, CatalogueFacts DEF ListTypes, EditsAreKept
    <3>6. ASSUME NEW q \in Requests \ {r}
          PROVE  EditIsSound(q, req[q])' /\ MoveIsSound(req[q])'
      <4>1. /\ req'[q] = req[q] /\ EditIsSound(q, req[q]) /\ MoveIsSound(req[q])
            /\ lease'["config"] # q /\ (lease'["makers"] = q => lease["makers"] = q)
        BY <2>1, <2>2, <2>4, CatalogueFacts DEF Leased
      <4>. QED
        BY <1>1, <3>2, <3>3, <4>1, OpsAreApart DEF EditIsSound, MoveIsSound, ListOf
    <3>. QED
      BY <1>0, <1>1, <2>1, <2>2, <2>3, <3>2, <3>3, <3>5, <3>6, CatalogueFacts, ListWritten
      DEF ListTypes
  <2>5. CASE b # "config"
    <3>1. /\ b = "makers" /\ req[r].op \in MakerOps /\ req[r].saw = makers
          /\ makers \in MakerLists
      BY <1>0, <2>1, <2>5, CatalogueFacts, OpsAreApart DEF BlobOf, EditIsSound, ListOf, ListTypes
    <3>2. /\ makers' = Apply(r, makers) /\ UNCHANGED config
          /\ serial' = [serial EXCEPT !.makers = Apply(r, @)]
      BY <1>3, <2>5, <3>1 DEF Write
    <3>3. makers' \in MakerLists
      BY <3>1, <3>2, AppliedIs
    <3>4. serial.config = config /\ serial.makers = makers
      BY DEF CatalogueInv, ListInv, EditsAreKept
    <3>5. /\ serial' \in [makers : MakerLists, config : Configs \union {None}]
          /\ EditsAreKept'
      BY <3>2, <3>3, <3>4, CatalogueFacts DEF ListTypes, EditsAreKept
    <3>6. ASSUME NEW q \in Requests \ {r}
          PROVE  EditIsSound(q, req[q])' /\ MoveIsSound(req[q])'
      <4>1. /\ req'[q] = req[q] /\ EditIsSound(q, req[q]) /\ MoveIsSound(req[q])
            /\ lease'["makers"] # q /\ (lease'["config"] = q => lease["config"] = q)
        BY <2>1, <2>2, <3>1, CatalogueFacts DEF Leased
      <4>2. req[q].op # "move"
        BY <3>1 DEF CatalogueInv, ListInv, MoveIsAlone
      <4>. QED
        BY <1>1, <3>2, <3>3, <4>1, <4>2, OpsAreApart DEF EditIsSound, MoveIsSound, ListOf
    <3>. QED
      BY <1>0, <1>1, <2>1, <2>2, <2>3, <3>2, <3>3, <3>5, <3>6, CatalogueFacts, ListWritten
      DEF ListTypes
  <2>. QED
    BY <2>4, <2>5
<1>. QED
  BY <1>2, <1>3

(* The script that moves the list of manufacturers.                        *)
LEMMA MoveKeeps ==
  ASSUME CatalogueInv, NEW r \in Requests,
         Look(r) \/ Copy(r) \/ Verify(r) \/ Remove(r)
  PROVE  CatalogueInv'
<1>0. /\ req[r] \in Request /\ req[r].op = "move" /\ req[r].op \notin SiteOps
      /\ MoveIsSound(req[r])
  BY CatalogueFacts, OpsAreApart DEF Look, Copy, Verify, Remove, At
<1>1. /\ UNCHANGED <<config, places, lease, torn>>
      /\ lease' \in [Leased -> Requests \union {None}]
  BY CatalogueFacts DEF Look, Copy, Verify, Remove, ghosts, lists
<1>2. ASSUME NEW at \in {"copy", "verify", "remove"}, req' = [req EXCEPT ![r].at = at],
             UNCHANGED <<lists, serial>>, carried => carried',
             at = "copy" => makers = Empty, at = "remove" => carried'
      PROVE  CatalogueInv'
  <2>. PICK next : next = [req[r] EXCEPT !.at = at]
    OBVIOUS
  <2>1. next \in Request /\ next.op = "move" /\ next.at = at /\ next.patch = req[r].patch
    BY <1>0 DEF Request
  <2>2. EditIsSound(r, next)' /\ MoveIsSound(next)'
    BY <1>0, <1>2, <2>1, OpsAreApart DEF EditIsSound, MoveIsSound, lists
  <2>3. req' = [req EXCEPT ![r] = next]
    BY <1>2
  <2>. QED
    BY <1>0, <1>1, <1>2, <2>1, <2>2, <2>3, EditMoves
<1>3. CASE Look(r)
  <2>1. UNCHANGED <<lists, serial, carried>>
    BY <1>3 DEF Look, ghosts
  <2>2. \/ req' = [req EXCEPT ![r].at = "copy"] /\ makers = Empty
        \/ req' = [req EXCEPT ![r].at = "verify"]
        \/ req' = [req EXCEPT ![r] = Idle]
    BY <1>3 DEF Look, Goto, Ends
  <2>. QED
    BY <1>0, <1>1, <1>2, <2>1, <2>2, EditEnds
<1>4. CASE Verify(r)
  <2>1. UNCHANGED <<lists, serial>> /\ (carried => carried')
    BY <1>4 DEF Verify
  <2>2. \/ req' = [req EXCEPT ![r].at = "remove"] /\ carried'
        \/ req' = [req EXCEPT ![r] = Idle]
    BY <1>4 DEF Verify, Goto, Ends
  <2>. QED
    BY <1>0, <1>1, <1>2, <2>1, <2>2, EditEnds
<1>5. CASE Copy(r)
  <2>1. /\ req[r].at = "copy" /\ makers' = req[r].patch
        /\ req' = [req EXCEPT ![r].at = "verify"]
        /\ serial' = [serial EXCEPT !.makers = IF @ = Empty THEN req[r].patch ELSE @]
        /\ UNCHANGED <<old, carried>>
    BY <1>5 DEF Copy, At, Goto
  <2>. PICK next : next = [req[r] EXCEPT !.at = "verify"]
    OBVIOUS
  <2>2. next \in Request /\ next.op = "move" /\ next.at = "verify" /\ next.patch = req[r].patch
    BY <1>0 DEF Request
  <2>3. makers = Empty /\ makers' \in MakerLists
    BY <1>0, <2>1 DEF MoveIsSound
  <2>4. serial.makers = makers /\ serial.config = config
    BY DEF CatalogueInv, ListInv, EditsAreKept
  <2>5. /\ serial' \in [makers : MakerLists, config : Configs \union {None}]
        /\ EditsAreKept'
    BY <1>1, <2>1, <2>3, <2>4, CatalogueFacts DEF ListTypes, EditsAreKept
  <2>6. EditIsSound(r, next)' /\ MoveIsSound(next)'
    BY <1>0, <2>2, OpsAreApart DEF EditIsSound, MoveIsSound
  <2>7. req' = [req EXCEPT ![r] = next]
    BY <2>1
  <2>8. ASSUME NEW q \in Requests \ {r}
        PROVE  EditIsSound(q, req[q])' /\ MoveIsSound(req[q])'
    <3>1. /\ req'[q] = req[q] /\ EditIsSound(q, req[q])
          /\ req[q].op \notin MakerOps \union {"move"}
      BY <1>0, <2>1, CatalogueFacts DEF CatalogueInv, ListInv, MoveIsAlone
    <3>. QED
      BY <1>1, <3>1 DEF EditIsSound, MoveIsSound, ListOf
  <2>9. config' \in Configs \union {None}
    BY <1>1, CatalogueFacts DEF ListTypes
  <2>. QED
    BY <1>0, <1>1, <2>1, <2>2, <2>3, <2>5, <2>6, <2>7, <2>8, <2>9, ListWritten
<1>6. CASE Remove(r)
  <2>1. /\ req[r].at = "remove" /\ old' = None
        /\ req' = [req EXCEPT ![r] = Idle]
        /\ UNCHANGED <<makers, serial, carried>>
    BY <1>6 DEF Remove, At, Ends, ghosts
  <2>2. carried
    BY <1>0, <2>1 DEF MoveIsSound
  <2>3. \A q \in Requests : req'[q] = IF q = r THEN Idle ELSE req[q]
    BY <2>1, CatalogueFacts
  <2>4. ListTypes'
    BY <1>1, <2>1, CatalogueFacts, CatalogueConstants DEF ListTypes
  <2>5. ASSUME NEW q \in Requests
        PROVE  (EditIsSound(q, req[q]) /\ MoveIsSound(req[q]))'
    <3>1. CASE q = r
      <4>. PICK idle : idle = Idle
        OBVIOUS
      <4>1. req'[q] = idle /\ idle.op = "none"
        BY <2>3, <3>1, CatalogueConstants
      <4>. QED
        BY <4>1, OpsAreApart DEF EditIsSound, MoveIsSound
    <3>2. CASE q # r
      BY <1>1, <2>1, <2>3, <3>2, CatalogueFacts DEF EditIsSound, MoveIsSound, ListOf
    <3>. QED
      BY <3>1, <3>2
  <2>6. MoveIsAlone'
    BY <2>3, CatalogueConstants, OpsAreApart DEF CatalogueInv, ListInv, MoveIsAlone
  <2>7. EditsAreKept' /\ MoveKeepsList'
    BY <1>1, <2>1, <2>2 DEF CatalogueInv, ListInv, EditsAreKept, MoveKeepsList
  <2>8. SitesInv'
    <3>1. Idle.op \notin SiteOps
      BY CatalogueConstants, OpsAreApart
    <3>. QED
      BY <1>0, <1>1, <2>3, <3>1, SitesUntouched DEF CatalogueInv, SitesInv
  <2>. QED
    BY <2>4, <2>5, <2>6, <2>7, <2>8 DEF CatalogueInv, ListInv
<1>. QED
  BY <1>3, <1>4, <1>5, <1>6

(* The lists are no business of a change of a site.                        *)
LEMMA SiteLeavesLists ==
  ASSUME CatalogueInv, NEW r \in Requests, NEW next \in Request,
         req' = [req EXCEPT ![r] = next], next.op \notin ListOps,
         UNCHANGED <<lists, serial, carried, lease>>
  PROVE  ListInv' /\ \A q \in Requests : req'[q] = IF q = r THEN next ELSE req[q]
<1>1. \A q \in Requests : req'[q] = IF q = r THEN next ELSE req[q]
  BY CatalogueFacts
<1>2. req' \in [Requests -> Request]
  BY CatalogueFacts
<1>. QED
  BY <1>1, <1>2, CatalogueFacts, ListsUntouched DEF CatalogueInv

(* A change of a site begins, is written to its document and to the index. *)
LEMMA SiteBegins ==
  ASSUME CatalogueInv, NEW r \in Requests, AskSite(r)
  PROVE  CatalogueInv'
<1>1. PICK s \in Sites, op \in SiteOps, v \in 0 .. 2 : Begins(r, New(op, "document", s, v))
  BY OpsAreApart DEF AskSite
<1>. PICK next : next = New(op, "document", s, v)
  OBVIOUS
<1>2. next \in Request /\ next.op = op /\ next.at = "document" /\ next.key = s /\ next.patch = v
  BY NewIs
<1>3. /\ req' = [req EXCEPT ![r] = next] /\ req[r].op = "none"
      /\ UNCHANGED <<lists, places, lease, serial, carried>>
      /\ torn' = (torn \/ \E q \in Requests : req[q].op \in SiteOps)
  BY <1>1, CatalogueConstants DEF Begins, AskSite
<1>4. ListInv' /\ \A q \in Requests : req'[q] = IF q = r THEN next ELSE req[q]
  BY <1>2, <1>3, SiteLeavesLists, OpsAreApart
<1>5. ~torn' => ~torn /\ index = sites /\ \A q \in Requests : req[q].op \notin SiteOps
  BY <1>3, CatalogueFacts DEF SitesInv, IndexShowsSites
<1>6. ASSUME NEW q \in Requests
      PROVE  SiteIsSound(req[q])'
  <2>1. CASE q = r
    BY <1>2, <1>3, <1>4, <1>5, <2>1 DEF SiteIsSound, places
  <2>2. CASE q # r
    BY <1>3, <1>4, <1>5, <2>2, CatalogueFacts DEF SiteIsSound, places
  <2>. QED
    BY <2>1, <2>2
<1>7. torn' \in BOOLEAN /\ sites' \in Places /\ index' \in Places
  BY <1>3, CatalogueFacts DEF SitesInv, places
<1>8. ~torn' => \A p, q \in Requests :
                  p # q /\ req'[p].op \in SiteOps => req'[q].op \notin SiteOps
  BY <1>4, <1>5
<1>9. IndexShowsSites'
  BY <1>3, <1>5 DEF IndexShowsSites, places
<1>. QED
  BY <1>4, <1>6, <1>7, <1>8, <1>9 DEF CatalogueInv, SitesInv

LEMMA SiteGoesOn ==
  ASSUME CatalogueInv, NEW r \in Requests, WriteSite(r) \/ ReadIndex(r) \/ WriteIndex(r)
  PROVE  CatalogueInv'
<1>0. /\ req[r] \in Request /\ req[r].op \in SiteOps /\ SiteIsSound(req[r])
      /\ req[r].op \notin ListOps
  BY CatalogueFacts, OpsAreApart DEF WriteSite, ReadIndex, WriteIndex, At
<1>. PICK s, v : s = req[r].key /\ v = req[r].patch
  OBVIOUS
<1>1. s \in Sites /\ v \in 0 .. 2
  BY <1>0 DEF SiteIsSound
<1>2. /\ UNCHANGED <<lists, serial, carried, lease>>
      /\ torn' \in BOOLEAN /\ (torn => torn')
  <2>1. UNCHANGED <<lists, serial, carried, lease>>
    BY DEF WriteSite, ReadIndex, WriteIndex, ghosts
  <2>2. torn' = torn \/ torn' = TRUE
    BY DEF WriteSite, ReadIndex, WriteIndex, ghosts
  <2>3. torn \in BOOLEAN
    BY CatalogueFacts DEF SitesInv
  <2>4. torn' \in BOOLEAN
    BY <2>2, <2>3
  <2>5. torn => torn'
    BY <2>2
  <2>. QED
    BY <2>1, <2>4, <2>5
<1>3. PICK next \in Request :
        /\ req' = [req EXCEPT ![r] = next]
        /\ next = Idle \/ (next.op = req[r].op /\ next.key = s /\ next.patch = v)
        /\ sites' \in Places /\ index' \in Places
        /\ next = Idle => torn' \/ index' = sites'
        /\ next # Idle =>
             /\ next.at \in {"index", "put"} /\ (next.at = "put" => next.saw \in Places)
             /\ ~torn' => /\ sites' = [index' EXCEPT ![s] = v]
                          /\ next.at = "put" => next.saw = index'
  <2>1. CASE WriteSite(r)
    <3>. DEFINE next == [req[r] EXCEPT !.at = "index"]
    <3>1. /\ next \in Request /\ next.op = req[r].op /\ next.at = "index"
          /\ next.key = s /\ next.patch = v
      BY <1>0 DEF Request
    <3>2. /\ req[r].at = "document" /\ req' = [req EXCEPT ![r] = next]
          /\ sites' = [sites EXCEPT ![s] = v] /\ UNCHANGED <<index, torn>>
      BY <2>1 DEF WriteSite, At, Goto, ghosts
    <3>3. sites' \in Places /\ index' \in Places
      BY <1>1, <3>2, CatalogueFacts DEF SitesInv, Places
    <3>4. ~torn' => sites' = [index' EXCEPT ![s] = v]
      BY <1>0, <3>2 DEF SiteIsSound
    <3>5. next # Idle
      BY <1>0, <3>1, CatalogueConstants, OpsAreApart
    <3>. HIDE DEF next
    <3>. QED
      BY <3>1, <3>2, <3>3, <3>4, <3>5
  <2>2. ASSUME NEW seen \in Places, ReadIndex(r),
               req' = [req EXCEPT ![r].at = "put", ![r].saw = seen],
               torn' \/ seen = index
        PROVE  \E next \in Request :
                 /\ req' = [req EXCEPT ![r] = next]
                 /\ next = Idle \/ (next.op = req[r].op /\ next.key = s /\ next.patch = v)
                 /\ sites' \in Places /\ index' \in Places
                 /\ next = Idle => torn' \/ index' = sites'
                 /\ next # Idle =>
                      /\ next.at \in {"index", "put"} /\ (next.at = "put" => next.saw \in Places)
                      /\ ~torn' => /\ sites' = [index' EXCEPT ![s] = v]
                                   /\ next.at = "put" => next.saw = index'
    <3>. DEFINE next == [req[r] EXCEPT !.at = "put", !.saw = seen]
    <3>1. /\ next \in Request /\ next.op = req[r].op /\ next.at = "put"
          /\ next.key = s /\ next.patch = v /\ next.saw = seen
      BY <1>0 DEF Request
    <3>2. /\ req[r].at = "index" /\ req' = [req EXCEPT ![r] = next]
          /\ UNCHANGED <<sites, index>>
      BY <2>2 DEF ReadIndex, At, places
    <3>3. sites' \in Places /\ index' \in Places
      BY <3>2, CatalogueFacts DEF SitesInv
    <3>4. ~torn' => sites' = [index' EXCEPT ![s] = v] /\ seen = index'
      BY <1>0, <1>2, <2>2, <3>2 DEF SiteIsSound
    <3>5. next # Idle
      BY <1>0, <3>1, CatalogueConstants, OpsAreApart
    <3>. HIDE DEF next
    <3>. QED
      BY <3>1, <3>2, <3>3, <3>4, <3>5
  <2>3. CASE ReadIndex(r)
    <3>1. [t \in Sites |-> 0] \in Places /\ index \in Places /\ sites \in Places
      BY CatalogueFacts DEF SitesInv, Places
    <3>2. CASE torn' /\ req' = [req EXCEPT ![r] = Idle]
      BY <2>3, <3>1, <3>2, CatalogueConstants DEF ReadIndex, places
    <3>. QED
      BY <2>2, <2>3, <3>1, <3>2 DEF ReadIndex, Ends
  <2>4. CASE WriteIndex(r)
    <3>1. /\ req[r].at = "put" /\ req' = [req EXCEPT ![r] = Idle]
          /\ index' = [req[r].saw EXCEPT ![s] = v] /\ UNCHANGED <<sites, torn>>
      BY <2>4 DEF WriteIndex, At, Ends, ghosts
    <3>2. req[r].saw \in Places /\ (~torn => req[r].saw = index /\ sites = [index EXCEPT ![s] = v])
      BY <1>0, <3>1 DEF SiteIsSound
    <3>3. sites' \in Places /\ index' \in Places
      BY <1>1, <3>1, <3>2, CatalogueFacts DEF SitesInv, Places
    <3>. QED
      BY <3>1, <3>2, <3>3, CatalogueFacts, CatalogueConstants DEF SitesInv
  <2>. QED
    BY <2>1, <2>3, <2>4
<1>4. next.op \notin ListOps /\ (next # Idle => next.op \in SiteOps)
      /\ (next = Idle => next.op \notin SiteOps)
  BY <1>0, <1>3, CatalogueConstants, OpsAreApart
<1>5. ListInv' /\ \A q \in Requests : req'[q] = IF q = r THEN next ELSE req[q]
  BY <1>2, <1>3, <1>4, SiteLeavesLists
<1>6. ~torn => \A q \in Requests : q # r => req[q].op \notin SiteOps
  BY <1>0, CatalogueFacts DEF SitesInv
<1>7. ASSUME NEW q \in Requests
      PROVE  SiteIsSound(req[q])'
  <2>1. CASE q = r
    BY <1>1, <1>3, <1>4, <1>5, <2>1 DEF SiteIsSound
  <2>2. CASE q # r
    BY <1>2, <1>5, <1>6, <2>2, CatalogueFacts DEF SiteIsSound
  <2>. QED
    BY <2>1, <2>2
<1>8. ~torn' => \A p, q \in Requests :
                  p # q /\ req'[p].op \in SiteOps => req'[q].op \notin SiteOps
  BY <1>2, <1>5, <1>6
<1>9. IndexShowsSites'
  BY <1>3, <1>4, <1>5 DEF IndexShowsSites
<1>. QED
  BY <1>2, <1>3, <1>5, <1>7, <1>8, <1>9 DEF CatalogueInv, SitesInv

(* A lease runs out, or the host stops.                                    *)
LEMMA FaultsKeep ==
  ASSUME CatalogueInv, LeaseLapses \/ \E r \in Requests : Crash(r)
  PROVE  CatalogueInv'
<1>1. CASE LeaseLapses
  <2>1. PICK b \in Leased : lease' = [lease EXCEPT ![b] = None]
    BY <1>1 DEF LeaseLapses
  <2>2. UNCHANGED <<lists, places, req, serial, carried, torn>>
    BY <1>1 DEF LeaseLapses, ghosts
  <2>3. /\ lease' \in [Leased -> Requests \union {None}]
        /\ \A q \in Requests, c \in Leased : lease'[c] = q => lease[c] = q
    BY <2>1, CatalogueFacts, CatalogueConstants
  <2>4. ListInv'
    BY <2>2, <2>3, CatalogueFacts, ListsUntouched DEF CatalogueInv
  <2>5. SitesInv'
    BY <2>2, CatalogueFacts, SitesUntouched DEF SitesInv
  <2>. QED
    BY <2>4, <2>5 DEF CatalogueInv
<1>2. ASSUME NEW r \in Requests, Crash(r)
      PROVE  CatalogueInv'
  <2>1. /\ req' = [req EXCEPT ![r] = Idle]
        /\ lease' = [b \in Leased |-> IF lease[b] = r THEN None ELSE lease[b]]
        /\ torn' = (torn \/ req[r].op \in SiteOps)
        /\ UNCHANGED <<lists, places, serial, carried>>
    BY <1>2 DEF Crash, Ends
  <2>2. /\ \A q \in Requests : req'[q] = IF q = r THEN Idle ELSE req[q]
        /\ req' \in [Requests -> Request] /\ Idle.op \notin ListOps \union SiteOps
    BY <2>1, CatalogueFacts, CatalogueConstants, OpsAreApart
  <2>3. /\ lease' \in [Leased -> Requests \union {None}]
        /\ \A q \in Requests, c \in Leased : lease'[c] = q => lease[c] = q
    BY <2>1, CatalogueFacts, CatalogueConstants
  <2>4. ListInv'
    BY <2>1, <2>2, <2>3, CatalogueFacts, ListsUntouched DEF CatalogueInv
  <2>5. torn' \in BOOLEAN /\ (torn => torn')
    BY <2>1, CatalogueFacts DEF SitesInv
  <2>6. \A q \in Requests : req[q].op \in SiteOps => req'[q] = req[q] \/ torn'
    BY <2>1, <2>2
  <2>7. SitesInv'
    BY <2>1, <2>2, <2>5, <2>6, CatalogueFacts, SitesUntouched
  <2>. QED
    BY <2>4, <2>7 DEF CatalogueInv
<1>. QED
  BY <1>1, <1>2

LEMMA CatalogueSteps == CatalogueInv /\ [Next]_vars => CatalogueInv'
<1>. SUFFICES ASSUME CatalogueInv, [Next]_vars
     PROVE  CatalogueInv'
  OBVIOUS
<1>1. CASE UNCHANGED vars
  <2>1. UNCHANGED <<lists, places, req, lease, serial, carried, torn>>
    BY <1>1 DEF vars, ghosts
  <2>2. ListInv'
    BY <2>1, CatalogueFacts, ListsUntouched DEF CatalogueInv
  <2>3. SitesInv'
    BY <2>1, CatalogueFacts, SitesUntouched DEF SitesInv
  <2>. QED
    BY <2>2, <2>3 DEF CatalogueInv
<1>2. CASE Next
  BY <1>1, <1>2, EditsBegin, SiteBegins, TakeLeaseKeeps, SeedKeeps, ReadKeeps, ListWriteKeeps,
     MoveKeeps, SiteGoesOn, FaultsKeep
  DEF Next
<1>. QED
  BY <1>1, <1>2

-----------------------------------------------------------------------------
(* The four invariants, whatever the behaviour is of.                      *)
ServicesInv == CatalogueInv /\ AccountInv /\ TabInv /\ PageInv

LEMMA ServicesSteps ==
  ServicesInv /\ [MCNext]_<<topic, vars, accountVars, tabVars, pageVars>> => ServicesInv'
<1>. SUFFICES ASSUME ServicesInv, [MCNext]_<<topic, vars, accountVars, tabVars, pageVars>>
     PROVE  ServicesInv'
  OBVIOUS
<1>1. [Next]_vars
  BY DEF MCNext
<1>2. [Account!Next]_Account!vars
  <2>1. UNCHANGED accountVars => UNCHANGED Account!vars
    BY DEF accountVars, Account!vars, Account!documents
  <2>. QED
    BY <2>1 DEF MCNext
<1>3. [Tab!Next]_Tab!vars
  <2>1. UNCHANGED tabVars => UNCHANGED Tab!vars
    BY DEF tabVars, Tab!vars, Tab!client
  <2>. QED
    BY <2>1 DEF MCNext
<1>4. [Page!Next]_Page!vars
  <2>1. UNCHANGED pageVars => UNCHANGED Page!vars
    BY DEF pageVars, Page!vars, Page!server, Page!detail, Page!dialog
  <2>. QED
    BY <2>1 DEF MCNext
<1>. QED
  BY <1>1, <1>2, <1>3, <1>4, CatalogueSteps, AccountSteps, TabSteps, PageSteps DEF ServicesInv

(* The inductive invariant of the lists, the credential, the tab and the   *)
(* page: every request has read what it is about to write, or is refused.  *)
THEOREM ServicesInvariance == MCSpec => []ServicesInv
<1>1. MCInit => ServicesInv
  BY CatalogueInitial, AccountInitial, TabInitial, PageInitial DEF MCInit, First, ServicesInv
<1>2. ServicesInv /\ [MCNext]_<<topic, vars, accountVars, tabVars, pageVars>> => ServicesInv'
  BY ServicesSteps
<1>. QED
  BY <1>1, <1>2, PTL DEF MCSpec

(* No reset is undone but by a newer one, enough failures lock the         *)
(* account, who is shown as signed in can renew, and no call waits for a   *)
(* renewal that nobody makes (resetPassword, recordLoginFailure,           *)
(* refreshAccessToken, AuthProvider).                                      *)
THEOREM SignInStaysSound == MCSpec => []SignInIsSound
<1>1. ServicesInv => SignInIsSound
  BY AccountIsSound, TabIsSound DEF ServicesInv, SignInIsSound
<1>. QED
  BY <1>1, ServicesInvariance, PTL

(* A page that shows groups being made has a timer or a poll, or says that *)
(* it gave up, and the dialog of a rescoring is not left without a button  *)
(* and without a request (RoundDetail, RescoreRoundButton).                *)
THEOREM PageStaysOnWatch == MCSpec => []PageKeepsWatch
<1>1. ServicesInv => PageKeepsWatch
  BY DEF ServicesInv, PageInv, PageKeepsWatch
<1>. QED
  BY <1>1, ServicesInvariance, PTL

(* No acknowledged change of a list is lost, the private list goes only    *)
(* after it was public, and the index of sites that were changed one at a  *)
(* time shows them (upsertManufacturerInIndex, runConfigRmw,               *)
(* moveManufacturersToPublic, upsertSiteInIndex).                          *)
THEOREM CataloguesStayKept == MCSpec => []CataloguesKeepEdits
<1>1. ServicesInv => CataloguesKeepEdits
  BY DEF ServicesInv, CatalogueInv, ListInv, SitesInv, CataloguesKeepEdits
<1>. QED
  BY <1>1, ServicesInvariance, PTL

-----------------------------------------------------------------------------
(* The wording.                                                            *)

Publishing == {"create", "supersede", "etag", "advance"}

AdminSteps == [at : {"idle", "first", "point", "lease"} \union Publishing,
               text : Nat, tries : Nat, was : Nat, copy : Nat, etag : Nat]

WordingTypes ==
  /\ pointer \in Nat /\ adds \in Nat /\ edition \in Nat
  /\ \E k \in {pointer, pointer + 1} : version \in [1 .. k -> [text : Nat, next : Nat]]
  /\ admin \in [Admins -> AdminSteps]
  /\ signer \in [Signers -> [at : {"idle", "version", "signed"}, version : Nat, text : Nat]]

Chained ==
  \A n \in Wording!Versions :
    /\ version[n].next # 0 => version[n].next = n + 1 /\ n + 1 \in Wording!Versions
    /\ n < pointer => version[n].next = n + 1

(* What a publication knows: of what it has read of the pointer, that      *)
(* while it holds the lease nobody else moves it.                          *)
Publishes(a) ==
  /\ admin[a].at = "point" => 1 \in Wording!Versions
  /\ admin[a].at = "lease" => pointer # 0
  /\ admin[a].at \in Publishing =>
       admin[a].was # 0 /\ admin[a].was <= pointer /\ (publisher = a => admin[a].was = pointer)
  /\ admin[a].at \in Publishing \ {"create"} => admin[a].was + 1 \in Wording!Versions
  /\ admin[a].at = "supersede" => admin[a].copy = version[admin[a].was].text
  /\ admin[a].at \in {"etag", "advance"} => version[admin[a].was].next = admin[a].was + 1

Signs(s) ==
  /\ signer[s].at # "idle" => signer[s].version # 0 /\ signer[s].version <= pointer
  /\ signer[s].at = "signed" => version[signer[s].version].text = signer[s].text

WordingInv ==
  /\ WordingTypes /\ Chained
  /\ \A a \in Admins : Publishes(a)
  /\ \A s \in Signers : Signs(s)

(* The versions are those up to the one in force, and perhaps the next.    *)
LEMMA VersionsAre ==
  ASSUME WordingTypes
  PROVE  /\ 1 .. pointer \subseteq Wording!Versions /\ Wording!Versions \subseteq 1 .. pointer + 1
         /\ Wording!Versions \subseteq Nat \ {0}
         /\ \A n \in Wording!Versions : version[n].text \in Nat /\ version[n].next \in Nat
<1>1. PICK k \in {pointer, pointer + 1} : version \in [1 .. k -> [text : Nat, next : Nat]]
  BY DEF WordingTypes
<1>2. pointer \in Nat
  BY DEF WordingTypes
<1>3. Wording!Versions = 1 .. k
  BY <1>1 DEF Wording!Versions
<1>. QED
  BY <1>1, <1>2, <1>3

LEMMA WordingOrdered == ASSUME WordingInv PROVE Wording!WordingIsKept
<1>1. pointer \in Nat
  BY DEF WordingInv, WordingTypes
<1>2. Wording!VersionsInOrder
  BY <1>1, VersionsAre DEF WordingInv, Chained, Wording!VersionsInOrder
<1>3. Wording!SignaturesVerify
  BY DEF WordingInv, Signs, Wording!SignaturesVerify
<1>. QED
  BY <1>2, <1>3 DEF Wording!WordingIsKept

(* Versions come and are never rewritten but to name the next.             *)
Later ==
  /\ pointer' \in Nat /\ pointer <= pointer'
  /\ Wording!Versions \subseteq Wording!Versions'
  /\ \A n \in Wording!Versions : /\ version'[n].text = version[n].text
                                 /\ version[n].next = n + 1 => version'[n].next = n + 1

LEMMA OthersPublish ==
  ASSUME WordingInv, Later, NEW b \in Admins, admin'[b] = admin[b],
         publisher' = b => publisher = b /\ pointer' = pointer
  PROVE  Publishes(b)'
<1>1. pointer \in Nat /\ admin[b] \in AdminSteps /\ Publishes(b)
  BY DEF WordingInv, WordingTypes
<1>2. admin[b].was \in Nat
  BY <1>1 DEF AdminSteps
<1>3. admin[b].at \in Publishing => admin[b].was \in Wording!Versions
  BY <1>1, <1>2, VersionsAre DEF Publishes, WordingInv
<1>. QED
  BY <1>1, <1>2, <1>3 DEF Publishes, Later, Publishing

LEMMA SignedStays ==
  ASSUME WordingInv, Later, NEW s \in Signers, signer'[s] = signer[s]
  PROVE  Signs(s)'
<1>1. pointer \in Nat /\ Signs(s) /\ signer[s].version \in Nat
  BY DEF WordingInv, WordingTypes
<1>2. signer[s].at # "idle" => signer[s].version \in Wording!Versions
  BY <1>1, VersionsAre DEF Signs, WordingInv
<1>. QED
  BY <1>1, <1>2 DEF Signs, Later

(* A step of one publication that leaves the blobs alone.                  *)
LEMMA OneSteps ==
  ASSUME WordingInv, UNCHANGED <<version, pointer, signer>>, edition' \in Nat, adds' \in Nat,
         NEW a \in Admins, NEW next \in AdminSteps, admin' = [admin EXCEPT ![a] = next],
         Publishes(a)', publisher' \in {publisher, a, None}
  PROVE  WordingInv'
<1>1. Later /\ WordingTypes'
  BY DEF WordingInv, WordingTypes, Later, Wording!Versions
<1>2. Chained'
  BY DEF WordingInv, Chained, Wording!Versions
<1>3. ASSUME NEW b \in Admins PROVE Publishes(b)'
  <2>1. CASE b # a
    <3>1. admin'[b] = admin[b]
      BY <2>1 DEF WordingInv, WordingTypes
    <3>2. publisher' = b => publisher = b /\ pointer' = pointer
      BY <2>1, ReferenceAssumption
    <3>. QED
      BY <1>1, <3>1, <3>2, OthersPublish
  <2>. QED
    BY <2>1
<1>4. \A s \in Signers : Signs(s)'
  BY <1>1, SignedStays
<1>. QED
  BY <1>1, <1>2, <1>3, <1>4 DEF WordingInv

(* One that ends, or that tries again for the lease.                       *)
LEMMA IdleStep == Wording!IdleAdmin \in AdminSteps /\ Wording!IdleAdmin.at = "idle"
  BY DEF Wording!IdleAdmin, AdminSteps

LEMMA AdminStep ==
  ASSUME WordingInv, NEW a \in Admins
  PROVE  /\ admin[a] \in AdminSteps /\ Publishes(a) /\ pointer \in Nat
         /\ admin[a].at \in {"idle", "first", "point", "lease"} \union Publishing
         /\ admin[a].text \in Nat /\ admin[a].tries \in Nat /\ admin[a].was \in Nat
         /\ admin[a].copy \in Nat /\ admin[a].etag \in Nat
<1>1. admin[a] \in AdminSteps /\ Publishes(a) /\ pointer \in Nat
  BY DEF WordingInv, WordingTypes
<1>. QED
  BY <1>1 DEF AdminSteps

LEMMA Answered ==
  ASSUME WordingInv, NEW a \in Admins, Wording!Answer(a), UNCHANGED <<version, pointer, edition, signer, adds>>
  PROVE  WordingInv'
<1>1. admin' = [admin EXCEPT ![a] = Wording!IdleAdmin] /\ publisher' \in {publisher, a, None}
  BY DEF Wording!Answer
<1>2. admin'[a] = Wording!IdleAdmin
  BY <1>1 DEF WordingInv, WordingTypes
<1>3. Publishes(a)'
  BY <1>2, IdleStep DEF Publishes, Publishing
<1>4. edition' \in Nat /\ adds' \in Nat
  BY DEF WordingInv, WordingTypes
<1>. QED
  BY <1>1, <1>3, <1>4, IdleStep, OneSteps

LEMMA TriedAgain ==
  ASSUME WordingInv, NEW a \in Admins, Wording!Again(a), pointer # 0,
         UNCHANGED <<version, pointer, edition, signer, adds>>
  PROVE  WordingInv'
<1>1. CASE Wording!Answer(a)
  BY <1>1, Answered
<1>2. CASE ~Wording!Answer(a)
  <2>. DEFINE next == [admin[a] EXCEPT !.at = "lease", !.tries = @ + 1]
  <2>1. next \in AdminSteps /\ next.at = "lease"
    <3>1. admin[a].tries + 1 \in Nat
      BY AdminStep
    <3>. QED
      BY <3>1, AdminStep DEF AdminSteps
  <2>2. admin' = [admin EXCEPT ![a] = next] /\ publisher' \in {publisher, a, None}
    BY <1>2 DEF Wording!Again
  <2>. HIDE DEF next
  <2>3. admin'[a] = next
    BY <2>2 DEF WordingInv, WordingTypes
  <2>4. Publishes(a)'
    BY <2>1, <2>3 DEF Publishes, Publishing
  <2>5. edition' \in Nat /\ adds' \in Nat
    BY DEF WordingInv, WordingTypes
  <2>. QED
    BY <2>1, <2>2, <2>4, <2>5, OneSteps
<1>. QED
  BY <1>1, <1>2

(* A step of one publication to another place, which leaves the rest.      *)
LEMMA AddSteps ==
  ASSUME WordingInv, NEW a \in Admins, Wording!Add(a)
  PROVE  WordingInv'
<1>. DEFINE to == IF pointer = 0 THEN "first" ELSE "lease"
            next == [admin[a] EXCEPT !.text = adds + 1, !.at = to]
<1>1. adds + 1 \in Nat /\ adds' = adds + 1 /\ edition' = edition /\ edition \in Nat
  BY DEF WordingInv, WordingTypes, Wording!Add, Wording!blobs
<1>2. next \in AdminSteps /\ next.at = to
  BY <1>1, AdminStep DEF AdminSteps
<1>3. admin' = [admin EXCEPT ![a] = next] /\ publisher' = publisher
      /\ UNCHANGED <<version, pointer, signer>>
  BY DEF Wording!Add, Wording!blobs
<1>. HIDE DEF next
<1>4. admin'[a] = next
  BY <1>3 DEF WordingInv, WordingTypes
<1>5. Publishes(a)'
  BY <1>2, <1>3, <1>4 DEF Publishes, Publishing
<1>. QED
  BY <1>1, <1>2, <1>3, <1>5, OneSteps

LEMMA TakeLeaseSteps ==
  ASSUME WordingInv, NEW a \in Admins, Wording!TakeLease(a)
  PROVE  WordingInv'
<1>0. admin[a].at = "lease" /\ UNCHANGED <<version, pointer, edition, signer, adds>>
  BY DEF Wording!TakeLease, Wording!blobs
<1>1. pointer # 0 /\ pointer \in Nat
  BY <1>0, AdminStep DEF Publishes
<1>2. CASE Wording!Again(a)
  BY <1>0, <1>1, <1>2, TriedAgain
<1>3. CASE publisher' = a /\ admin' = [admin EXCEPT ![a].was = pointer, ![a].at = "create"]
  <2>. DEFINE next == [admin[a] EXCEPT !.was = pointer, !.at = "create"]
  <2>1. next \in AdminSteps /\ next.at = "create" /\ next.was = pointer
    BY <1>1, AdminStep DEF AdminSteps, Publishing
  <2>2. admin' = [admin EXCEPT ![a] = next]
    BY <1>3
  <2>. HIDE DEF next
  <2>3. admin'[a] = next
    BY <2>2 DEF WordingInv, WordingTypes
  <2>4. Publishes(a)'
    BY <1>0, <1>1, <2>1, <2>3 DEF Publishes, Publishing
  <2>5. edition' \in Nat /\ adds' \in Nat
    BY <1>0 DEF WordingInv, WordingTypes
  <2>. QED
    BY <1>0, <1>3, <2>1, <2>2, <2>4, <2>5, OneSteps
<1>. QED
  BY <1>2, <1>3 DEF Wording!TakeLease

LEMMA ReadEtagSteps ==
  ASSUME WordingInv, NEW a \in Admins, Wording!ReadEtag(a)
  PROVE  WordingInv'
<1>. DEFINE next == [admin[a] EXCEPT !.etag = edition, !.at = "advance"]
<1>1. admin[a].at = "etag" /\ edition' \in Nat /\ adds' \in Nat
      /\ UNCHANGED <<version, pointer, signer, publisher>>
  BY DEF Wording!ReadEtag, WordingInv, WordingTypes, Wording!blobs
<1>2. edition \in Nat
  BY DEF WordingInv, WordingTypes
<1>3. next \in AdminSteps /\ next.at = "advance" /\ next.was = admin[a].was
  BY <1>2, AdminStep DEF AdminSteps, Publishing
<1>4. admin' = [admin EXCEPT ![a] = next]
  BY DEF Wording!ReadEtag
<1>. HIDE DEF next
<1>5. admin'[a] = next
  BY <1>4 DEF WordingInv, WordingTypes
<1>6. Publishes(a)'
  BY <1>1, <1>3, <1>5, AdminStep DEF Publishes, Publishing, Wording!Versions
<1>. QED
  BY <1>1, <1>3, <1>4, <1>6, OneSteps

(* A version that is created is the one after the last.                    *)
LEMMA NewVersion ==
  ASSUME WordingInv, NEW n \in Nat \ {0}, n \notin Wording!Versions, n <= pointer + 1,
         NEW text \in Nat, Wording!Create(n, text), UNCHANGED <<pointer, signer, edition, adds>>
  PROVE  /\ n = pointer + 1 /\ n \in Wording!Versions' /\ Later /\ Chained'
         /\ version' \in [1 .. n -> [text : Nat, next : Nat]]
         /\ \A m \in Wording!Versions : version'[m] = version[m]
<1>1. PICK k \in {pointer, pointer + 1} : version \in [1 .. k -> [text : Nat, next : Nat]]
  BY DEF WordingInv, WordingTypes
<1>2. pointer \in Nat
  BY DEF WordingInv, WordingTypes
<1>3. Wording!Versions = 1 .. k
  BY <1>1 DEF Wording!Versions
<1>4. n = pointer + 1 /\ k = pointer
  BY <1>2, <1>3
<1>5. Wording!Versions \union {n} = 1 .. n
  BY <1>2, <1>3, <1>4
<1>6. version' = [m \in 1 .. n |-> IF m = n THEN [text |-> text, next |-> 0] ELSE version[m]]
  BY <1>5 DEF Wording!Create
<1>7. /\ Wording!Versions' = 1 .. n /\ \A m \in Wording!Versions : version'[m] = version[m]
      /\ version'[n] = [text |-> text, next |-> 0]
  BY <1>2, <1>3, <1>4, <1>6 DEF Wording!Versions
<1>8. version' \in [1 .. n -> [text : Nat, next : Nat]]
  <2>1. \A m \in 1 .. n : m = n \/ m \in 1 .. k
    BY <1>2, <1>4
  <2>2. [text |-> text, next |-> 0] \in [text : Nat, next : Nat]
    OBVIOUS
  <2>. QED
    BY <1>1, <1>6, <2>1, <2>2
<1>9. Later
  BY <1>2, <1>3, <1>4, <1>7 DEF Later
<1>10. Chained'
  <2>. SUFFICES ASSUME NEW m \in 1 .. n
                PROVE  /\ version'[m].next # 0 => version'[m].next = m + 1 /\ m + 1 \in 1 .. n
                       /\ m < pointer => version'[m].next = m + 1
    BY <1>7 DEF Chained
  <2>1. CASE m = n
    BY <1>2, <1>4, <1>7, <2>1
  <2>2. CASE m # n
    <3>1. m \in Wording!Versions /\ version'[m] = version[m]
      BY <1>2, <1>3, <1>4, <1>7, <2>2
    <3>2. m + 1 \in Wording!Versions => m + 1 \in 1 .. n
      BY <1>2, <1>3, <1>4
    <3>. QED
      BY <3>1, <3>2 DEF WordingInv, Chained
  <2>. QED
    BY <2>1, <2>2
<1>. QED
  BY <1>4, <1>7, <1>8, <1>9, <1>10

(* A step that writes a version or moves the pointer.                      *)
LEMMA OneWrites ==
  ASSUME WordingInv, Later, Chained',
         \E k \in {pointer', pointer' + 1} : version' \in [1 .. k -> [text : Nat, next : Nat]],
         edition' \in Nat, UNCHANGED <<signer, adds>>,
         NEW a \in Admins, NEW next \in AdminSteps, admin' = [admin EXCEPT ![a] = next],
         Publishes(a)', publisher' \in {publisher, a, None},
         pointer' = pointer \/ publisher = a \/ pointer = 0
  PROVE  WordingInv'
<1>1. WordingTypes'
  BY DEF WordingInv, WordingTypes, Later
<1>2. ASSUME NEW b \in Admins PROVE Publishes(b)'
  <2>1. CASE b # a
    <3>1. admin'[b] = admin[b]
      BY <2>1 DEF WordingInv, WordingTypes
    <3>2. publisher' = b => publisher = b
      BY <2>1, ReferenceAssumption
    <3>3. CASE pointer = 0
      <4>1. admin[b].at \notin Publishing /\ admin[b].at # "lease"
        BY <3>3, AdminStep DEF Publishes
      <4>2. admin[b].at = "point" => 1 \in Wording!Versions'
        BY AdminStep DEF Publishes, Later
      <4>. QED
        BY <3>1, <4>1, <4>2 DEF Publishes, Publishing
    <3>4. CASE pointer' = pointer
      BY <3>1, <3>2, <3>4, OthersPublish
    <3>5. CASE publisher = a
      BY <2>1, <3>1, <3>2, <3>5, OthersPublish
    <3>. QED
      BY <3>3, <3>4, <3>5
  <2>. QED
    BY <2>1
<1>3. \A s \in Signers : Signs(s)'
  BY SignedStays
<1>. QED
  BY <1>1, <1>2, <1>3 DEF WordingInv

LEMMA FirstSteps ==
  ASSUME WordingInv, NEW a \in Admins, Wording!First(a)
  PROVE  WordingInv'
<1>. DEFINE was == IF 1 \in Wording!Versions THEN 1 ELSE 0
            next == [admin[a] EXCEPT !.at = "point", !.was = was]
<1>1. UNCHANGED <<pointer, edition, publisher, signer, adds>> /\ Wording!Create(1, admin[a].text)
      /\ pointer \in Nat /\ edition' \in Nat /\ admin[a].text \in Nat
  BY AdminStep DEF Wording!First, WordingInv, WordingTypes
<1>2. next \in AdminSteps /\ next.at = "point"
  BY AdminStep DEF AdminSteps
<1>3. admin' = [admin EXCEPT ![a] = next]
  BY DEF Wording!First
<1>. HIDE DEF next
<1>4. admin'[a] = next
  BY <1>3 DEF WordingInv, WordingTypes
<1>5. CASE 1 \in Wording!Versions
  <2>1. UNCHANGED version
    BY <1>1, <1>5 DEF Wording!Create
  <2>2. Publishes(a)'
    BY <1>2, <1>4, <1>5, <2>1 DEF Publishes, Publishing, Wording!Versions
  <2>. QED
    BY <1>1, <1>2, <1>3, <2>1, <2>2, OneSteps DEF WordingInv, WordingTypes
<1>6. CASE 1 \notin Wording!Versions
  <2>1. /\ 1 = pointer + 1 /\ 1 \in Wording!Versions' /\ Later /\ Chained'
        /\ version' \in [1 .. 1 -> [text : Nat, next : Nat]]
    <3>1. 1 \in Nat \ {0} /\ 1 <= pointer + 1
      BY <1>1
    <3>. QED
      BY <1>1, <1>6, <3>1, NewVersion
  <2>2. Publishes(a)'
    BY <1>2, <1>4, <2>1 DEF Publishes, Publishing
  <2>3. \E k \in {pointer', pointer' + 1} : version' \in [1 .. k -> [text : Nat, next : Nat]]
    BY <1>1, <2>1
  <2>. QED
    BY <1>1, <1>2, <1>3, <2>1, <2>2, <2>3, OneWrites
<1>. QED
  BY <1>5, <1>6

(* The pointer moves to a version that is there.                           *)
LEMMA PointerMoves ==
  ASSUME WordingInv, pointer + 1 \in Wording!Versions, pointer' = pointer + 1, UNCHANGED version,
         pointer # 0 => version[pointer].next = pointer + 1
  PROVE  /\ Later /\ Chained'
         /\ \E k \in {pointer', pointer' + 1} : version' \in [1 .. k -> [text : Nat, next : Nat]]
<1>1. pointer \in Nat
  BY DEF WordingInv, WordingTypes
<1>2. PICK k \in {pointer, pointer + 1} : version \in [1 .. k -> [text : Nat, next : Nat]]
  BY DEF WordingInv, WordingTypes
<1>3. Wording!Versions = 1 .. k /\ k = pointer + 1
  BY <1>1, <1>2 DEF Wording!Versions
<1>4. Later
  BY <1>1 DEF Later, Wording!Versions
<1>5. Chained'
  <2>. SUFFICES ASSUME NEW n \in Wording!Versions
                PROVE  /\ version[n].next # 0 => version[n].next = n + 1 /\ n + 1 \in Wording!Versions
                       /\ n < pointer + 1 => version[n].next = n + 1
    BY DEF Chained, Wording!Versions
  <2>1. n < pointer + 1 => n < pointer \/ n = pointer
    BY <1>1, <1>3
  <2>. QED
    BY <1>1, <1>3, <2>1 DEF WordingInv, Chained
<1>. QED
  BY <1>2, <1>3, <1>4, <1>5

LEMMA PointSteps ==
  ASSUME WordingInv, NEW a \in Admins, Wording!Point(a)
  PROVE  WordingInv'
<1>0. admin[a].at = "point" /\ UNCHANGED <<version, publisher, signer, adds>>
      /\ 1 \in Wording!Versions /\ pointer \in Nat /\ edition \in Nat
  BY AdminStep DEF Wording!Point, Publishes, WordingInv, WordingTypes
<1>. DEFINE next == IF admin[a].was = 0 THEN Wording!IdleAdmin ELSE [admin[a] EXCEPT !.at = "lease"]
<1>1. next \in AdminSteps /\ next.at \in {"idle", "lease"}
  BY AdminStep, IdleStep DEF AdminSteps
<1>2. admin' = [admin EXCEPT ![a] = next]
  BY DEF Wording!Point, Wording!Goto
<1>. HIDE DEF next
<1>3. admin'[a] = next
  BY <1>2 DEF WordingInv, WordingTypes
<1>4. CASE pointer = 0
  <2>1. pointer' = pointer + 1 /\ edition' \in Nat
    BY <1>0, <1>4 DEF Wording!Point
  <2>2. /\ Later /\ Chained'
        /\ \E k \in {pointer', pointer' + 1} : version' \in [1 .. k -> [text : Nat, next : Nat]]
    BY <1>0, <1>4, <2>1, PointerMoves
  <2>3. Publishes(a)'
    BY <1>1, <1>3, <1>4, <2>1 DEF Publishes, Publishing
  <2>. QED
    BY <1>0, <1>1, <1>2, <1>4, <2>1, <2>2, <2>3, OneWrites
<1>5. CASE pointer # 0
  <2>1. UNCHANGED <<pointer, edition>>
    BY <1>5 DEF Wording!Point
  <2>2. Publishes(a)'
    BY <1>1, <1>3, <1>5, <2>1 DEF Publishes, Publishing
  <2>. QED
    BY <1>0, <1>1, <1>2, <2>1, <2>2, OneSteps DEF WordingInv, WordingTypes
<1>. QED
  BY <1>4, <1>5

LEMMA CreateNextSteps ==
  ASSUME WordingInv, NEW a \in Admins, Wording!CreateNext(a)
  PROVE  WordingInv'
<1>. DEFINE was == admin[a].was
<1>0. /\ admin[a].at = "create" /\ UNCHANGED <<pointer, edition, signer, adds>>
      /\ Wording!Create(was + 1, admin[a].text) /\ admin[a].text \in Nat
      /\ pointer \in Nat /\ edition \in Nat /\ was \in Nat
  BY AdminStep DEF Wording!CreateNext, WordingInv, WordingTypes
<1>1. was # 0 /\ was <= pointer
  BY <1>0, AdminStep DEF Publishes, Publishing
<1>2. CASE was + 1 \in Wording!Versions
  BY <1>0, <1>1, <1>2, TriedAgain DEF Wording!CreateNext, Wording!Create
<1>3. CASE was + 1 \notin Wording!Versions
  <2>1. /\ was + 1 = pointer + 1 /\ was + 1 \in Wording!Versions' /\ Later /\ Chained'
        /\ version' \in [1 .. was + 1 -> [text : Nat, next : Nat]]
        /\ \A m \in Wording!Versions : version'[m] = version[m]
    BY <1>0, <1>1, <1>3, NewVersion
  <2>2. was = pointer /\ was \in Wording!Versions
    BY <1>0, <1>1, <2>1, VersionsAre DEF WordingInv
  <2>. DEFINE next == [admin[a] EXCEPT !.at = "supersede", !.copy = version[was].text]
  <2>3. next \in AdminSteps /\ next.at = "supersede" /\ next.copy = version[was].text
        /\ next.was = was
    <3>1. version[was].text \in Nat
      BY <2>2, VersionsAre DEF WordingInv
    <3>. QED
      BY <3>1, AdminStep DEF AdminSteps, Publishing
  <2>4. admin' = [admin EXCEPT ![a] = next] /\ publisher' = publisher
    BY <1>3 DEF Wording!CreateNext
  <2>. HIDE DEF next
  <2>5. admin'[a] = next
    BY <2>4 DEF WordingInv, WordingTypes
  <2>6. Publishes(a)'
    <3>1. version'[was].text = next.copy /\ was + 1 \in Wording!Versions' /\ was = pointer'
      BY <1>0, <2>1, <2>2, <2>3
    <3>2. pointer' \in Nat /\ was <= pointer'
      BY <1>0, <2>2
    <3>. QED
      BY <1>1, <2>3, <2>5, <3>1, <3>2 DEF Publishes, Publishing
  <2>7. \E k \in {pointer', pointer' + 1} : version' \in [1 .. k -> [text : Nat, next : Nat]]
    BY <1>0, <2>1
  <2>. QED
    BY <1>0, <2>1, <2>3, <2>4, <2>6, <2>7, OneWrites
<1>. QED
  BY <1>2, <1>3

LEMMA SupersedeSteps ==
  ASSUME WordingInv, NEW a \in Admins, Wording!Supersede(a)
  PROVE  WordingInv'
<1>. DEFINE was == admin[a].was
<1>0. /\ admin[a].at = "supersede" /\ UNCHANGED <<pointer, edition, publisher, signer, adds>>
      /\ version' = [version EXCEPT ![was] = [text |-> admin[a].copy, next |-> was + 1]]
      /\ pointer \in Nat /\ edition \in Nat /\ was \in Nat /\ admin[a].copy \in Nat
  BY AdminStep DEF Wording!Supersede, WordingInv, WordingTypes
<1>1. /\ was # 0 /\ was <= pointer /\ (publisher = a => was = pointer)
      /\ was + 1 \in Wording!Versions /\ admin[a].copy = version[was].text
  BY <1>0, AdminStep DEF Publishes, Publishing
<1>2. was \in Wording!Versions
  BY <1>0, <1>1, VersionsAre DEF WordingInv
<1>3. PICK k \in {pointer, pointer + 1} : version \in [1 .. k -> [text : Nat, next : Nat]]
  BY DEF WordingInv, WordingTypes
<1>4. version' \in [1 .. k -> [text : Nat, next : Nat]] /\ Wording!Versions' = Wording!Versions
  <2>1. was + 1 \in Nat /\ was \in 1 .. k
    BY <1>0, <1>2, <1>3 DEF Wording!Versions
  <2>. QED
    BY <1>0, <1>3, <2>1 DEF Wording!Versions
<1>5. \A n \in Wording!Versions : version'[n].text = version[n].text
        /\ version'[n].next = IF n = was THEN n + 1 ELSE version[n].next
  BY <1>0, <1>1, <1>3 DEF Wording!Versions
<1>6. Later
  BY <1>0, <1>4, <1>5 DEF Later
<1>7. Chained'
  <2>. SUFFICES ASSUME NEW n \in Wording!Versions
                PROVE  /\ version'[n].next # 0 => version'[n].next = n + 1 /\ n + 1 \in Wording!Versions
                       /\ n < pointer => version'[n].next = n + 1
    BY <1>0, <1>4 DEF Chained
  <2>. QED
    BY <1>1, <1>5 DEF WordingInv, Chained
<1>. DEFINE next == [admin[a] EXCEPT !.at = "etag"]
<1>8. next \in AdminSteps /\ next.at = "etag" /\ next.was = was
  BY AdminStep DEF AdminSteps, Publishing
<1>9. admin' = [admin EXCEPT ![a] = next]
  BY DEF Wording!Supersede, Wording!Goto
<1>. HIDE DEF next
<1>10. admin'[a] = next
  BY <1>9 DEF WordingInv, WordingTypes
<1>11. Publishes(a)'
  <2>1. version'[was].next = was + 1
    BY <1>2, <1>5
  <2>. QED
    BY <1>0, <1>1, <1>4, <1>8, <1>10, <2>1 DEF Publishes, Publishing
<1>12. \E j \in {pointer', pointer' + 1} : version' \in [1 .. j -> [text : Nat, next : Nat]]
  BY <1>0, <1>4
<1>. QED
  BY <1>0, <1>6, <1>7, <1>8, <1>9, <1>11, <1>12, OneWrites

LEMMA AdvanceSteps ==
  ASSUME WordingInv, NEW a \in Admins, Wording!Advance(a)
  PROVE  WordingInv'
<1>0. admin[a].at = "advance" /\ UNCHANGED <<version, signer, adds>> /\ Wording!Answer(a)
      /\ pointer \in Nat /\ edition \in Nat
  BY DEF Wording!Advance, WordingInv, WordingTypes
<1>1. CASE UNCHANGED <<pointer, edition>>
  BY <1>0, <1>1, Answered
<1>2. CASE publisher = a /\ pointer' = admin[a].was + 1 /\ edition' = edition + 1
  <2>1. /\ pointer # 0 /\ pointer + 1 \in Wording!Versions /\ pointer' = pointer + 1
        /\ version[pointer].next = pointer + 1
    BY <1>0, <1>2, AdminStep DEF Publishes, Publishing
  <2>2. /\ Later /\ Chained'
        /\ \E k \in {pointer', pointer' + 1} : version' \in [1 .. k -> [text : Nat, next : Nat]]
    BY <1>0, <2>1, PointerMoves
  <2>3. admin' = [admin EXCEPT ![a] = Wording!IdleAdmin] /\ publisher' \in {publisher, a, None}
    BY <1>0 DEF Wording!Answer
  <2>4. admin'[a] = Wording!IdleAdmin
    BY <2>3 DEF WordingInv, WordingTypes
  <2>5. Publishes(a)'
    BY <2>4, IdleStep DEF Publishes, Publishing
  <2>6. edition' \in Nat
    BY <1>0, <1>2
  <2>. QED
    BY <1>0, <1>2, <2>2, <2>3, <2>5, <2>6, IdleStep, OneWrites
<1>. QED
  BY <1>1, <1>2 DEF Wording!Advance

(* Pilots sign what is in force as they read the pointer.                  *)
LEMMA SignerSteps ==
  ASSUME WordingInv, NEW s \in Signers, Wording!ReadPointer(s) \/ Wording!ReadVersion(s)
  PROVE  WordingInv'
<1>0. UNCHANGED <<version, pointer, edition, publisher, admin, adds>>
      /\ pointer \in Nat /\ signer[s].version \in Nat /\ signer[s].text \in Nat
      /\ signer \in [Signers -> [at : {"idle", "version", "signed"}, version : Nat, text : Nat]]
  BY DEF Wording!ReadPointer, Wording!ReadVersion, Wording!blobs, WordingInv, WordingTypes
<1>1. Later /\ Chained'
  BY <1>0 DEF Later, WordingInv, Chained, Wording!Versions
<1>2. \A a \in Admins : Publishes(a)'
  BY <1>0, <1>1, OthersPublish
<1>3. PICK next \in [at : {"version", "signed"}, version : Nat, text : Nat] :
        /\ signer' = [signer EXCEPT ![s] = next] /\ next.version # 0 /\ next.version <= pointer
        /\ next.at = "signed" => version[next.version].text = next.text
  <2>1. CASE Wording!ReadPointer(s)
    <3>. DEFINE next == [signer[s] EXCEPT !.at = "version", !.version = pointer]
    <3>1. next \in [at : {"version", "signed"}, version : Nat, text : Nat]
          /\ next.version = pointer /\ next.at = "version"
      BY <1>0
    <3>2. signer' = [signer EXCEPT ![s] = next] /\ pointer # 0
      BY <2>1 DEF Wording!ReadPointer
    <3>. HIDE DEF next
    <3>3. next.version # 0 /\ next.version <= pointer /\ next.at # "signed"
      BY <1>0, <3>1, <3>2
    <3>. QED
      BY <3>1, <3>2, <3>3
  <2>2. CASE Wording!ReadVersion(s)
    <3>. DEFINE n == signer[s].version
                next == [signer[s] EXCEPT !.at = "signed", !.text = version[n].text]
    <3>1. n # 0 /\ n <= pointer
      BY <2>2 DEF Wording!ReadVersion, WordingInv, Signs
    <3>2. version[n].text \in Nat
      BY <1>0, <3>1, VersionsAre DEF WordingInv
    <3>3. next \in [at : {"version", "signed"}, version : Nat, text : Nat]
          /\ next.version = n /\ next.text = version[n].text
      BY <1>0, <3>2
    <3>4. signer' = [signer EXCEPT ![s] = next]
      BY <2>2 DEF Wording!ReadVersion
    <3>. HIDE DEF next
    <3>. QED
      BY <3>1, <3>3, <3>4
  <2>. QED
    BY <2>1, <2>2
<1>4. signer' \in [Signers -> [at : {"idle", "version", "signed"}, version : Nat, text : Nat]]
  BY <1>0, <1>3
<1>5. ASSUME NEW t \in Signers PROVE Signs(t)'
  <2>1. CASE t = s
    <3>1. signer'[t] = next
      BY <1>0, <1>3, <2>1
    <3>. QED
      BY <1>0, <1>3, <3>1 DEF Signs
  <2>2. CASE t # s
    <3>1. signer'[t] = signer[t]
      BY <1>0, <1>3, <2>2
    <3>. QED
      BY <1>1, <3>1, SignedStays
  <2>. QED
    BY <2>1, <2>2
<1>. QED
  BY <1>0, <1>1, <1>2, <1>4, <1>5 DEF WordingInv, WordingTypes

LEMMA WordingInitial == ASSUME Wording!Init PROVE WordingInv
<1>1. version = <<>> /\ pointer = 0 /\ version \in [1 .. 0 -> [text : Nat, next : Nat]]
  BY DEF Wording!Init
<1>2. WordingTypes
  BY <1>1, IdleStep DEF Wording!Init, WordingTypes, Wording!IdleSigner
<1>3. Chained
  BY <1>1 DEF Chained, Wording!Versions
<1>4. \A a \in Admins : Publishes(a)
  BY IdleStep DEF Wording!Init, Publishes, Publishing
<1>5. \A s \in Signers : Signs(s)
  BY DEF Wording!Init, Signs, Wording!IdleSigner
<1>. QED
  BY <1>2, <1>3, <1>4, <1>5 DEF WordingInv

LEMMA WordingNext == ASSUME WordingInv, [Wording!Next]_Wording!vars PROVE WordingInv'
<1>1. ASSUME NEW a \in Admins, Wording!Breaks(a) PROVE WordingInv'
  BY <1>1, Answered DEF Wording!Breaks, Wording!blobs
<1>2. ASSUME UNCHANGED <<Wording!blobs, admin, signer, adds>>, publisher' \in {publisher, None}
      PROVE  WordingInv'
  <2>1. Later /\ Chained' /\ WordingTypes'
    BY <1>2 DEF Later, WordingInv, WordingTypes, Chained, Wording!Versions, Wording!blobs
  <2>2. \A a \in Admins : Publishes(a)'
    BY <1>2, <2>1, OthersPublish, ReferenceAssumption DEF Wording!blobs
  <2>. QED
    BY <1>2, <2>1, <2>2, SignedStays DEF WordingInv
<1>3. CASE Wording!Lapses
  BY <1>2, <1>3 DEF Wording!Lapses
<1>4. CASE UNCHANGED Wording!vars
  BY <1>2, <1>4 DEF Wording!vars
<1>. QED
  BY <1>1, <1>3, <1>4, AddSteps, FirstSteps, PointSteps, TakeLeaseSteps, CreateNextSteps,
     SupersedeSteps, ReadEtagSteps, AdvanceSteps, SignerSteps DEF Wording!Next, Wording!AtRest

-----------------------------------------------------------------------------
(* The clubs of pilots.                                                    *)

Saws == {<<>>} \union (Member!Maybe \X Member!Maybe) \union [Pilots -> Member!Maybe]

Asked == [op : Member!Ops \union {"none"},
          at : {"idle", "lease", "look", "put", "file", "take", "read", "write"},
          pilot : Pilots \union {None}, club : Member!Maybe, by : Member!Maybe, again : BOOLEAN, saw : Saws]

MembershipTypes ==
  /\ member \in [Pilots -> Member!Maybe] /\ current \in [Pilots -> Member!Maybe]
  /\ map \in [Pilots -> Member!Maybe]
  /\ holds \in [Member!Blobs -> Requests \union {None}]
  /\ change \in [Requests -> Asked]
  /\ behind \subseteq Pilots

(* What a request read under a lease it still has is as it read it, and    *)
(* the document is as it wrote it.                                         *)
Knows(r) ==
  LET p == change[r].pilot
  IN /\ change[r].at # "idle" => p \in Pilots
     /\ change[r].at = "put" => change[r].saw \in Member!Maybe \X Member!Maybe
     /\ change[r].at = "put" /\ change[r].op # "edit" /\ holds[p] = r =>
          change[r].saw = <<member[p], current[p]>>
     /\ Member!OnMap(r) => change[r].op \in {"assign", "remove", "change"}
     /\ Member!OnMap(r) /\ holds[p] = r => change[r].club = member[p]
     /\ change[r].at = "write" /\ holds[Member!Map] = r => change[r].saw = map

Writes(q, p) == change[q].pilot = p /\ Member!OnMap(q)

(* The map has the pilot's club, or somebody is about to write it.         *)
Follows(p) ==
  p \notin behind =>
    /\ \A q \in Requests : Writes(q, p) => change[q].club = member[p]
    /\ map[p] = member[p] \/ \E q \in Requests : Writes(q, p)

MembershipInv ==
  /\ MembershipTypes
  /\ \A r \in Requests : Knows(r)
  /\ \A p \in Pilots : Follows(p)

LEMMA MembershipFollowed == ASSUME MembershipInv PROVE Member!MapFollowsPilot
  BY DEF MembershipInv, Follows, Writes, Member!MapFollowsPilot

LEMMA MemberRequestIs ==
  ASSUME MembershipInv, NEW r \in Requests
  PROVE  /\ change[r] \in Asked /\ Knows(r)
         /\ change[r].op \in Member!Ops \union {"none"} /\ change[r].club \in Member!Maybe
         /\ change[r].pilot \in Pilots \union {None} /\ change[r].saw \in Saws
         /\ change[r].at \in {"idle", "lease", "look", "put", "file", "take", "read", "write"}
         /\ change[r].at # "idle" => change[r].pilot \in Pilots
<1>1. change[r] \in Asked /\ Knows(r)
  BY DEF MembershipInv, MembershipTypes
<1>2. change[r].at # "idle" => change[r].pilot \in Pilots
  BY <1>1 DEF Knows
<1>. QED
  BY <1>1, <1>2 DEF Asked

LEMMA MemberIdleIs == Member!Idle \in Asked /\ Member!Idle.at = "idle" /\ Member!Idle.op = "none"
<1>1. <<>> \in Saws
  BY DEF Saws
<1>. QED
  BY <1>1 DEF Member!Idle, Asked, Member!Maybe

(* A request that is not the one at work knows what it knew.               *)
LEMMA OthersKnow ==
  ASSUME MembershipInv, NEW q \in Requests, change'[q] = change[q],
         \A b \in Member!Blobs : holds'[b] = q => holds[b] = q,
         \A p \in Pilots : holds[p] = q => member'[p] = member[p] /\ current'[p] = current[p],
         holds[Member!Map] = q => map' = map
  PROVE  Knows(q)'
<1>1. Knows(q) /\ change[q].at # "idle" => change[q].pilot \in Pilots
  BY MemberRequestIs
<1>2. Member!Map \in Member!Blobs /\ Pilots \subseteq Member!Blobs
  BY DEF Member!Blobs
<1>3. (Member!OnMap(q)' <=> Member!OnMap(q)) /\ (Member!OnMap(q) => change[q].at # "idle")
  BY DEF Member!OnMap
<1>. QED
  BY <1>1, <1>2, <1>3, MemberRequestIs DEF Knows

(* One request takes a step: the others keep theirs.                       *)
LEMMA MemberOneAsks ==
  ASSUME MembershipInv, NEW r \in Requests, NEW next \in Asked, change' = [change EXCEPT ![r] = next]
  PROVE  /\ change' \in [Requests -> Asked] /\ change'[r] = next
         /\ \A q \in Requests \ {r} : change'[q] = change[q]
         /\ \A q \in Requests \ {r} : (Member!OnMap(q)' <=> Member!OnMap(q))
         /\ \A q \in Requests \ {r}, p \in Pilots : (Writes(q, p)' <=> Writes(q, p))
<1>1. /\ change' \in [Requests -> Asked] /\ change'[r] = next
      /\ \A q \in Requests \ {r} : change'[q] = change[q]
  BY DEF MembershipInv, MembershipTypes
<1>. QED
  BY <1>1 DEF Member!OnMap, Writes

(* A step that leaves the documents and the map alone, and does not change *)
(* whether its request is about to write the map.                          *)
LEMMA QuietStep ==
  ASSUME MembershipInv, UNCHANGED <<member, current, map>>,
         holds' \in [Member!Blobs -> Requests \union {None}],
         NEW r \in Requests, NEW next \in Asked, change' = [change EXCEPT ![r] = next],
         \A q \in Requests \ {r}, b \in Member!Blobs : holds'[b] = q => holds[b] = q,
         Knows(r)',
         behind \subseteq behind', behind' \subseteq Pilots,
         \A p \in Pilots \ behind' : (Writes(r, p)' <=> Writes(r, p)) /\ (Writes(r, p) => next.club = change[r].club)
  PROVE  MembershipInv'
<1>1. MembershipTypes'
  BY MemberOneAsks DEF MembershipInv, MembershipTypes
<1>2. ASSUME NEW q \in Requests PROVE Knows(q)'
  <2>1. CASE q # r
    <3>1. q \in Requests \ {r}
      BY <2>1
    <3>2. change'[q] = change[q] /\ \A b \in Member!Blobs : holds'[b] = q => holds[b] = q
      BY <3>1, MemberOneAsks
    <3>. QED
      BY <3>2, OthersKnow
  <2>. QED
    BY <2>1
<1>3. ASSUME NEW p \in Pilots PROVE Follows(p)'
  <2>. SUFFICES ASSUME p \notin behind'
                PROVE  /\ \A q \in Requests : Writes(q, p)' => change'[q].club = member[p]
                       /\ map[p] = member[p] \/ \E q \in Requests : Writes(q, p)'
    BY DEF Follows
  <2>1. Follows(p) /\ p \notin behind
    BY DEF MembershipInv
  <2>2. \A q \in Requests : (Writes(q, p)' <=> Writes(q, p))
    BY MemberOneAsks
  <2>3. \A q \in Requests : Writes(q, p) => change'[q].club = change[q].club
    BY MemberOneAsks
  <2>. QED
    BY <2>1, <2>2, <2>3 DEF Follows
<1>. QED
  BY <1>1, <1>2, <1>3 DEF MembershipInv

LEMMA Finished ==
  ASSUME MembershipInv, NEW r \in Requests, Member!Finish(r)
  PROVE  /\ holds' \in [Member!Blobs -> Requests \union {None}]
         /\ \A q \in Requests \ {r}, b \in Member!Blobs : holds'[b] = q => holds[b] = q
         /\ change' = [change EXCEPT ![r] = Member!Idle] /\ Knows(r)'
         /\ \A p \in Pilots : ~Writes(r, p)'
<1>1. holds' = [b \in Member!Blobs |-> IF b \in Member!Held(r) THEN None ELSE holds[b]]
  BY DEF Member!Finish, Member!Free
<1>2. change' = [change EXCEPT ![r] = Member!Idle]
  BY DEF Member!Finish
<1>3. change'[r] = Member!Idle
  BY <1>2 DEF MembershipInv, MembershipTypes
<1>4. Knows(r)' /\ \A p \in Pilots : ~Writes(r, p)'
  BY <1>3, MemberIdleIs DEF Knows, Member!OnMap, Writes
<1>5. holds' \in [Member!Blobs -> Requests \union {None}]
  BY <1>1 DEF MembershipInv, MembershipTypes
<1>6. \A q \in Requests \ {r}, b \in Member!Blobs : holds'[b] = q => holds[b] = q
  BY <1>1, ReferenceAssumption
<1>. QED
  BY <1>2, <1>4, <1>5, <1>6

(* A request that ends before it comes to the map.                         *)
LEMMA FinishedEarly ==
  ASSUME MembershipInv, NEW r \in Requests, Member!Finish(r), ~Member!OnMap(r),
         UNCHANGED <<member, current, map, behind>>
  PROVE  MembershipInv'
<1>1. \A p \in Pilots : ~Writes(r, p)
  BY DEF Writes
<1>2. behind' \subseteq Pilots
  BY DEF MembershipInv, MembershipTypes
<1>3. \A p \in Pilots \ behind' : (Writes(r, p)' <=> Writes(r, p)) /\ ~Writes(r, p)
  BY <1>1, Finished
<1>. QED
  BY <1>1, <1>2, <1>3, Finished, MemberIdleIs, QuietStep

(* One that ends, with its pilot left behind.                              *)
LEMMA FinishedBehind ==
  ASSUME MembershipInv, NEW r \in Requests, Member!Finish(r), change[r].pilot \in Pilots,
         UNCHANGED <<member, current, map>>, behind' = behind \union {change[r].pilot}
  PROVE  MembershipInv'
<1>1. \A p \in Pilots \ behind' : ~Writes(r, p)
  BY DEF Writes
<1>2. behind' \subseteq Pilots /\ behind \subseteq behind'
  BY DEF MembershipInv, MembershipTypes
<1>3. \A p \in Pilots \ behind' : (Writes(r, p)' <=> Writes(r, p)) /\ ~Writes(r, p)
  BY <1>1, Finished
<1>. QED
  BY <1>1, <1>2, <1>3, Finished, MemberIdleIs, QuietStep

LEMMA MemberNewIs ==
  ASSUME NEW op \in Member!Ops, NEW at \in {"lease", "put"}, NEW p \in Pilots, NEW c \in Member!Maybe
  PROVE  /\ Member!New(op, at, p, c) \in Asked
         /\ Member!New(op, at, p, c).op = op /\ Member!New(op, at, p, c).at = at
         /\ Member!New(op, at, p, c).pilot = p
BY MemberIdleIs DEF Member!New, Asked, Member!Idle, Member!Maybe

LEMMA MemberAskSteps ==
  ASSUME MembershipInv, NEW r \in Requests, NEW request \in Asked, Member!Ask(r, request),
         request.pilot \in Pilots,
         \/ request.at = "lease"
         \/ request.at = "put" /\ request.op = "edit" /\ request.saw \in Member!Maybe \X Member!Maybe
  PROVE  MembershipInv'
<1>1. /\ change' = [change EXCEPT ![r] = request] /\ change[r] = Member!Idle
      /\ UNCHANGED <<member, current, map, holds, behind>>
  BY DEF Member!Ask, Member!documents, Member!copy
<1>2. change'[r] = request
  BY <1>1, MemberOneAsks
<1>3. Knows(r)'
  BY <1>2 DEF Knows, Member!OnMap
<1>4. \A p \in Pilots : ~Writes(r, p) /\ ~Writes(r, p)'
  BY <1>1, <1>2, MemberIdleIs DEF Writes, Member!OnMap
<1>5. behind' \subseteq Pilots /\ holds' \in [Member!Blobs -> Requests \union {None}]
  BY <1>1 DEF MembershipInv, MembershipTypes
<1>6. \A p \in Pilots \ behind' : (Writes(r, p)' <=> Writes(r, p)) /\ ~Writes(r, p)
  BY <1>4
<1>. QED
  BY <1>1, <1>3, <1>5, <1>6, QuietStep

LEMMA AsksSteps ==
  ASSUME MembershipInv, NEW r \in Requests, NEW p \in Pilots,
         \/ Member!AskAssign(r, p) \/ Member!AskRemove(r, p) \/ Member!AskChange(r, p)
         \/ Member!AskEdit(r, p) \/ Member!AskRegister(r, p)
  PROVE  MembershipInv'
<1>0. /\ None \in Member!Maybe /\ Clubs \subseteq Member!Maybe /\ Entered \subseteq Member!Maybe
      /\ member[p] \in Member!Maybe /\ current[p] \in Member!Maybe
  BY ReferenceAssumption DEF Member!Maybe, MembershipInv, MembershipTypes
<1>1. CASE Member!AskAssign(r, p)
  <2>1. PICK c \in Entered, again \in BOOLEAN : \E by \in {None, c} :
          Member!Ask(r, [Member!New("assign", "lease", p, c) EXCEPT !.by = by, !.again = again])
    BY <1>1 DEF Member!AskAssign
  <2>2. PICK by \in {None, c} : Member!Ask(r, [Member!New("assign", "lease", p, c) EXCEPT !.by = by, !.again = again])
    BY <2>1
  <2>. DEFINE made == Member!New("assign", "lease", p, c)
              request == [made EXCEPT !.by = by, !.again = again]
  <2>3. made \in Asked /\ made.at = "lease" /\ made.pilot = p /\ by \in Member!Maybe
    BY <1>0, MemberNewIs DEF Member!Ops
  <2>. HIDE DEF made
  <2>4. request \in Asked /\ request.at = "lease" /\ request.pilot = p
    BY <2>3 DEF Asked
  <2>. HIDE DEF request
  <2>. QED
    BY <2>2, <2>4, MemberAskSteps DEF request, made
<1>2. CASE Member!AskRemove(r, p)
  <2>1. PICK by \in Member!Maybe : Member!Ask(r, [Member!New("remove", "lease", p, None) EXCEPT !.by = by])
    BY <1>2 DEF Member!AskRemove
  <2>. DEFINE made == Member!New("remove", "lease", p, None)
              request == [made EXCEPT !.by = by]
  <2>3. made \in Asked /\ made.at = "lease" /\ made.pilot = p
    BY <1>0, MemberNewIs DEF Member!Ops
  <2>. HIDE DEF made
  <2>4. request \in Asked /\ request.at = "lease" /\ request.pilot = p
    BY <2>3 DEF Asked
  <2>. HIDE DEF request
  <2>. QED
    BY <2>1, <2>4, MemberAskSteps DEF request, made
<1>3. CASE Member!AskChange(r, p)
  BY <1>0, <1>3, MemberNewIs, MemberAskSteps DEF Member!AskChange, Member!Ops
<1>4. CASE Member!AskEdit(r, p)
  <2>. DEFINE made == Member!New("edit", "put", p, None)
              request == [made EXCEPT !.saw = <<member[p], current[p]>>]
  <2>3. made \in Asked /\ made.at = "put" /\ made.pilot = p /\ made.op = "edit"
    BY <1>0, MemberNewIs DEF Member!Ops
  <2>4. <<member[p], current[p]>> \in Saws /\ <<member[p], current[p]>> \in Member!Maybe \X Member!Maybe
    BY <1>0 DEF Saws
  <2>5. Member!Ask(r, request)
    BY <1>4 DEF Member!AskEdit
  <2>. HIDE DEF made
  <2>6. /\ request \in Asked /\ request.at = "put" /\ request.pilot = p /\ request.op = "edit"
        /\ request.saw = <<member[p], current[p]>>
    BY <2>3, <2>4 DEF Asked
  <2>. HIDE DEF request
  <2>. QED
    BY <2>4, <2>5, <2>6, MemberAskSteps
<1>5. CASE Member!AskRegister(r, p)
  <2>1. Member!ClubForSeason(p) \in Member!Maybe
    BY <1>0 DEF Member!ClubForSeason
  <2>. HIDE DEF Member!ClubForSeason
  <2>. QED
    BY <1>5, <2>1, MemberNewIs, MemberAskSteps DEF Member!AskRegister, Member!Ops
<1>. QED
  BY <1>1, <1>2, <1>3, <1>4, <1>5

(* A step of the request alone.                                            *)
LEMMA MemberGoes ==
  ASSUME MembershipInv, NEW r \in Requests, NEW at \in {"look", "put", "file", "take", "read", "write"},
         Member!Goto(r, at)
  PROVE  \E next \in Asked :
           /\ change' = [change EXCEPT ![r] = next] /\ change'[r] = next
           /\ next.at = at /\ next.op = change[r].op /\ next.pilot = change[r].pilot
           /\ next.club = change[r].club /\ next.saw = change[r].saw
<1>. DEFINE next == [change[r] EXCEPT !.at = at]
<1>1. /\ next \in Asked /\ next.at = at /\ next.op = change[r].op /\ next.pilot = change[r].pilot
      /\ next.club = change[r].club /\ next.saw = change[r].saw
  BY MemberRequestIs DEF Asked
<1>2. change' = [change EXCEPT ![r] = next]
  BY DEF Member!Goto
<1>. HIDE DEF next
<1>. QED
  BY <1>1, <1>2, MemberOneAsks

LEMMA TakesSteps ==
  ASSUME MembershipInv, NEW r \in Requests, Member!TakePilot(r) \/ Member!TakeMap(r)
  PROVE  MembershipInv'
<1>. DEFINE p == change[r].pilot
<1>0. p \in Pilots /\ Knows(r) /\ UNCHANGED <<member, current, map>>
  BY MemberRequestIs DEF Member!TakePilot, Member!TakeMap, Member!Takes, Member!At,
     Member!documents, Member!copy
<1>1. ASSUME NEW b \in {p, Member!Map}, Member!Takes(r, b, "look") \/ Member!Takes(r, b, "read"), holds[b] # None
      PROVE  \/ Member!Finish(r) /\ behind' = behind /\ b # Member!Map
             \/ Member!Finish(r) /\ behind' = behind \union {p}
  BY <1>1 DEF Member!Takes
<1>2. CASE Member!TakePilot(r)
  <2>1. CASE holds[p] # None
    <3>1. ~Member!OnMap(r)
      BY <1>2 DEF Member!TakePilot, Member!At, Member!OnMap
    <3>. QED
      BY <1>0, <1>1, <1>2, <2>1, <3>1, FinishedEarly, FinishedBehind DEF Member!TakePilot
  <2>2. CASE holds[p] = None
    <3>1. /\ holds' = [holds EXCEPT ![p] = r] /\ behind' = behind /\ Member!Goto(r, "look")
          /\ change[r].at = "lease"
      BY <1>2, <2>2 DEF Member!TakePilot, Member!Takes, Member!At
    <3>2. PICK next \in Asked :
            /\ change' = [change EXCEPT ![r] = next] /\ change'[r] = next
            /\ next.at = "look" /\ next.pilot = p
      BY <3>1, MemberGoes
    <3>3. Knows(r)' /\ (\A x \in Pilots : ~Writes(r, x) /\ ~Writes(r, x)')
      BY <1>0, <3>1, <3>2 DEF Knows, Writes, Member!OnMap
    <3>4. holds' \in [Member!Blobs -> Requests \union {None}] /\ behind' \subseteq Pilots
          /\ \A q \in Requests \ {r}, b \in Member!Blobs : holds'[b] = q => holds[b] = q
      BY <3>1 DEF MembershipInv, MembershipTypes
    <3>5. \A x \in Pilots \ behind' : (Writes(r, x)' <=> Writes(r, x)) /\ ~Writes(r, x)
      BY <3>3
    <3>. QED
      BY <1>0, <3>1, <3>2, <3>3, <3>4, <3>5, QuietStep
  <2>. QED
    BY <2>1, <2>2
<1>3. CASE Member!TakeMap(r)
  <2>1. CASE holds[Member!Map] # None
    BY <1>0, <1>1, <1>3, <2>1, FinishedBehind DEF Member!TakeMap
  <2>2. CASE holds[Member!Map] = None
    <3>1. /\ holds' = [holds EXCEPT ![Member!Map] = r] /\ behind' = behind /\ Member!Goto(r, "read")
          /\ change[r].at = "take"
      BY <1>3, <2>2 DEF Member!TakeMap, Member!Takes, Member!At
    <3>2. PICK next \in Asked :
            /\ change' = [change EXCEPT ![r] = next] /\ change'[r] = next
            /\ next.at = "read" /\ next.pilot = p /\ next.club = change[r].club
            /\ next.op = change[r].op
      BY <3>1, MemberGoes
    <3>3. Knows(r)' /\ (\A x \in Pilots : Writes(r, x)' <=> Writes(r, x))
      <4>1. Member!OnMap(r) /\ Member!OnMap(r)'
        BY <3>1, <3>2 DEF Member!OnMap
      <4>2. holds'[p] = r => holds[p] = r \/ p = Member!Map
        BY <3>1 DEF MembershipInv, MembershipTypes
      <4>3. p # Member!Map
        BY <1>0, ReferenceAssumption
      <4>. QED
        BY <1>0, <3>1, <3>2, <4>1, <4>2, <4>3 DEF Knows, Writes
    <3>4. holds' \in [Member!Blobs -> Requests \union {None}] /\ behind' \subseteq Pilots
          /\ \A q \in Requests \ {r}, b \in Member!Blobs : holds'[b] = q => holds[b] = q
      BY <3>1 DEF MembershipInv, MembershipTypes
    <3>. QED
      BY <1>0, <3>1, <3>2, <3>3, <3>4, QuietStep
  <2>. QED
    BY <2>1, <2>2
<1>. QED
  BY <1>2, <1>3

LEMMA LookSteps ==
  ASSUME MembershipInv, NEW r \in Requests, Member!Look(r)
  PROVE  MembershipInv'
<1>. DEFINE p == change[r].pilot
<1>0. /\ change[r].at = "look" /\ p \in Pilots /\ ~Member!OnMap(r)
      /\ UNCHANGED <<member, current, map, behind>>
  BY MemberRequestIs DEF Member!Look, Member!At, Member!OnMap, Member!documents, Member!copy
<1>1. CASE Member!Finish(r)
  BY <1>0, <1>1, FinishedEarly
<1>2. CASE ~Member!Finish(r)
  <2>. DEFINE seen == <<member[p], current[p]>>
              next == [change[r] EXCEPT !.saw = seen, !.at = "put"]
  <2>1. change' = [change EXCEPT ![r].saw = seen, ![r].at = "put"] /\ UNCHANGED holds
    BY <1>2 DEF Member!Look
  <2>2. seen \in Member!Maybe \X Member!Maybe /\ seen \in Saws
    BY <1>0 DEF MembershipInv, MembershipTypes, Saws
  <2>. HIDE DEF seen
  <2>3. next \in Asked /\ next.at = "put" /\ next.pilot = p /\ next.saw = seen
    BY <2>2, MemberRequestIs DEF Asked
  <2>4. change' = [change EXCEPT ![r] = next]
    BY <2>1
  <2>. HIDE DEF next
  <2>5. change'[r] = next
    BY <2>3, <2>4, MemberOneAsks
  <2>6. Knows(r)'
    BY <1>0, <2>2, <2>3, <2>5 DEF Knows, Member!OnMap, seen
  <2>7. \A x \in Pilots \ behind' : (Writes(r, x)' <=> Writes(r, x)) /\ ~Writes(r, x)
    BY <1>0, <2>3, <2>5 DEF Writes, Member!OnMap
  <2>8. behind' \subseteq Pilots /\ holds' \in [Member!Blobs -> Requests \union {None}]
    BY <1>0, <2>1 DEF MembershipInv, MembershipTypes
  <2>. QED
    BY <1>0, <2>1, <2>3, <2>4, <2>6, <2>7, <2>8, QuietStep
<1>. QED
  BY <1>1, <1>2

(* A document is written by who holds its lease, or while nobody does.     *)
LEMMA DocumentIs ==
  ASSUME MembershipInv, NEW r \in Requests,
         Member!At(r, Member!Ops, "put"), Member!MayWrite(r, change[r].pilot)
  PROVE  LET p == change[r].pilot
         IN /\ p \in Pilots /\ ~Member!OnMap(r)
            /\ Member!Document(r)[1] \in Member!Maybe /\ Member!Document(r)[2] \in Member!Maybe
            /\ \A q \in Requests \ {r} : holds[p] # q
            /\ change[r].op \in {"assign", "remove"} => Member!Document(r)[1] = change[r].club /\ holds[p] = r
            /\ change[r].op = "change" /\ change[r].saw[2] # change[r].club =>
                 Member!Document(r)[1] = change[r].club /\ holds[p] = r
            /\ change[r].op = "change" /\ change[r].saw[2] = change[r].club => Member!Document(r)[1] = member[p]
<1>. DEFINE p == change[r].pilot
<1>1. change[r].at = "put" /\ change[r].op \in Member!Ops /\ p \in Pilots /\ change[r].club \in Member!Maybe
  BY MemberRequestIs DEF Member!At
<1>2. change[r].saw \in Member!Maybe \X Member!Maybe
  BY <1>1, MemberRequestIs DEF Knows
<1>3. ~Member!OnMap(r)
  BY <1>1 DEF Member!OnMap
<1>4. /\ change[r].op # "edit" => holds[p] = r /\ change[r].saw = <<member[p], current[p]>>
      /\ change[r].op = "edit" => holds[p] = None
  BY <1>1, MemberRequestIs DEF Member!MayWrite, Knows
<1>5. CASE change[r].op = "edit"
  <2>1. Member!Document(r) = change[r].saw
    BY <1>5 DEF Member!Document
  <2>. QED
    BY <1>1, <1>2, <1>3, <1>4, <1>5, <2>1, ReferenceAssumption
<1>6. CASE change[r].op = "change"
  <2>1. Member!Document(r) = IF change[r].saw[2] = change[r].club THEN change[r].saw ELSE <<change[r].club, change[r].club>>
    BY <1>6 DEF Member!Document
  <2>. QED
    BY <1>1, <1>2, <1>3, <1>4, <1>6, <2>1
<1>7. CASE change[r].op \notin {"edit", "change"}
  <2>1. Member!Document(r) = <<change[r].club, change[r].saw[2]>>
    BY <1>7 DEF Member!Document
  <2>. QED
    BY <1>1, <1>2, <1>3, <1>4, <1>7, <2>1
<1>. QED
  BY <1>5, <1>6, <1>7

LEMMA PutSteps ==
  ASSUME MembershipInv, NEW r \in Requests, Member!Put(r)
  PROVE  MembershipInv'
<1>. DEFINE p == change[r].pilot
            new == Member!Document(r)
<1>0. Member!At(r, Member!Ops, "put") /\ UNCHANGED map
  BY DEF Member!Put, Member!copy
<1>1. CASE ~Member!MayWrite(r, p)
  <2>1. Member!Finish(r) /\ ~Member!OnMap(r) /\ UNCHANGED <<member, current, behind>>
    BY <1>0, <1>1 DEF Member!Put, Member!At, Member!OnMap, Member!documents
  <2>. QED
    BY <1>0, <2>1, FinishedEarly
<1>2. CASE Member!MayWrite(r, p)
  <2>1. /\ p \in Pilots /\ ~Member!OnMap(r) /\ new[1] \in Member!Maybe /\ new[2] \in Member!Maybe
        /\ \A q \in Requests \ {r} : holds[p] # q
        /\ change[r].op \in {"assign", "remove"} => new[1] = change[r].club /\ holds[p] = r
        /\ change[r].op = "change" /\ change[r].saw[2] # change[r].club => new[1] = change[r].club /\ holds[p] = r
        /\ change[r].op = "change" /\ change[r].saw[2] = change[r].club => new[1] = member[p]
    BY <1>0, <1>2, DocumentIs
  <2>2. /\ member' = [member EXCEPT ![p] = new[1]]
        /\ current' = [current EXCEPT ![p] = new[2]]
        /\ behind \subseteq behind' /\ behind' \subseteq behind \union {p}
        /\ p \notin behind' => \/ new[1] = member[p]
                              \/ (change[r].op \notin {"register", "edit"} /\ ~Member!Trails(p, r))
    <3>. DEFINE strays == new[1] # member[p] /\ (change[r].op \in {"register", "edit"} \/ Member!Trails(p, r))
    <3>1. /\ member' = [member EXCEPT ![p] = new[1]]
          /\ current' = [current EXCEPT ![p] = new[2]]
          /\ behind' = IF strays THEN behind \union {p} ELSE behind
      BY <1>2 DEF Member!Put
    <3>2. p \notin behind' => ~strays
      BY <3>1
    <3>3. p \notin behind' => \/ new[1] = member[p]
                              \/ (change[r].op \notin {"register", "edit"} /\ ~Member!Trails(p, r))
      BY <3>2
    <3>. HIDE DEF strays, new
    <3>4. behind \subseteq behind' /\ behind' \subseteq behind \union {p}
      BY <3>1
    <3>. QED
      BY <3>1, <3>3, <3>4
  <2>3. \/ change[r].op \in {"assign", "remove"} /\ Member!Goto(r, "file") /\ UNCHANGED holds
        \/ /\ change[r].op = "change" /\ change[r].saw[2] # change[r].club
           /\ Member!Goto(r, "file") /\ Member!Free({p})
        \/ /\ change[r].op \in {"register", "edit"} \/ change[r].saw[2] = change[r].club
           /\ change[r].op \notin {"assign", "remove"}
           /\ Member!Finish(r)
    BY <1>2 DEF Member!Put
  <2>. HIDE DEF new
  <2>4. /\ member' \in [Pilots -> Member!Maybe] /\ current' \in [Pilots -> Member!Maybe] /\ behind' \subseteq Pilots
        /\ member'[p] = new[1] /\ \A x \in Pilots \ {p} : member'[x] = member[x] /\ current'[x] = current[x]
    BY <2>1, <2>2 DEF MembershipInv, MembershipTypes
  <2>5. /\ holds' \in [Member!Blobs -> Requests \union {None}]
        /\ \A q \in Requests \ {r}, b \in Member!Blobs : holds'[b] = q => holds[b] = q
    <3>1. CASE Member!Finish(r)
      BY <3>1, Finished
    <3>2. CASE UNCHANGED holds \/ Member!Free({p})
      BY <3>2, ReferenceAssumption DEF Member!Free, MembershipInv, MembershipTypes
    <3>. QED
      BY <2>3, <3>1, <3>2
  <2>6. PICK next \in Asked :
          /\ change' = [change EXCEPT ![r] = next] /\ change'[r] = next
          /\ \/ next = Member!Idle /\ change[r].op \notin {"assign", "remove"}
                /\ (change[r].op \in {"register", "edit"} \/ change[r].saw[2] = change[r].club)
             \/ /\ next.at = "file" /\ next.pilot = p /\ next.op = change[r].op
                /\ next.club = change[r].club /\ next.op \in {"assign", "remove", "change"}
                /\ new[1] = next.club
    <3>1. CASE Member!Finish(r) /\ change[r].op \notin {"assign", "remove"}
                /\ (change[r].op \in {"register", "edit"} \/ change[r].saw[2] = change[r].club)
      BY <3>1, Finished, MemberIdleIs, MemberOneAsks
    <3>2. CASE /\ Member!Goto(r, "file") /\ change[r].op \in {"assign", "remove", "change"}
               /\ new[1] = change[r].club
      BY <3>2, MemberGoes
    <3>. QED
      BY <2>1, <2>3, <3>1, <3>2
  <2>7. Knows(r)'
    <3>1. CASE next = Member!Idle
      BY <2>6, <3>1, MemberIdleIs DEF Knows, Member!OnMap
    <3>2. CASE next # Member!Idle
      BY <2>1, <2>4, <2>6, <3>2 DEF Knows, Member!OnMap
    <3>. QED
      BY <3>1, <3>2
  <2>8. ASSUME NEW q \in Requests PROVE Knows(q)'
    <3>1. CASE q # r
      <4>1. q \in Requests \ {r}
        BY <3>1
      <4>2. change'[q] = change[q]
        BY <2>6, <4>1, MemberOneAsks
      <4>3. \A x \in Pilots : holds[x] = q => member'[x] = member[x] /\ current'[x] = current[x]
        BY <2>1, <2>4, <4>1
      <4>4. \A b \in Member!Blobs : holds'[b] = q => holds[b] = q
        BY <2>5, <4>1
      <4>. QED
        BY <1>0, <4>2, <4>3, <4>4, OthersKnow
    <3>. QED
      BY <2>7, <3>1
  <2>9. ASSUME NEW x \in Pilots PROVE Follows(x)'
    <3>. SUFFICES ASSUME x \notin behind'
                  PROVE  /\ \A q \in Requests : Writes(q, x)' => change'[q].club = member'[x]
                         /\ map[x] = member'[x] \/ \E q \in Requests : Writes(q, x)'
      BY <1>0 DEF Follows
    <3>1. /\ \A q \in Requests : Writes(q, x) => change[q].club = member[x]
          /\ map[x] = member[x] \/ \E q \in Requests : Writes(q, x)
      BY <2>2 DEF MembershipInv, Follows
    <3>2. \A q \in Requests \ {r} : (Writes(q, x)' <=> Writes(q, x)) /\ change'[q] = change[q]
      BY <2>6, MemberOneAsks
    <3>3. ~Writes(r, x)
      BY <2>1 DEF Writes
    <3>4. CASE x # p
      <4>1. ~Writes(r, x)'
        BY <2>6, <3>4, MemberIdleIs DEF Writes, Member!OnMap
      <4>2. member'[x] = member[x]
        BY <2>4, <3>4
      <4>. QED
        BY <3>1, <3>2, <3>3, <4>1, <4>2
    <3>5. CASE x = p /\ member'[x] = member[x]
      <4>1. Writes(r, x)' => change'[r].club = member'[x]
        BY <2>4, <2>6, <3>5, MemberIdleIs DEF Writes, Member!OnMap
      <4>. QED
        BY <3>1, <3>2, <3>3, <3>5, <4>1
    <3>6. CASE x = p /\ member'[x] # member[x]
      <4>1. change[r].op \notin {"register", "edit"} /\ ~Member!Trails(p, r)
        BY <2>2, <2>4, <3>6
      <4>2. next # Member!Idle
        <5>. SUFFICES ASSUME next = Member!Idle
                      PROVE  FALSE
          OBVIOUS
        <5>1. next.at = "idle"
          BY MemberIdleIs
        <5>2. change[r].op = "change" /\ change[r].saw[2] = change[r].club
          BY <1>0, <2>6, <4>1, <5>1 DEF Member!Ops, Member!At
        <5>. QED
          BY <2>1, <2>4, <3>6, <5>2
      <4>3. Writes(r, x)' /\ change'[r].club = member'[x]
        BY <2>4, <2>6, <3>6, <4>2 DEF Writes, Member!OnMap
      <4>4. \A q \in Requests \ {r} : ~Writes(q, x)
        BY <2>1, <3>6, <4>1 DEF Member!Trails, Writes
      <4>. QED
        BY <3>2, <4>3, <4>4
    <3>. QED
      BY <3>4, <3>5, <3>6
  <2>10. MembershipTypes'
    BY <1>0, <2>4, <2>5, <2>6, MemberOneAsks DEF MembershipInv, MembershipTypes
  <2>. QED
    BY <2>8, <2>9, <2>10 DEF MembershipInv
<1>. QED
  BY <1>1, <1>2

(* The way to the map.                                                     *)
LEMMA MapSteps ==
  ASSUME MembershipInv, NEW r \in Requests, Member!EnsureSentinel(r) \/ Member!ReadMap(r)
  PROVE  MembershipInv'
<1>. DEFINE p == change[r].pilot
<1>0. /\ UNCHANGED <<member, current, map, holds, behind>>
      /\ p \in Pilots /\ Member!OnMap(r) /\ Knows(r)
      /\ holds \in [Member!Blobs -> Requests \union {None}]
      /\ map \in Saws /\ behind \subseteq Pilots
  <2>1. map \in Saws
    BY DEF Saws, MembershipInv, MembershipTypes
  <2>. QED
    BY <2>1, MemberRequestIs DEF Member!EnsureSentinel, Member!ReadMap, Member!At, Member!OnMap,
       Member!documents, Member!copy, MembershipInv, MembershipTypes
<1>1. PICK next \in Asked :
        /\ change' = [change EXCEPT ![r] = next] /\ change'[r] = next
        /\ next.pilot = p /\ next.op = change[r].op /\ next.club = change[r].club
        /\ next.at = "take" \/ (next.at = "write" /\ next.saw = map)
  <2>1. CASE Member!EnsureSentinel(r)
    <3>1. Member!Goto(r, "take")
      BY <2>1 DEF Member!EnsureSentinel
    <3>2. PICK next \in Asked :
            /\ change' = [change EXCEPT ![r] = next] /\ change'[r] = next
            /\ next.at = "take" /\ next.op = change[r].op /\ next.pilot = change[r].pilot
            /\ next.club = change[r].club /\ next.saw = change[r].saw
      BY <3>1, MemberGoes
    <3>. QED
      BY <3>2
  <2>2. CASE Member!ReadMap(r)
    <3>. DEFINE next == [change[r] EXCEPT !.saw = map, !.at = "write"]
    <3>1. /\ next \in Asked /\ next.pilot = p /\ next.op = change[r].op /\ next.club = change[r].club
          /\ next.at = "write" /\ next.saw = map
      BY <1>0, MemberRequestIs DEF Asked
    <3>2. change' = [change EXCEPT ![r] = next]
      BY <2>2 DEF Member!ReadMap
    <3>. HIDE DEF next
    <3>. QED
      BY <3>1, <3>2, MemberOneAsks
  <2>. QED
    BY <2>1, <2>2
<1>2. Knows(r)'
  BY <1>0, <1>1 DEF Knows, Member!OnMap
<1>3. \A x \in Pilots : Writes(r, x)' <=> Writes(r, x)
  BY <1>0, <1>1 DEF Writes, Member!OnMap
<1>. QED
  BY <1>0, <1>1, <1>2, <1>3, QuietStep

LEMMA WriteMapSteps ==
  ASSUME MembershipInv, NEW r \in Requests, Member!WriteMap(r)
  PROVE  MembershipInv'
<1>. DEFINE p == change[r].pilot
<1>0. /\ UNCHANGED <<member, current>> /\ Member!Finish(r) /\ change[r].at = "write"
      /\ p \in Pilots /\ Member!OnMap(r) /\ Knows(r) /\ change[r].op \in {"assign", "remove", "change"}
      /\ change[r].club \in Member!Maybe
  BY MemberRequestIs DEF Member!WriteMap, Member!At, Member!OnMap, Member!documents, Knows
<1>1. CASE ~Member!MayWrite(r, Member!Map)
  BY <1>0, <1>1, FinishedBehind DEF Member!WriteMap
<1>2. CASE Member!MayWrite(r, Member!Map)
  <2>1. holds[Member!Map] = r /\ change[r].saw = map
    BY <1>0, <1>2 DEF Member!MayWrite, Knows
  <2>2. /\ map' = [map EXCEPT ![p] = change[r].club]
        /\ behind' = IF change[r].op # "change" /\ holds[p] = r /\ ~Member!Trails(p, r)
                     THEN behind \ {p} ELSE behind
    BY <1>2, <2>1 DEF Member!WriteMap
  <2>3. /\ map' \in [Pilots -> Member!Maybe] /\ map'[p] = change[r].club
        /\ \A x \in Pilots \ {p} : map'[x] = map[x]
    BY <1>0, <2>2 DEF MembershipInv, MembershipTypes
  <2>4. MembershipTypes'
    BY <1>0, <2>2, <2>3, Finished, MemberOneAsks, MemberIdleIs DEF MembershipInv, MembershipTypes
  <2>5. ASSUME NEW q \in Requests PROVE Knows(q)'
    <3>1. CASE q # r
      <4>1. q \in Requests \ {r} /\ holds[Member!Map] # q
        BY <2>1, <3>1
      <4>2. change'[q] = change[q]
        BY <1>0, <4>1, Finished, MemberIdleIs, MemberOneAsks
      <4>3. \A b \in Member!Blobs : holds'[b] = q => holds[b] = q
        BY <1>0, <4>1, Finished
      <4>. QED
        BY <1>0, <4>1, <4>2, <4>3, OthersKnow
    <3>. QED
      BY <1>0, <3>1, Finished
  <2>6. ASSUME NEW x \in Pilots PROVE Follows(x)'
    <3>. SUFFICES ASSUME x \notin behind'
                  PROVE  /\ \A q \in Requests : Writes(q, x)' => change'[q].club = member[x]
                         /\ map'[x] = member[x] \/ \E q \in Requests : Writes(q, x)'
      BY <1>0 DEF Follows
    <3>1. /\ \A q \in Requests \ {r} : (Writes(q, x)' <=> Writes(q, x)) /\ change'[q] = change[q]
          /\ ~Writes(r, x)'
      BY <1>0, Finished, MemberIdleIs, MemberOneAsks
    <3>2. CASE x \notin behind
      <4>1. /\ \A q \in Requests : Writes(q, x) => change[q].club = member[x]
            /\ map[x] = member[x] \/ \E q \in Requests : Writes(q, x)
        BY <3>2 DEF MembershipInv, Follows
      <4>2. CASE x = p
        <5>1. Writes(r, x)
          BY <1>0, <4>2 DEF Writes
        <5>. QED
          BY <2>3, <3>1, <4>1, <4>2, <5>1
      <4>3. CASE x # p
        <5>1. ~Writes(r, x) /\ map'[x] = map[x]
          BY <2>3, <4>3 DEF Writes
        <5>. QED
          BY <3>1, <4>1, <5>1
      <4>. QED
        BY <4>2, <4>3
    <3>3. CASE x \in behind
      <4>1. x = p /\ holds[p] = r /\ ~Member!Trails(p, r)
        BY <2>2, <3>3
      <4>2. change[r].club = member[p]
        BY <1>0, <4>1 DEF Knows
      <4>3. \A q \in Requests \ {r} : ~Writes(q, x)
        BY <4>1 DEF Member!Trails, Writes
      <4>. QED
        BY <2>3, <3>1, <4>1, <4>2, <4>3
    <3>. QED
      BY <3>2, <3>3
  <2>. QED
    BY <2>4, <2>5, <2>6 DEF MembershipInv
<1>. QED
  BY <1>1, <1>2

LEMMA MemberBreaksSteps ==
  ASSUME MembershipInv, NEW r \in Requests, Member!Breaks(r)
  PROVE  MembershipInv'
<1>1. Member!Finish(r) /\ UNCHANGED <<member, current, map>>
      /\ behind' = IF Member!OnMap(r) THEN behind \union {change[r].pilot} ELSE behind
  BY DEF Member!Breaks, Member!documents, Member!copy
<1>2. Member!OnMap(r) => change[r].pilot \in Pilots
  BY MemberRequestIs DEF Member!OnMap
<1>. QED
  BY <1>1, <1>2, FinishedEarly, FinishedBehind

LEMMA LapsesSteps ==
  ASSUME MembershipInv, NEW r \in Requests, Member!Lapses(r)
  PROVE  MembershipInv'
<1>1. PICK b \in Member!Held(r) :
        /\ Member!Free({b}) /\ UNCHANGED <<member, current, map, change>>
        /\ behind' = IF b = change[r].pilot /\ Member!OnMap(r) THEN behind \union {b} ELSE behind
  BY DEF Member!Lapses, Member!documents, Member!copy
<1>2. /\ holds' \in [Member!Blobs -> Requests \union {None}]
      /\ \A q \in Requests, c \in Member!Blobs : holds'[c] = q => holds[c] = q
  BY <1>1, ReferenceAssumption DEF Member!Free, MembershipInv, MembershipTypes
<1>3. behind \subseteq behind' /\ behind' \subseteq Pilots
  BY <1>1, MemberRequestIs DEF MembershipInv, MembershipTypes, Member!OnMap
<1>4. MembershipTypes'
  BY <1>1, <1>2, <1>3 DEF MembershipInv, MembershipTypes
<1>5. ASSUME NEW q \in Requests PROVE Knows(q)'
  BY <1>1, <1>2, OthersKnow
<1>6. ASSUME NEW p \in Pilots PROVE Follows(p)'
  <2>1. \A q \in Requests : Writes(q, p)' <=> Writes(q, p)
    BY <1>1 DEF Writes, Member!OnMap
  <2>. QED
    BY <1>1, <1>3, <2>1 DEF MembershipInv, Follows
<1>. QED
  BY <1>4, <1>5, <1>6 DEF MembershipInv

LEMMA MembershipInitial == ASSUME Member!Init PROVE MembershipInv
<1>1. MembershipTypes
  BY MemberIdleIs DEF Member!Init, MembershipTypes, Member!Maybe
<1>2. \A r \in Requests : Knows(r)
  BY MemberIdleIs DEF Member!Init, Knows, Member!OnMap
<1>3. \A p \in Pilots : Follows(p)
  BY MemberIdleIs DEF Member!Init, Follows, Writes, Member!OnMap
<1>. QED
  BY <1>1, <1>2, <1>3 DEF MembershipInv

LEMMA MembershipNext == ASSUME MembershipInv, [Member!Next]_Member!vars PROVE MembershipInv'
<1>1. CASE UNCHANGED Member!vars
  <2>1. UNCHANGED <<member, current, map, holds, change, behind>>
    BY <1>1 DEF Member!vars, Member!documents, Member!copy
  <2>2. MembershipTypes'
    BY <2>1 DEF MembershipInv, MembershipTypes
  <2>3. \A q \in Requests : Knows(q)'
    BY <2>1, OthersKnow
  <2>4. \A q \in Requests, p \in Pilots : Writes(q, p)' <=> Writes(q, p)
    BY <2>1 DEF Writes, Member!OnMap
  <2>5. \A p \in Pilots : Follows(p)'
    BY <2>1, <2>4 DEF MembershipInv, Follows
  <2>. QED
    BY <2>2, <2>3, <2>5 DEF MembershipInv
<1>. QED
  BY <1>1, AsksSteps, TakesSteps, LookSteps, PutSteps, MapSteps, WriteMapSteps, MemberBreaksSteps,
     LapsesSteps DEF Member!Next, Member!AtRest

-----------------------------------------------------------------------------
(* Seasons.                                                                *)

(* Requests: what one has seen is a list of its own kind.                  *)

IsRequest(x) ==
  x \in [op : {x.op}, at : {x.at}, year : Years \union {None}, club : Clubs \union {None},
         teams : 0 .. MaxTeams, active : BOOLEAN, was : 0 .. MaxTeams, todo : SUBSET Years,
         seen : {x.seen}]

RequestTypes ==
  /\ asked = [r \in Requests |-> asked[r]]
  /\ \A r \in Requests : IsRequest(asked[r])
  /\ lock \in [Years -> Requests \union {None}]

(* Registrations.                                                          *)

RegistrationTypes ==
  /\ doc \in [Years -> [Clubs -> 0 .. MaxTeams]]
  /\ entry \in [Years -> [Clubs -> 0 .. MaxTeams]]

Registering(r) == asked[r].op \in Season!RegistrationOps
Inside(r) == Registering(r) /\ asked[r].at # "lock"
Changing(r) == Registering(r) /\ asked[r].at \in {"readTeams", "files", "teams", "entry"}

Fits(r) ==
  Registering(r) =>
    /\ asked[r].at \in {"lock", "begin", "doc", "readTeams", "files", "teams", "entry"}
    /\ asked[r].year \in Years /\ asked[r].club \in Clubs
    /\ asked[r].op = "register" => asked[r].was = 0 /\ asked[r].teams # 0
    /\ asked[r].op = "resize" => asked[r].teams # 0
    /\ asked[r].op = "unregister" =>
         asked[r].teams = 0 /\ (asked[r].at \notin {"lock", "begin"} => asked[r].was # 0)
    /\ asked[r].at \in {"readTeams", "files", "teams"} => asked[r].teams # asked[r].was
    /\ asked[r].at # "lock" => lock[asked[r].year] = r

(* The teams of a pair of a year and a club in a list.                     *)
Numbers(p, list) == {n \in 1 .. MaxTeams : <<p[1], p[2], n>> \in list}

Kept(p, n) == Numbers(p, team) = 1 .. n /\ Season!TeamsOf(p, n) \subseteq file

Whole(p) == entry[p[1]][p[2]] = doc[p[1]][p[2]] /\ Kept(p, doc[p[1]][p[2]])

Sound(p) == p \notin halved \union undone

Progress(r) ==
  LET p == Season!Of(r)
      n == asked[r].teams
      was == asked[r].was
  IN /\ asked[r].at = "doc" /\ asked[r].op # "register" => was = doc[asked[r].year][asked[r].club]
     /\ Changing(r) => n = doc[asked[r].year][asked[r].club]
     /\ asked[r].at = "readTeams" /\ Sound(p) /\ asked[r].op # "register" => Kept(p, was)
     /\ asked[r].at \in {"files", "teams"} /\ ~Season!Grows(r) /\ Sound(p) =>
          Numbers(p, asked[r].seen) = 1 .. was /\ Season!TeamsOf(p, n) \subseteq file
     /\ asked[r].at = "teams" /\ Season!Grows(r) => Season!TeamsOf(p, n) \subseteq file
     /\ asked[r].at = "entry" /\ p \notin undone /\ (asked[r].op = "register" \/ p \notin halved) =>
          Kept(p, n)

Agreed ==
  \A p \in Years \X Clubs :
    Sound(p) /\ (\A r \in Requests : Changing(r) => Season!Of(r) # p) => Whole(p)

RegistrationInv ==
  /\ RequestTypes /\ RegistrationTypes
  /\ \A r \in Requests : Fits(r) /\ (Registering(r) => Progress(r))
  /\ Agreed

LEMMA RegistrationsKept == ASSUME RegistrationInv PROVE Season!RegistrationsAgree
<1>. SUFFICES ASSUME NEW y \in Years, NEW c \in Clubs, Sound(<<y, c>>),
                     \A r \in Requests : asked[r].op \in Season!RegistrationOps => Season!Of(r) # <<y, c>>
              PROVE  /\ entry[y][c] = doc[y][c]
                     /\ {n \in 1 .. MaxTeams : <<y, c, n>> \in team} = 1 .. doc[y][c]
                     /\ Season!TeamsOf(<<y, c>>, doc[y][c]) \subseteq file
  BY DEF Season!RegistrationsAgree, Sound
<1>1. Whole(<<y, c>>)
  BY DEF RegistrationInv, Agreed, Changing, Registering
<1>. QED
  BY <1>1 DEF Whole, Kept, Numbers

LEMMA SeasonIdleIs == IsRequest(Season!Idle) /\ Season!Idle.op = "none" /\ Season!Idle.at = "idle"
<1>1. 0 \in 0 .. MaxTeams
  BY ReferenceAssumption
<1>2. Season!Idle.seen = {} /\ Season!Idle.op = "none" /\ Season!Idle.at = "idle"
  BY DEF Season!Idle
<1>3. Season!Idle \in [op : {"none"}, at : {"idle"}, year : Years \union {None}, club : Clubs \union {None},
               teams : 0 .. MaxTeams, active : BOOLEAN, was : 0 .. MaxTeams, todo : SUBSET Years,
               seen : {{}}]
  BY <1>1 DEF Season!Idle
<1>. QED
  BY <1>2, <1>3 DEF IsRequest

LEMMA SeasonOneAsks ==
  ASSUME RequestTypes, NEW r \in Requests, NEW next, IsRequest(next),
         asked' = [asked EXCEPT ![r] = next],
         lock' \in [Years -> Requests \union {None}]
  PROVE  /\ asked'[r] = next /\ \A q \in Requests \ {r} : asked'[q] = asked[q]
         /\ RequestTypes'
<1>1. asked'[r] = next /\ \A q \in Requests \ {r} : asked'[q] = asked[q]
  BY DEF RequestTypes
<1>2. asked' = [q \in Requests |-> asked'[q]]
  BY DEF RequestTypes
<1>3. ASSUME NEW q \in Requests PROVE IsRequest(asked'[q])
  BY <1>1 DEF RequestTypes
<1>4. \A q \in Requests : IsRequest(asked[q])'
  BY <1>3 DEF IsRequest
<1>. QED
  BY <1>1, <1>2, <1>4 DEF RequestTypes

(* The registration is as it was, and so is what may be said of it.        *)
Stays(p) ==
  /\ doc'[p[1]][p[2]] = doc[p[1]][p[2]] /\ entry'[p[1]][p[2]] = entry[p[1]][p[2]]
  /\ p \in halved => p \in halved'
  /\ p \in undone => p \in undone'
  /\ p \notin undone' => Numbers(p, team') = Numbers(p, team)
  /\ \A n \in 0 .. MaxTeams : Season!TeamsOf(p, n) \subseteq file => Season!TeamsOf(p, n) \subseteq file'

LEMMA WholeStays ==
  ASSUME RegistrationTypes, NEW p \in Years \X Clubs, Stays(p), Sound(p)', Whole(p)
  PROVE  Whole(p)'
<1>1. doc[p[1]][p[2]] \in 0 .. MaxTeams
  BY DEF RegistrationTypes
<1>. QED
  BY <1>1 DEF Stays, Sound, Whole, Kept, Numbers

LEMMA ProgressStays ==
  ASSUME RegistrationInv, NEW q \in Requests, Registering(q), asked'[q] = asked[q],
         Inside(q) => Stays(Season!Of(q))
  PROVE  Progress(q)'
<1>1. IsRequest(asked[q]) /\ Fits(q) /\ Progress(q)
  BY DEF RegistrationInv, RequestTypes
<1>2. asked[q].teams \in 0 .. MaxTeams /\ asked[q].was \in 0 .. MaxTeams
  BY <1>1 DEF IsRequest
<1>3. CASE asked[q].at = "lock"
  BY <1>3 DEF Progress, Changing
<1>4. CASE asked[q].at # "lock"
  <2>0. PICK p, n, was, seen :
          /\ p = <<asked[q].year, asked[q].club>> /\ n = asked[q].teams /\ was = asked[q].was
          /\ seen = asked[q].seen
    OBVIOUS
  <2>1. /\ Season!Of(q) = p /\ p = <<asked'[q].year, asked'[q].club>>
        /\ p[1] = asked[q].year /\ p[2] = asked[q].club
        /\ n = asked'[q].teams /\ was = asked'[q].was /\ seen = asked'[q].seen
    BY <2>0 DEF Season!Of
  <2>2. Stays(p) /\ (Season!Grows(q)' <=> Season!Grows(q)) /\ (Changing(q)' <=> Changing(q))
    BY <1>4, <2>1 DEF Inside, Season!Grows, Changing, Registering
  <2>3. Sound(p)' => Sound(p)
    BY <2>2 DEF Sound, Stays
  <2>4. \A m \in 0 .. MaxTeams : p \notin undone' /\ Kept(p, m) => Kept(p, m)'
    BY <2>2 DEF Stays, Kept, Numbers, Season!TeamsOf
  <2>5. \A m \in 0 .. MaxTeams : Season!TeamsOf(p, m) \subseteq file => Season!TeamsOf(p, m) \subseteq file'
    BY <2>2 DEF Stays
  <2>6. doc'[asked[q].year][asked[q].club] = doc[asked[q].year][asked[q].club]
        /\ (p \notin halved' => p \notin halved) /\ (p \notin undone' => p \notin undone)
    BY <2>1, <2>2 DEF Stays
  <2>7. Sound(p)' => p \notin undone'
    BY DEF Sound
  <2>8. /\ asked[q].at = "doc" /\ asked[q].op # "register" => was = doc[asked[q].year][asked[q].club]
        /\ Changing(q) => n = doc[asked[q].year][asked[q].club]
        /\ asked[q].at = "readTeams" /\ Sound(p) /\ asked[q].op # "register" => Kept(p, was)
        /\ asked[q].at \in {"files", "teams"} /\ ~Season!Grows(q) /\ Sound(p) =>
             Numbers(p, seen) = 1 .. was /\ Season!TeamsOf(p, n) \subseteq file
        /\ asked[q].at = "teams" /\ Season!Grows(q) => Season!TeamsOf(p, n) \subseteq file
        /\ asked[q].at = "entry" /\ p \notin undone /\ (asked[q].op = "register" \/ p \notin halved) =>
             Kept(p, n)
    BY <1>1, <2>0, <2>1 DEF Progress
  <2>9. /\ n \in 0 .. MaxTeams /\ was \in 0 .. MaxTeams
        /\ (p \notin undone' /\ Kept(p, n) => Kept(p, n)')
        /\ (p \notin undone' /\ Kept(p, was) => Kept(p, was)')
        /\ (Season!TeamsOf(p, n) \subseteq file => Season!TeamsOf(p, n) \subseteq file')
    BY <1>2, <2>0, <2>4, <2>5
  <2>10. /\ asked[q].at = "doc" /\ asked[q].op # "register" => was = doc'[asked[q].year][asked[q].club]
         /\ Changing(q)' => n = doc'[asked[q].year][asked[q].club]
         /\ asked[q].at = "readTeams" /\ Sound(p)' /\ asked[q].op # "register" => Kept(p, was)'
         /\ asked[q].at \in {"files", "teams"} /\ ~Season!Grows(q)' /\ Sound(p)' =>
              Numbers(p, seen) = 1 .. was /\ Season!TeamsOf(p, n) \subseteq file'
         /\ asked[q].at = "teams" /\ Season!Grows(q)' => Season!TeamsOf(p, n) \subseteq file'
         /\ asked[q].at = "entry" /\ p \notin undone' /\ (asked[q].op = "register" \/ p \notin halved') =>
              Kept(p, n)'
    BY <2>2, <2>3, <2>6, <2>7, <2>8, <2>9
  <2>. QED
    <3>1. Season!Of(q)' = p
      BY <2>1 DEF Season!Of
    <3>. QED
      BY <2>1, <2>10, <3>1 DEF Progress
<1>. QED
  BY <1>3, <1>4

(* What a step of one request must keep to.                                *)
LEMMA RegistrationStep ==
  ASSUME RegistrationInv, NEW r \in Requests, NEW next, IsRequest(next),
         asked' = [asked EXCEPT ![r] = next],
         lock' \in [Years -> Requests \union {None}], RegistrationTypes',
         \A q \in Requests \ {r}, y \in Years : lock[y] = q => lock'[y] = q,
         Fits(r)', Registering(r)' => Progress(r)',
         \A p \in Years \X Clubs : Stays(p) \/ (Inside(r) /\ Season!Of(r) = p),
         \A p \in Years \X Clubs :
           (Changing(r) /\ Season!Of(r) = p) \/ ~Stays(p) =>
             (Changing(r)' /\ Season!Of(r)' = p) \/ ~Sound(p)' \/ Whole(p)'
  PROVE  RegistrationInv'
<1>1. /\ asked'[r] = next /\ \A q \in Requests \ {r} : asked'[q] = asked[q]
      /\ RequestTypes'
  BY SeasonOneAsks DEF RegistrationInv
<1>2. ASSUME NEW q \in Requests \ {r} PROVE Fits(q)' /\ (Registering(q)' => Progress(q)')
  <2>1. asked'[q] = asked[q] /\ (Registering(q)' <=> Registering(q)) /\ Fits(q)
    BY <1>1 DEF Registering, RegistrationInv
  <2>2. Fits(q)'
    BY <2>1 DEF Fits
  <2>3. ASSUME Registering(q), Inside(q) PROVE Stays(Season!Of(q))
    <3>1. /\ asked[q].year \in Years /\ asked[q].club \in Clubs /\ lock[asked[q].year] = q
          /\ Season!Of(q) = <<asked[q].year, asked[q].club>>
      BY <2>1, <2>3 DEF Fits, Inside, Season!Of
    <3>2. Inside(r) => lock[asked[r].year] = r /\ Season!Of(r) = <<asked[r].year, asked[r].club>>
      BY DEF RegistrationInv, Fits, Inside, Season!Of
    <3>3. CASE Inside(r) /\ Season!Of(r) = Season!Of(q)
      BY <3>1, <3>2, <3>3
    <3>4. CASE ~(Inside(r) /\ Season!Of(r) = Season!Of(q))
      BY <3>1, <3>4
    <3>. QED
      BY <3>3, <3>4
  <2>. QED
    BY <2>1, <2>2, <2>3, ProgressStays
<1>3. Agreed'
  <2>. SUFFICES ASSUME NEW p \in Years \X Clubs, Sound(p)',
                       \A q \in Requests : Changing(q)' => Season!Of(q)' # p
                PROVE  Whole(p)'
    BY DEF Agreed
  <2>1. CASE (Changing(r) /\ Season!Of(r) = p) \/ ~Stays(p)
    BY <2>1
  <2>2. CASE ~(Changing(r) /\ Season!Of(r) = p) /\ Stays(p)
    <3>1. \A q \in Requests \ {r} : Changing(q) => Season!Of(q) # p
      BY <1>1 DEF Changing, Registering, Season!Of
    <3>2. Sound(p)
      BY <2>2 DEF Sound, Stays
    <3>3. Whole(p)
      BY <2>2, <3>1, <3>2 DEF RegistrationInv, Agreed
    <3>. QED
      BY <2>2, <3>3, WholeStays DEF RegistrationInv
  <2>. QED
    BY <2>1, <2>2
<1>4. ASSUME NEW q \in Requests PROVE Fits(q)' /\ (Registering(q)' => Progress(q)')
  BY <1>2
<1>. QED
  BY <1>1, <1>3, <1>4 DEF RegistrationInv

(* A step that leaves the registrations alone.                             *)
LEMMA Untouched ==
  ASSUME UNCHANGED <<Season!registrations, halved, undone>>
  PROVE  \A p : Stays(p)
BY DEF Stays, Season!registrations, Numbers

LEMMA Elsewhere ==
  ASSUME RegistrationInv, NEW r \in Requests, NEW next, IsRequest(next),
         asked' = [asked EXCEPT ![r] = next],
         lock' \in [Years -> Requests \union {None}],
         \A q \in Requests \ {r}, y \in Years : lock[y] = q => lock'[y] = q,
         UNCHANGED <<Season!registrations, halved, undone>>,
         Fits(r)', Registering(r)' => Progress(r)', ~Changing(r)
  PROVE  RegistrationInv'
<1>1. RegistrationTypes'
  BY DEF RegistrationInv, RegistrationTypes, Season!registrations
<1>2. \A p : Stays(p)
  BY Untouched
<1>. QED
  BY <1>1, <1>2, RegistrationStep

LEMMA LocksGivenBack ==
  ASSUME RegistrationInv, NEW r \in Requests, Season!Finish(r)
  PROVE  /\ lock' \in [Years -> Requests \union {None}]
         /\ \A q \in Requests \ {r}, y \in Years : lock[y] = q => lock'[y] = q
         /\ asked' = [asked EXCEPT ![r] = Season!Idle] /\ asked'[r] = Season!Idle
         /\ Fits(r)' /\ ~Registering(r)' /\ ~Changing(r)'
<1>1. /\ lock' = [y \in Years |-> IF lock[y] = r THEN None ELSE lock[y]]
      /\ asked' = [asked EXCEPT ![r] = Season!Idle]
  BY DEF Season!Finish
<1>2. lock \in [Years -> Requests \union {None}]
  BY DEF RegistrationInv, RequestTypes
<1>3. asked'[r] = Season!Idle
  BY <1>1 DEF RegistrationInv, RequestTypes
<1>4. ~Registering(r)'
  BY <1>3, SeasonIdleIs DEF Registering, Season!RegistrationOps
<1>. QED
  BY <1>1, <1>2, <1>3, <1>4 DEF Fits, Changing

LEMMA EndsElsewhere ==
  ASSUME RegistrationInv, NEW r \in Requests, Season!Finish(r), ~Changing(r),
         UNCHANGED <<Season!registrations, halved, undone>>
  PROVE  RegistrationInv'
BY LocksGivenBack, SeasonIdleIs, Elsewhere

LEMMA GoesElsewhere ==
  ASSUME RegistrationInv, NEW r \in Requests, NEW next, IsRequest(next),
         asked' = [asked EXCEPT ![r] = next],
         ~Registering(r), next.op \notin Season!RegistrationOps,
         UNCHANGED <<Season!registrations, halved, undone, lock>>
  PROVE  RegistrationInv'
<1>1. asked'[r] = next /\ lock \in [Years -> Requests \union {None}]
  BY DEF RegistrationInv, RequestTypes
<1>2. ~Registering(r)' /\ Fits(r)' /\ ~Changing(r)
  BY <1>1 DEF Registering, Fits, Changing
<1>. QED
  BY <1>1, <1>2, Elsewhere

LEMMA SeasonRequestIs ==
  ASSUME RequestTypes, NEW r \in Requests
  PROVE  /\ IsRequest(asked[r])
         /\ asked[r].year \in Years \union {None} /\ asked[r].club \in Clubs \union {None}
         /\ asked[r].teams \in 0 .. MaxTeams /\ asked[r].was \in 0 .. MaxTeams
         /\ asked[r].active \in BOOLEAN /\ asked[r].todo \subseteq Years
<1>1. IsRequest(asked[r])
  BY DEF RequestTypes
<1>. QED
  BY <1>1 DEF IsRequest

LEMMA SeasonGoes ==
  ASSUME RequestTypes, NEW r \in Requests, NEW at, Season!Goto(r, at)
  PROVE  \E next : /\ IsRequest(next) /\ asked' = [asked EXCEPT ![r] = next] /\ asked'[r] = next
                   /\ next.at = at /\ next.op = asked[r].op /\ next.year = asked[r].year
                   /\ next.club = asked[r].club /\ next.teams = asked[r].teams
                   /\ next.was = asked[r].was
                   /\ next.seen = asked[r].seen /\ next.active = asked[r].active
                   /\ next.todo = asked[r].todo
<1>. DEFINE next == [asked[r] EXCEPT !.at = at]
<1>1. IsRequest(asked[r])
  BY DEF RequestTypes
<1>2. /\ IsRequest(next)
      /\ next.at = at /\ next.op = asked[r].op /\ next.year = asked[r].year
      /\ next.club = asked[r].club /\ next.teams = asked[r].teams /\ next.was = asked[r].was
      /\ next.seen = asked[r].seen /\ next.active = asked[r].active /\ next.todo = asked[r].todo
  BY <1>1 DEF IsRequest
<1>3. asked' = [asked EXCEPT ![r] = next]
  BY DEF Season!Goto
<1>. HIDE DEF next
<1>4. asked'[r] = next
  BY <1>3 DEF RequestTypes
<1>. QED
  BY <1>2, <1>3, <1>4

(* What requests for seasons, for clubs and for registrations and teams do. *)
SeasonMoves(r) ==
  \/ Season!ReadOthers(r) \/ Season!Deactivate(r) \/ Season!WriteOthers(r)
  \/ Season!WriteSeason(r) \/ Season!RemoveSeason(r) \/ Season!ReadSeasons(r) \/ Season!WriteSeasons(r)

ClubMoves(r) ==
  \/ Season!WriteClub(r) \/ Season!ReadClubs(r) \/ Season!WriteClubs(r)
  \/ Season!CheckTeams(r) \/ Season!CheckSeasons(r) \/ Season!UnnameClub(r) \/ Season!RemoveClub(r)

RegistrationMoves(r) ==
  \/ Season!TakeLock(r) \/ Season!RegisterBegin(r) \/ Season!ChangeBegin(r) \/ Season!WriteDoc(r)
  \/ Season!ReadTeams(r) \/ Season!WriteFiles(r) \/ Season!WriteTeams(r) \/ Season!WriteEntry(r)
  \/ Season!WriteTeamFile(r) \/ Season!ReadTeamList(r) \/ Season!WriteTeamList(r) \/ Season!Breaks(r)

(* Requests for seasons and for clubs.                                     *)
LEMMA SeasonSteps ==
  ASSUME RegistrationInv, NEW r \in Requests,
         SeasonMoves(r)
  PROVE  RegistrationInv'
<1>0. /\ RequestTypes /\ IsRequest(asked[r]) /\ asked[r].op \in Season!SeasonOps
      /\ ~Registering(r) /\ ~Changing(r) /\ UNCHANGED <<Season!registrations, halved, undone>>
  BY SeasonRequestIs DEF SeasonMoves, Season!ReadOthers, Season!Deactivate, Season!WriteOthers,
     Season!WriteSeason, Season!RemoveSeason, Season!ReadSeasons, Season!WriteSeasons,
     Season!At, Season!SeasonOps, Season!RegistrationOps, Registering, Changing, Season!history, RegistrationInv
<1>1. CASE Season!WriteSeasons(r)
  BY <1>0, <1>1, EndsElsewhere DEF Season!WriteSeasons
<1>2. CASE Season!WriteOthers(r) \/ Season!WriteSeason(r) \/ Season!RemoveSeason(r)
  <2>1. UNCHANGED lock /\ \E at : Season!Goto(r, at)
    BY <1>2 DEF Season!WriteOthers, Season!WriteSeason, Season!RemoveSeason
  <2>2. PICK next : IsRequest(next) /\ asked' = [asked EXCEPT ![r] = next] /\ next.op = asked[r].op
    BY <1>0, <2>1, SeasonGoes
  <2>. QED
    BY <1>0, <2>1, <2>2, GoesElsewhere DEF Registering
<1>3. CASE Season!ReadOthers(r)
  <2>. DEFINE others == Season!Active(listed) \ (IF asked[r].op = "updateSeason" THEN {asked[r].year} ELSE {})
              to == IF others = {} THEN "blob" ELSE "deactivate"
              next == [asked[r] EXCEPT !.todo = others, !.seen = listed, !.at = to]
  <2>1. others \subseteq Years
    BY DEF Season!Active
  <2>2. asked' = [asked EXCEPT ![r] = next] /\ UNCHANGED lock
    BY <1>3 DEF Season!ReadOthers
  <2>. HIDE DEF others, to
  <2>3. IsRequest(next) /\ next.op = asked[r].op
    BY <1>0, <2>1 DEF IsRequest
  <2>. QED
    BY <1>0, <2>2, <2>3, GoesElsewhere DEF Registering
<1>4. CASE Season!Deactivate(r)
  <2>1. PICK y, to :
          /\ y \in asked[r].todo
          /\ asked' = [asked EXCEPT ![r].todo = @ \ {y}, ![r].seen[y] = "inactive", ![r].at = to]
    BY <1>4 DEF Season!Deactivate
  <2>. DEFINE next == [asked[r] EXCEPT !.todo = @ \ {y}, !.seen[y] = "inactive", !.at = to]
  <2>2. asked' = [asked EXCEPT ![r] = next]
    BY <2>1
  <2>3. IsRequest(next) /\ next.op = asked[r].op
    BY <1>0, SeasonRequestIs DEF IsRequest
  <2>4. UNCHANGED lock
    BY <1>4 DEF Season!Deactivate
  <2>. QED
    BY <1>0, <2>2, <2>3, <2>4, GoesElsewhere DEF Registering
<1>5. CASE Season!ReadSeasons(r)
  <2>. DEFINE next == [asked[r] EXCEPT !.seen = listed, !.at = "index"]
  <2>2. asked' = [asked EXCEPT ![r] = next] /\ UNCHANGED lock
    BY <1>5 DEF Season!ReadSeasons
  <2>3. IsRequest(next) /\ next.op = asked[r].op
    BY <1>0 DEF IsRequest
  <2>. QED
    BY <1>0, <2>2, <2>3, GoesElsewhere DEF Registering
<1>. QED
  BY <1>1, <1>2, <1>3, <1>4, <1>5 DEF SeasonMoves

LEMMA ClubSteps ==
  ASSUME RegistrationInv, NEW r \in Requests,
         ClubMoves(r)
  PROVE  RegistrationInv'
<1>0. /\ RequestTypes /\ IsRequest(asked[r]) /\ asked[r].op \in {"createClub", "deleteClub"}
      /\ ~Registering(r) /\ ~Changing(r) /\ UNCHANGED <<Season!registrations, halved, undone>>
  BY SeasonRequestIs DEF ClubMoves, Season!WriteClub, Season!ReadClubs, Season!WriteClubs,
     Season!CheckTeams, Season!CheckSeasons, Season!UnnameClub, Season!RemoveClub,
     Season!At, Season!RegistrationOps, Registering, Changing, Season!history, RegistrationInv
<1>1. CASE Season!Finish(r)
  BY <1>0, <1>1, EndsElsewhere
<1>2. ASSUME NEW at, Season!Goto(r, at), UNCHANGED lock
      PROVE  RegistrationInv'
  <2>1. PICK next : IsRequest(next) /\ asked' = [asked EXCEPT ![r] = next] /\ next.op = asked[r].op
    BY <1>0, <1>2, SeasonGoes
  <2>. QED
    BY <1>0, <1>2, <2>1, GoesElsewhere DEF Registering
<1>3. CASE Season!ReadClubs(r)
  <2>. DEFINE next == [asked[r] EXCEPT !.seen = named, !.at = "index"]
  <2>2. asked' = [asked EXCEPT ![r] = next] /\ UNCHANGED lock
    BY <1>3 DEF Season!ReadClubs
  <2>3. IsRequest(next) /\ next.op = asked[r].op
    BY <1>0 DEF IsRequest
  <2>. QED
    BY <1>0, <2>2, <2>3, GoesElsewhere DEF Registering
<1>4. CASE Season!CheckTeams(r) /\ ~Season!Finish(r)
  <2>. DEFINE all == {y \in Years : listed[y] # "none"}
              next == [asked[r] EXCEPT !.at = "seasons", !.todo = all]
  <2>2. asked' = [asked EXCEPT ![r] = next] /\ UNCHANGED lock
    BY <1>4 DEF Season!CheckTeams
  <2>3. all \subseteq Years
    OBVIOUS
  <2>. HIDE DEF all
  <2>4. IsRequest(next) /\ next.op = asked[r].op
    BY <1>0, <2>3 DEF IsRequest
  <2>. QED
    BY <1>0, <2>2, <2>4, GoesElsewhere DEF Registering
<1>5. CASE Season!CheckSeasons(r) /\ ~Season!Finish(r)
  <2>1. CASE Season!Goto(r, "unname") /\ UNCHANGED lock
    BY <1>2, <2>1
  <2>2. ASSUME NEW y \in asked[r].todo, asked' = [asked EXCEPT ![r].todo = @ \ {y}], UNCHANGED lock
        PROVE  RegistrationInv'
    <3>. DEFINE next == [asked[r] EXCEPT !.todo = @ \ {y}]
    <3>1. IsRequest(next) /\ next.op = asked[r].op
      BY <1>0, SeasonRequestIs DEF IsRequest
    <3>. QED
      BY <1>0, <2>2, <3>1, GoesElsewhere DEF Registering
  <2>. QED
    BY <1>5, <2>1, <2>2 DEF Season!CheckSeasons
<1>. QED
  BY <1>1, <1>2, <1>3, <1>4, <1>5 DEF ClubMoves, Season!WriteClub, Season!WriteClubs,
     Season!UnnameClub, Season!RemoveClub

(* Requests begin.                                                         *)
LEMMA StartSteps ==
  ASSUME RegistrationInv, NEW r \in Requests, NEW request, IsRequest(request), Season!Start(r, request),
         request.op \in Season!RegistrationOps =>
           /\ request.at = "lock" /\ request.year \in Years /\ request.club \in Clubs
           /\ request.op = "register" => request.was = 0 /\ request.teams # 0
           /\ request.op = "resize" => request.teams # 0
           /\ request.op = "unregister" => request.teams = 0
  PROVE  RegistrationInv'
<1>1. /\ asked[r] = Season!Idle /\ asked' = [asked EXCEPT ![r] = request]
      /\ UNCHANGED <<Season!registrations, halved, undone, lock>>
  BY DEF Season!Start
<1>2. asked'[r] = request /\ lock \in [Years -> Requests \union {None}]
  BY <1>1 DEF RegistrationInv, RequestTypes
<1>3. ~Changing(r)
  BY <1>1, SeasonIdleIs DEF Changing
<1>4. Fits(r)' /\ ~Changing(r)'
  BY <1>2 DEF Fits, Registering, Changing
<1>5. Registering(r)' => Progress(r)'
  BY <1>2, <1>4 DEF Registering, Progress
<1>. QED
  BY <1>1, <1>2, <1>3, <1>4, <1>5, Elsewhere

LEMMA SeasonNewIs ==
  ASSUME NEW op, NEW at, NEW y \in Years \union {None}, NEW c \in Clubs \union {None}
  PROVE  /\ IsRequest(Season!New(op, at, y, c))
         /\ Season!New(op, at, y, c).op = op /\ Season!New(op, at, y, c).at = at
         /\ Season!New(op, at, y, c).year = y
         /\ Season!New(op, at, y, c).club = c /\ Season!New(op, at, y, c).was = 0
         /\ Season!New(op, at, y, c).teams = 0
<1>. DEFINE new == Season!New(op, at, y, c)
<1>1. new = [Season!Idle EXCEPT !.op = op, !.at = at, !.year = y, !.club = c]
  BY DEF Season!New
<1>2. Season!Idle.was = 0 /\ Season!Idle.teams = 0
  BY DEF Season!Idle
<1>. HIDE DEF new
<1>. QED
  BY <1>1, <1>2, SeasonIdleIs DEF IsRequest, new

LEMMA SeasonAskSteps ==
  ASSUME RegistrationInv, NEW r \in Requests,
         \/ \E y \in Years : Season!AskSeason(r, y)
         \/ \E c \in Clubs : Season!AskClub(r, c)
         \/ \E y \in Years, c \in Clubs : Season!AskRegistration(r, y, c) \/ Season!AskTeam(r, y, c)
  PROVE  RegistrationInv'
<1>1. ASSUME NEW op, op \notin Season!RegistrationOps, NEW at, NEW x \in Years \union {None},
             NEW d \in Clubs \union {None}, Season!Start(r, Season!New(op, at, x, d))
      PROVE  RegistrationInv'
  <2>. DEFINE new == Season!New(op, at, x, d)
  <2>1. IsRequest(new) /\ new.op = op
    BY SeasonNewIs
  <2>. HIDE DEF new
  <2>2. Season!Start(r, new)
    BY <1>1 DEF new
  <2>. QED
    BY <1>1, <2>1, <2>2, StartSteps
<1>2. ASSUME NEW op, op \notin Season!RegistrationOps, NEW at, NEW active \in BOOLEAN, NEW y \in Years,
             Season!Start(r, [Season!New(op, at, y, None) EXCEPT !.active = active])
      PROVE  RegistrationInv'
  <2>. DEFINE new == Season!New(op, at, y, None)
              request == [new EXCEPT !.active = active]
  <2>1. IsRequest(new) /\ new.op = op
    BY SeasonNewIs
  <2>2. Season!Start(r, request)
    BY <1>2
  <2>. HIDE DEF new
  <2>3. IsRequest(request) /\ request.op = op
    BY <2>1 DEF IsRequest
  <2>. HIDE DEF request
  <2>. QED
    BY <1>2, <2>2, <2>3, StartSteps
<1>3. /\ "createSeason" \notin Season!RegistrationOps /\ "updateSeason" \notin Season!RegistrationOps
      /\ "touchSeason" \notin Season!RegistrationOps /\ "deleteSeason" \notin Season!RegistrationOps
      /\ "createClub" \notin Season!RegistrationOps /\ "deleteClub" \notin Season!RegistrationOps
      /\ "addTeam" \notin Season!RegistrationOps /\ "dropTeam" \notin Season!RegistrationOps
  BY DEF Season!RegistrationOps
<1>4. ASSUME NEW y \in Years, Season!AskSeason(r, y) PROVE RegistrationInv'
  <2>1. ASSUME NEW active \in BOOLEAN, NEW op \in {"createSeason", "updateSeason"},
               Season!Start(r, [Season!New(op, IF active THEN "others" ELSE "blob", y, None)
                           EXCEPT !.active = active])
        PROVE  RegistrationInv'
    BY <1>2, <1>3, <2>1
  <2>2. CASE Season!Start(r, [Season!New("touchSeason", "blob", y, None) EXCEPT !.active = (season[y] = "active")])
    BY <1>2, <1>3, <2>2
  <2>3. CASE Season!Start(r, Season!New("deleteSeason", IF season[y] = "none" THEN "readIndex" ELSE "remove", y, None))
    BY <1>1, <1>3, <2>3
  <2>. QED
    BY <1>4, <2>1, <2>2, <2>3 DEF Season!AskSeason
<1>5. ASSUME NEW c \in Clubs, Season!AskClub(r, c) PROVE RegistrationInv'
  BY <1>1, <1>3, <1>5 DEF Season!AskClub
<1>6. ASSUME NEW y \in Years, NEW c \in Clubs, Season!AskTeam(r, y, c) PROVE RegistrationInv'
  BY <1>1, <1>3, <1>6 DEF Season!AskTeam
<1>7. ASSUME NEW y \in Years, NEW c \in Clubs, Season!AskRegistration(r, y, c) PROVE RegistrationInv'
  <2>1. ASSUME NEW op \in {"register", "resize"}, NEW n \in 1 .. MaxTeams,
               Season!Start(r, [Season!New(op, "lock", y, c) EXCEPT !.teams = n])
        PROVE  RegistrationInv'
    <3>. DEFINE new == Season!New(op, "lock", y, c)
                request == [new EXCEPT !.teams = n]
    <3>1. /\ IsRequest(new) /\ new.op = op /\ new.at = "lock" /\ new.year = y /\ new.club = c
          /\ new.was = 0
      BY SeasonNewIs
    <3>2. Season!Start(r, request)
      BY <2>1
    <3>. HIDE DEF new
    <3>3. n \in 0 .. MaxTeams /\ n # 0
      BY ReferenceAssumption
    <3>4. /\ IsRequest(request) /\ request.op = op /\ request.at = "lock" /\ request.year = y
          /\ request.club = c /\ request.was = 0 /\ request.teams = n
      BY <3>1, <3>3 DEF IsRequest
    <3>. HIDE DEF request
    <3>. QED
      BY <3>2, <3>3, <3>4, StartSteps
  <2>2. CASE Season!Start(r, Season!New("unregister", "lock", y, c))
    <3>. DEFINE new == Season!New("unregister", "lock", y, c)
    <3>1. /\ IsRequest(new) /\ new.op = "unregister" /\ new.at = "lock" /\ new.year = y /\ new.club = c
          /\ new.was = 0 /\ new.teams = 0
      BY SeasonNewIs
    <3>2. Season!Start(r, new)
      BY <2>2
    <3>. HIDE DEF new
    <3>. QED
      BY <3>1, <3>2, StartSteps
  <2>. QED
    BY <1>7, <2>1, <2>2 DEF Season!AskRegistration
<1>. QED
  BY <1>4, <1>5, <1>6, <1>7

(* The lock, and what is looked at under it.                               *)
LEMMA TakeLockSteps ==
  ASSUME RegistrationInv, NEW r \in Requests, Season!TakeLock(r)
  PROVE  RegistrationInv'
<1>1. PICK next : /\ IsRequest(next) /\ asked' = [asked EXCEPT ![r] = next] /\ asked'[r] = next
                  /\ next.at = "begin" /\ next.op = asked[r].op /\ next.year = asked[r].year
                  /\ next.club = asked[r].club /\ next.teams = asked[r].teams /\ next.was = asked[r].was
  BY SeasonGoes DEF Season!TakeLock, RegistrationInv
<1>2. /\ asked[r].at = "lock" /\ lock[asked[r].year] = None /\ lock' = [lock EXCEPT ![asked[r].year] = r]
      /\ UNCHANGED <<Season!registrations, halved, undone>>
  BY DEF Season!TakeLock, Season!history
<1>3. lock \in [Years -> Requests \union {None}] /\ Fits(r)
  BY DEF RegistrationInv, RequestTypes
<1>4. /\ lock' \in [Years -> Requests \union {None}]
      /\ \A q \in Requests \ {r}, y \in Years : lock[y] = q => lock'[y] = q
  BY <1>2, <1>3, ReferenceAssumption
<1>5. Fits(r)'
  BY <1>1, <1>2, <1>3 DEF Fits, Registering
<1>6. Progress(r)' /\ ~Changing(r)
  BY <1>1, <1>2 DEF Progress, Changing
<1>. QED
  BY <1>1, <1>2, <1>4, <1>5, <1>6, Elsewhere

LEMMA BeginSteps ==
  ASSUME RegistrationInv, NEW r \in Requests, Season!RegisterBegin(r) \/ Season!ChangeBegin(r)
  PROVE  RegistrationInv'
<1>0. /\ asked[r].at = "begin" /\ Registering(r) /\ ~Changing(r) /\ Fits(r)
      /\ UNCHANGED <<Season!registrations, halved, undone>>
      /\ asked[r].year \in Years /\ asked[r].club \in Clubs
      /\ lock \in [Years -> Requests \union {None}] /\ RequestTypes
  BY DEF Season!RegisterBegin, Season!ChangeBegin, Season!At, Registering,
     Season!RegistrationOps, Changing, Season!history,
     RegistrationInv, Fits, RequestTypes
<1>1. CASE Season!Finish(r)
  BY <1>0, <1>1, EndsElsewhere
<1>2. CASE Season!RegisterBegin(r) /\ ~Season!Finish(r)
  <2>1. Season!Goto(r, "doc") /\ UNCHANGED lock /\ asked[r].op = "register"
    BY <1>2 DEF Season!RegisterBegin, Season!At
  <2>2. PICK next : /\ IsRequest(next) /\ asked' = [asked EXCEPT ![r] = next] /\ asked'[r] = next
                    /\ next.at = "doc" /\ next.op = asked[r].op /\ next.year = asked[r].year
                    /\ next.club = asked[r].club /\ next.teams = asked[r].teams
                    /\ next.was = asked[r].was
    BY <1>0, <2>1, SeasonGoes
  <2>3. Fits(r)' /\ Progress(r)'
    BY <1>0, <2>1, <2>2 DEF Fits, Registering, Progress, Changing
  <2>. QED
    BY <1>0, <2>1, <2>2, <2>3, Elsewhere
<1>3. CASE Season!ChangeBegin(r) /\ ~Season!Finish(r)
  <2>. DEFINE before == doc[asked[r].year][asked[r].club]
              next == [asked[r] EXCEPT !.at = "doc", !.was = before]
  <2>1. /\ before # 0 /\ asked' = [asked EXCEPT ![r].at = "doc", ![r].was = before] /\ UNCHANGED lock
        /\ asked[r].op \in {"resize", "unregister"}
    BY <1>3 DEF Season!ChangeBegin, Season!At
  <2>2. before \in 0 .. MaxTeams
    BY <1>0 DEF RegistrationInv, RegistrationTypes
  <2>3. asked' = [asked EXCEPT ![r] = next]
    BY <2>1
  <2>. HIDE DEF before
  <2>4. /\ IsRequest(next) /\ next.at = "doc" /\ next.op = asked[r].op /\ next.year = asked[r].year
        /\ next.club = asked[r].club /\ next.teams = asked[r].teams /\ next.was = before
    BY <1>0, <2>2, SeasonRequestIs DEF IsRequest
  <2>. HIDE DEF next
  <2>5. asked'[r] = next
    BY <1>0, <2>3 DEF RequestTypes
  <2>6. UNCHANGED doc
    BY <1>0 DEF Season!registrations
  <2>7. Fits(r)' /\ Progress(r)'
    BY <1>0, <2>1, <2>4, <2>5, <2>6 DEF Fits, Registering, Progress, Changing, before
  <2>. QED
    BY <1>0, <2>1, <2>3, <2>4, <2>7, Elsewhere
<1>. QED
  BY <1>1, <1>2, <1>3

(* What a registration's request may rely on once it holds the lock.       *)
LEMMA AloneInside ==
  ASSUME RegistrationInv, NEW r \in Requests, Inside(r)
  PROVE  /\ Fits(r) /\ Progress(r) /\ asked[r].year \in Years /\ asked[r].club \in Clubs
         /\ Season!Of(r) \in Years \X Clubs /\ Season!Of(r) = <<asked[r].year, asked[r].club>>
         /\ asked[r].teams \in 0 .. MaxTeams /\ asked[r].was \in 0 .. MaxTeams
         /\ \A q \in Requests \ {r} : Changing(q) => Season!Of(q) # Season!Of(r)
         /\ ~Changing(r) /\ Sound(Season!Of(r)) => Whole(Season!Of(r))
<1>1. /\ Fits(r) /\ Progress(r) /\ asked[r].year \in Years /\ asked[r].club \in Clubs
      /\ lock[asked[r].year] = r
  BY DEF Inside, RegistrationInv, Fits
<1>2. Season!Of(r) = <<asked[r].year, asked[r].club>> /\ Season!Of(r) \in Years \X Clubs
  BY <1>1 DEF Season!Of
<1>3. ASSUME NEW q \in Requests \ {r}, Changing(q) PROVE Season!Of(q) # Season!Of(r)
  <2>1. lock[asked[q].year] = q /\ Season!Of(q) = <<asked[q].year, asked[q].club>>
    BY <1>3 DEF RegistrationInv, Fits, Changing, Season!Of
  <2>. QED
    BY <1>1, <1>2, <2>1
<1>4. ~Changing(r) /\ Sound(Season!Of(r)) => Whole(Season!Of(r))
  BY <1>2, <1>3 DEF RegistrationInv, Agreed
<1>. QED
  BY <1>1, <1>2, <1>3, <1>4, SeasonRequestIs DEF RegistrationInv

(* A step of the request that holds the lock, about its registration only. *)
LEMMA InsideNext ==
  ASSUME RegistrationInv, NEW r \in Requests, Inside(r), NEW next, IsRequest(next),
         asked' = [asked EXCEPT ![r] = next],
         next.op = asked[r].op, next.year = asked[r].year, next.club = asked[r].club,
         next.teams = asked[r].teams, next.was = asked[r].was, UNCHANGED lock,
         next.at \in {"readTeams", "files", "teams", "entry"},
         RegistrationTypes', Progress(r)',
         asked[r].op = "unregister" => asked[r].was # 0,
         next.at # "entry" => asked[r].teams # asked[r].was,
         \A p \in Years \X Clubs : p # Season!Of(r) => Stays(p)
  PROVE  RegistrationInv'
<1>1. asked'[r] = next
  BY DEF RegistrationInv, RequestTypes
<1>2. lock' \in [Years -> Requests \union {None}]
      /\ \A q \in Requests \ {r}, y \in Years : lock[y] = q => lock'[y] = q
  BY DEF RegistrationInv, RequestTypes
<1>3. Fits(r) /\ lock[asked[r].year] = r
  BY AloneInside DEF Fits, Inside
<1>4. Fits(r)' /\ Changing(r)' /\ Season!Of(r)' = Season!Of(r)
  BY <1>1, <1>3 DEF Fits, Inside, Registering, Changing, Season!Of
<1>. QED
  BY <1>1, <1>2, <1>4, RegistrationStep

LEMMA InsideStep ==
  ASSUME RegistrationInv, NEW r \in Requests, Inside(r), NEW at, Season!Goto(r, at), UNCHANGED lock,
         at \in {"readTeams", "files", "teams", "entry"},
         RegistrationTypes', Progress(r)',
         asked[r].op = "unregister" => asked[r].was # 0,
         at # "entry" => asked[r].teams # asked[r].was,
         \A p \in Years \X Clubs : p # Season!Of(r) => Stays(p)
  PROVE  RegistrationInv'
<1>1. PICK next : /\ IsRequest(next) /\ asked' = [asked EXCEPT ![r] = next]
                  /\ next.at = at /\ next.op = asked[r].op /\ next.year = asked[r].year
                  /\ next.club = asked[r].club /\ next.teams = asked[r].teams /\ next.was = asked[r].was
  BY SeasonGoes DEF RegistrationInv
<1>. QED
  BY <1>1, InsideNext

(* The fields that a step to another place leaves.                         *)
LEMMA SameRequest ==
  ASSUME RegistrationInv, NEW r \in Requests, NEW at, Season!Goto(r, at)
  PROVE  /\ asked'[r].at = at /\ asked'[r].op = asked[r].op /\ asked'[r].year = asked[r].year
         /\ asked'[r].club = asked[r].club /\ asked'[r].teams = asked[r].teams
         /\ asked'[r].was = asked[r].was
         /\ asked'[r].seen = asked[r].seen
         /\ Season!Of(r)' = Season!Of(r) /\ (Season!Grows(r)' <=> Season!Grows(r))
<1>1. PICK next : /\ IsRequest(next) /\ asked' = [asked EXCEPT ![r] = next] /\ asked'[r] = next
                  /\ next.at = at /\ next.op = asked[r].op /\ next.year = asked[r].year
                  /\ next.club = asked[r].club /\ next.teams = asked[r].teams /\ next.was = asked[r].was
                  /\ next.seen = asked[r].seen
  BY SeasonGoes DEF RegistrationInv
<1>. QED
  BY <1>1 DEF Season!Of, Season!Grows

LEMMA WriteDocSteps ==
  ASSUME RegistrationInv, NEW r \in Requests, Season!WriteDoc(r)
  PROVE  RegistrationInv'
<1>. DEFINE to == IF asked[r].teams = asked[r].was THEN "entry" ELSE "readTeams"
<1>0. /\ asked[r].at = "doc" /\ asked[r].op \in Season!RegistrationOps /\ Season!Goto(r, to)
      /\ doc' = [doc EXCEPT ![asked[r].year][asked[r].club] = asked[r].teams]
      /\ UNCHANGED <<entry, file, team, lock, halved, undone>>
  BY DEF Season!WriteDoc, Season!At, Season!history
<1>1. Inside(r) /\ Registering(r) /\ ~Changing(r)
  BY <1>0 DEF Inside, Registering, Changing
<1>2. /\ Fits(r) /\ Progress(r) /\ asked[r].year \in Years /\ asked[r].club \in Clubs
      /\ Season!Of(r) \in Years \X Clubs /\ Season!Of(r) = <<asked[r].year, asked[r].club>>
      /\ asked[r].teams \in 0 .. MaxTeams /\ asked[r].was \in 0 .. MaxTeams
      /\ (Sound(Season!Of(r)) => Whole(Season!Of(r)))
  BY <1>1, AloneInside
<1>3. doc \in [Years -> [Clubs -> 0 .. MaxTeams]]
  BY DEF RegistrationInv, RegistrationTypes
<1>4. /\ doc' \in [Years -> [Clubs -> 0 .. MaxTeams]]
      /\ doc'[asked[r].year][asked[r].club] = asked[r].teams
      /\ \A p \in Years \X Clubs : p # Season!Of(r) => doc'[p[1]][p[2]] = doc[p[1]][p[2]]
  BY <1>0, <1>2, <1>3
<1>5. RegistrationTypes'
  BY <1>0, <1>4 DEF RegistrationInv, RegistrationTypes
<1>6. \A p \in Years \X Clubs : p # Season!Of(r) => Stays(p)
  BY <1>0, <1>4 DEF Stays, Numbers
<1>7. /\ asked'[r].at = to /\ asked'[r].op = asked[r].op /\ asked'[r].year = asked[r].year
      /\ asked'[r].club = asked[r].club /\ asked'[r].teams = asked[r].teams
      /\ asked'[r].was = asked[r].was
      /\ Season!Of(r)' = Season!Of(r)
  BY <1>0, SameRequest
<1>8. PICK p, n, was : p = Season!Of(r) /\ n = asked[r].teams /\ was = asked[r].was
  OBVIOUS
<1>9. /\ asked[r].op # "register" => was = doc[asked[r].year][asked[r].club]
      /\ asked[r].op \in {"register", "resize", "unregister"}
      /\ asked[r].op = "register" => was = 0 /\ n # 0
      /\ asked[r].op = "unregister" => was # 0 /\ n = 0
  BY <1>0, <1>2, <1>8, <1>1 DEF Progress, Fits, Season!RegistrationOps
<1>10. p[1] = asked[r].year /\ p[2] = asked[r].club
  BY <1>2, <1>8
<1>11. Sound(p) /\ asked[r].op # "register" => Kept(p, was)
  BY <1>2, <1>8, <1>9, <1>10 DEF Whole
<1>12. Progress(r)'
  <2>1. (Sound(p)' <=> Sound(p)) /\ Kept(p, was)' = Kept(p, was) /\ Kept(p, n)' = Kept(p, n)
    BY <1>0 DEF Sound, Kept, Numbers
  <2>2. CASE n = was
    <3>1. asked'[r].at = "entry" /\ asked[r].op # "register"
      BY <1>7, <1>8, <1>9, <2>2
    <3>2. p \notin undone' /\ p \notin halved' => Kept(p, n)'
      BY <1>11, <2>1, <2>2, <3>1 DEF Sound
    <3>. QED
      BY <1>4, <1>7, <1>8, <3>1, <3>2 DEF Progress, Changing
  <2>3. CASE n # was
    <3>1. asked'[r].at = "readTeams"
      BY <1>7, <1>8, <2>3
    <3>2. Sound(p)' /\ asked[r].op # "register" => Kept(p, was)'
      BY <1>11, <2>1
    <3>. QED
      BY <1>4, <1>7, <1>8, <3>1, <3>2 DEF Progress, Changing
  <2>. QED
    BY <2>2, <2>3
<1>13. to \in {"readTeams", "files", "teams", "entry"} /\ (to # "entry" => asked[r].teams # asked[r].was)
  OBVIOUS
<1>. HIDE DEF to
<1>. QED
  BY <1>0, <1>1, <1>5, <1>6, <1>8, <1>9, <1>12, <1>13, InsideStep

(* The teams that go when there are fewer.                                 *)
LEMMA GoneTeams ==
  ASSUME NEW p, NEW n \in Nat, NEW was \in Nat, NEW q,
         q \in Years \X Clubs, p \in Years \X Clubs
  PROVE  /\ \A i \in Nat : <<q[1], q[2], i>> \in Season!TeamsOf(p, was) \ Season!TeamsOf(p, n) <=>
              q = p /\ n < i /\ 1 <= i /\ i <= was
         /\ \A m \in Nat : q # p =>
              Season!TeamsOf(q, m) \intersect (Season!TeamsOf(p, was) \ Season!TeamsOf(p, n)) = {}
         /\ Season!TeamsOf(p, n) \intersect (Season!TeamsOf(p, was) \ Season!TeamsOf(p, n)) = {}
<1>1. \A i \in Nat : <<q[1], q[2], i>> \in Season!TeamsOf(p, was) <=> q = p /\ 1 <= i /\ i <= was
  BY DEF Season!TeamsOf
<1>2. \A i \in Nat : <<q[1], q[2], i>> \in Season!TeamsOf(p, n) <=> q = p /\ 1 <= i /\ i <= n
  BY DEF Season!TeamsOf
<1>3. \A m \in Nat : q # p => Season!TeamsOf(q, m) \intersect (Season!TeamsOf(p, was) \ Season!TeamsOf(p, n)) = {}
  BY DEF Season!TeamsOf
<1>. QED
  BY <1>1, <1>2, <1>3

LEMMA FewerTeams ==
  ASSUME NEW p, NEW n \in Nat, NEW was \in Nat, n <= was
  PROVE  Season!TeamsOf(p, n) \subseteq Season!TeamsOf(p, was)
BY DEF Season!TeamsOf

LEMMA ReadTeamsSteps ==
  ASSUME RegistrationInv, NEW r \in Requests, Season!ReadTeams(r)
  PROVE  RegistrationInv'
<1>. DEFINE next == [asked[r] EXCEPT !.seen = team, !.at = "files"]
<1>0. /\ asked[r].at = "readTeams" /\ asked[r].op \in Season!RegistrationOps
      /\ asked' = [asked EXCEPT ![r] = next] /\ file' = file \ Season!Gone(r)
      /\ UNCHANGED <<doc, entry, team, lock, halved, undone>>
  BY DEF Season!ReadTeams, Season!At, Season!history
<1>1. Inside(r) /\ Registering(r) /\ Changing(r)
  BY <1>0 DEF Inside, Registering, Changing
<1>2. /\ Fits(r) /\ Progress(r) /\ asked[r].year \in Years /\ asked[r].club \in Clubs
      /\ Season!Of(r) \in Years \X Clubs /\ Season!Of(r) = <<asked[r].year, asked[r].club>>
      /\ asked[r].teams \in 0 .. MaxTeams /\ asked[r].was \in 0 .. MaxTeams
  BY <1>1, AloneInside
<1>3. /\ IsRequest(next) /\ next.at = "files" /\ next.op = asked[r].op /\ next.year = asked[r].year
      /\ next.club = asked[r].club /\ next.teams = asked[r].teams /\ next.was = asked[r].was
      /\ next.seen = team
  BY SeasonRequestIs DEF RegistrationInv, IsRequest
<1>. HIDE DEF next
<1>4. asked'[r] = next
  BY <1>0 DEF RegistrationInv, RequestTypes
<1>5. RegistrationTypes'
  BY <1>0 DEF RegistrationInv, RegistrationTypes
<1>6. PICK p, n, was : p = Season!Of(r) /\ n = asked[r].teams /\ was = asked[r].was
  OBVIOUS
<1>7. n \in Nat /\ was \in Nat /\ Season!Gone(r) = Season!TeamsOf(p, was) \ Season!TeamsOf(p, n)
  BY <1>2, <1>6, ReferenceAssumption DEF Season!Gone
<1>8. ASSUME NEW q \in Years \X Clubs, q # Season!Of(r) PROVE Stays(q)
  <2>1. \A m \in Nat : Season!TeamsOf(q, m) \intersect Season!Gone(r) = {}
    BY <1>2, <1>6, <1>7, <1>8, GoneTeams
  <2>2. \A m \in 0 .. MaxTeams : Season!TeamsOf(q, m) \subseteq file => Season!TeamsOf(q, m) \subseteq file'
    BY <1>0, <2>1, ReferenceAssumption
  <2>. QED
    BY <1>0, <2>2 DEF Stays, Numbers
<1>9. Progress(r)'
  <2>1. /\ Season!Of(r)' = p /\ n = asked'[r].teams /\ was = asked'[r].was
        /\ asked'[r].at = "files" /\ asked'[r].seen = team
        /\ (Season!Grows(r)' <=> n > was) /\ (Sound(p)' <=> Sound(p))
    BY <1>0, <1>3, <1>4, <1>6 DEF Season!Of, Season!Grows, Sound
  <2>2. ASSUME ~(n > was), Sound(p)
        PROVE  Numbers(p, team) = 1 .. was /\ Season!TeamsOf(p, n) \subseteq file'
    <3>1. asked[r].op # "register" /\ n <= was
      BY <1>1, <1>2, <1>6, <1>7, <2>2 DEF Fits
    <3>2. Kept(p, was)
      BY <1>0, <1>2, <1>6, <2>2, <3>1 DEF Progress
    <3>3. Season!TeamsOf(p, n) \subseteq Season!TeamsOf(p, was)
      BY <1>7, <3>1, FewerTeams
    <3>4. Season!TeamsOf(p, n) \intersect Season!Gone(r) = {}
      BY <1>7
    <3>. QED
      BY <1>0, <3>2, <3>3, <3>4 DEF Kept
  <2>3. n = doc'[asked'[r].year][asked'[r].club]
    BY <1>0, <1>1, <1>2, <1>3, <1>4, <1>6 DEF Progress
  <2>4. Numbers(p, team)' = Numbers(p, team) /\ Numbers(p, asked'[r].seen) = Numbers(p, team)
    BY <1>0, <2>1 DEF Numbers
  <2>. QED
    BY <2>1, <2>2, <2>3, <2>4 DEF Progress, Changing
<1>. QED
  BY <1>0, <1>1, <1>2, <1>3, <1>5, <1>6, <1>8, <1>9, InsideNext DEF Fits

LEMMA WriteFilesSteps ==
  ASSUME RegistrationInv, NEW r \in Requests, Season!WriteFiles(r)
  PROVE  RegistrationInv'
<1>0. /\ asked[r].at = "files" /\ asked[r].op \in Season!RegistrationOps /\ Season!Goto(r, "teams")
      /\ file' = IF Season!Grows(r) THEN file \union Season!TeamsOf(Season!Of(r), asked[r].teams) ELSE file
      /\ UNCHANGED <<doc, entry, team, lock, halved, undone>>
  BY DEF Season!WriteFiles, Season!At, Season!history
<1>1. Inside(r) /\ Registering(r) /\ Changing(r)
  BY <1>0 DEF Inside, Registering, Changing
<1>2. Fits(r) /\ Progress(r)
  BY <1>1, AloneInside
<1>3. RegistrationTypes'
  BY <1>0 DEF RegistrationInv, RegistrationTypes
<1>4. \A q \in Years \X Clubs : Stays(q)
  BY <1>0 DEF Stays, Numbers
<1>5. PICK p, n, was, seen :
        p = Season!Of(r) /\ n = asked[r].teams /\ was = asked[r].was /\ seen = asked[r].seen
  OBVIOUS
<1>6. /\ asked'[r].at = "teams" /\ n = asked'[r].teams /\ was = asked'[r].was /\ Season!Of(r)' = p
      /\ asked'[r].year = asked[r].year /\ asked'[r].club = asked[r].club /\ seen = asked'[r].seen
      /\ (Season!Grows(r)' <=> Season!Grows(r))
  BY <1>0, <1>5, SameRequest
<1>7. Progress(r)'
  <2>1. n = doc'[asked'[r].year][asked'[r].club]
    BY <1>0, <1>1, <1>2, <1>5, <1>6 DEF Progress
  <2>2. Sound(p)' <=> Sound(p)
    BY <1>0 DEF Sound
  <2>3. Season!Grows(r) => Season!TeamsOf(p, n) \subseteq file'
    BY <1>0, <1>5
  <2>4. ~Season!Grows(r) /\ Sound(p) => Numbers(p, seen) = 1 .. was /\ Season!TeamsOf(p, n) \subseteq file'
    BY <1>0, <1>2, <1>5 DEF Progress
  <2>. QED
    BY <1>6, <2>1, <2>2, <2>3, <2>4 DEF Progress, Changing
<1>. QED
  BY <1>0, <1>1, <1>2, <1>3, <1>4, <1>7, InsideStep DEF Fits

(* What the new list of teams says of the pair it is written for.          *)
LEMMA ListedAnew ==
  ASSUME RegistrationInv, NEW r \in Requests, Inside(r), asked[r].teams # asked[r].was,
         ~Season!Grows(r) => Numbers(Season!Of(r), asked[r].seen) = 1 .. asked[r].was
  PROVE  \A own \in SUBSET {<<asked[r].year, asked[r].club, 0>>} :
           Numbers(Season!Of(r), Season!TeamList(r) \ own) = 1 .. asked[r].teams
<1>0. PICK p, n, was, seen :
        p = Season!Of(r) /\ n = asked[r].teams /\ was = asked[r].was /\ seen = asked[r].seen
  OBVIOUS
<1>. SUFFICES ASSUME NEW own \in SUBSET {<<asked[r].year, asked[r].club, 0>>}
              PROVE  Numbers(p, Season!TeamList(r) \ own) = 1 .. n
  BY <1>0
<1>1. /\ p \in Years \X Clubs /\ p = <<asked[r].year, asked[r].club>> /\ n \in 0 .. MaxTeams /\ was \in 0 .. MaxTeams
      /\ MaxTeams \in Nat /\ n # was /\ (~Season!Grows(r) => Numbers(p, seen) = 1 .. was)
  BY <1>0, AloneInside, ReferenceAssumption
<1>2. ASSUME NEW i \in 1 .. MaxTeams
      PROVE  <<p[1], p[2], i>> \in Season!TeamList(r) \ own <=> i \in 1 .. n
  <2>0. i \in Nat /\ i # 0 /\ n \in Nat /\ was \in Nat
    BY <1>1
  <2>1. <<p[1], p[2], i>> \notin own
    BY <2>0
  <2>2. <<p[1], p[2], i>> \in Season!TeamsOf(p, n) <=> i \in 1 .. n
    BY DEF Season!TeamsOf
  <2>3. CASE Season!Grows(r)
    <3>1. Season!TeamList(r) = {t \in seen : <<t[1], t[2]>> # p} \union Season!TeamsOf(p, n)
      BY <1>0, <2>3 DEF Season!TeamList
    <3>2. <<p[1], p[2], i>> \notin {t \in seen : <<t[1], t[2]>> # p}
      BY <1>1
    <3>. QED
      BY <2>1, <2>2, <3>1, <3>2
  <2>4. CASE ~Season!Grows(r)
    <3>1. Season!TeamList(r) = seen \ (Season!TeamsOf(p, was) \ Season!TeamsOf(p, n))
      BY <1>0, <2>4 DEF Season!TeamList, Season!Gone
    <3>2. n < was
      BY <1>0, <1>1, <2>4 DEF Season!Grows
    <3>3. <<p[1], p[2], i>> \in seen <=> i \in 1 .. was
      BY <1>1, <2>4 DEF Numbers
    <3>4. <<p[1], p[2], i>> \in Season!TeamsOf(p, was) <=> i \in 1 .. was
      BY DEF Season!TeamsOf
    <3>. QED
      BY <1>1, <2>0, <2>1, <2>2, <3>1, <3>2, <3>3, <3>4
  <2>. QED
    BY <2>3, <2>4
<1>3. \A i \in 1 .. n : i \in 1 .. MaxTeams
  BY <1>1
<1>. QED
  BY <1>2, <1>3 DEF Numbers

LEMMA WriteTeamsSteps ==
  ASSUME RegistrationInv, NEW r \in Requests, Season!WriteTeams(r)
  PROVE  RegistrationInv'
<1>0. /\ asked[r].at = "teams" /\ asked[r].op \in Season!RegistrationOps /\ Season!Goto(r, "entry")
      /\ UNCHANGED <<doc, entry, file, lock, halved>>
  BY DEF Season!WriteTeams, Season!At
<1>1. Inside(r) /\ Registering(r) /\ Changing(r)
  BY <1>0 DEF Inside, Registering, Changing
<1>2. /\ Fits(r) /\ Progress(r) /\ asked[r].year \in Years /\ asked[r].club \in Clubs
      /\ Season!Of(r) \in Years \X Clubs /\ Season!Of(r) = <<asked[r].year, asked[r].club>>
      /\ asked[r].teams \in 0 .. MaxTeams /\ asked[r].was \in 0 .. MaxTeams
  BY <1>1, AloneInside
<1>3. PICK own \in SUBSET {<<asked[r].year, asked[r].club, 0>>} :
        /\ team' = Season!TeamList(r) \ own
        /\ undone' = undone \union Season!Reverts(r, Season!TeamList(r))
  <2>1. SUBSET (IF Season!Grows(r) THEN {} ELSE {<<asked[r].year, asked[r].club, 0>>})
          \subseteq SUBSET {<<asked[r].year, asked[r].club, 0>>}
    OBVIOUS
  <2>. QED
    BY <2>1 DEF Season!WriteTeams
<1>4. RegistrationTypes'
  BY <1>0 DEF RegistrationInv, RegistrationTypes
<1>5. ASSUME NEW q \in Years \X Clubs, q # Season!Of(r) PROVE Stays(q)
  <2>1. ASSUME q \notin undone', NEW i \in 1 .. MaxTeams
        PROVE  <<q[1], q[2], i>> \in team' <=> <<q[1], q[2], i>> \in team
    <3>1. q \notin Season!Reverts(r, Season!TeamList(r))
      BY <1>3, <2>1
    <3>2. <<q[1], q[2], i>> \in Season!TeamList(r) <=> <<q[1], q[2], i>> \in team
      BY <1>5, <2>1, <3>1 DEF Season!Reverts
    <3>3. <<q[1], q[2], i>> \notin own
      <4>1. i # 0
        BY <2>1, ReferenceAssumption
      <4>. QED
        BY <4>1
    <3>. QED
      BY <1>3, <3>2, <3>3
  <2>2. q \notin undone' => Numbers(q, team') = Numbers(q, team)
    BY <2>1 DEF Numbers
  <2>3. q \in undone => q \in undone'
    BY <1>3
  <2>. QED
    BY <1>0, <2>2, <2>3 DEF Stays
<1>6. PICK p, n, was, seen :
        p = Season!Of(r) /\ n = asked[r].teams /\ was = asked[r].was /\ seen = asked[r].seen
  OBVIOUS
<1>7. /\ asked'[r].at = "entry" /\ n = asked'[r].teams /\ was = asked'[r].was /\ Season!Of(r)' = p
      /\ asked'[r].year = asked[r].year /\ asked'[r].club = asked[r].club /\ asked'[r].op = asked[r].op
  BY <1>0, <1>6, SameRequest
<1>8. Progress(r)'
  <2>1. n = doc'[asked'[r].year][asked'[r].club]
    BY <1>0, <1>1, <1>2, <1>6, <1>7 DEF Progress
  <2>2. p \notin undone' => p \notin undone
    BY <1>3
  <2>3. ASSUME p \notin undone', asked[r].op = "register" \/ p \notin halved'
        PROVE  Kept(p, n)'
    <3>1. n # was /\ n \in 0 .. MaxTeams /\ was \in 0 .. MaxTeams /\ MaxTeams \in Nat
      BY <1>0, <1>1, <1>2, <1>6, ReferenceAssumption DEF Fits
    <3>2. asked[r].op = "register" => Season!Grows(r)
      BY <1>1, <1>2, <1>6, <3>1 DEF Fits, Season!Grows
    <3>3. Season!Grows(r) \/ Sound(p)
      BY <1>0, <2>2, <2>3, <3>2 DEF Sound
    <3>4. /\ ~Season!Grows(r) => Numbers(p, seen) = 1 .. was
          /\ Season!TeamsOf(p, n) \subseteq file
      BY <1>0, <1>2, <1>6, <3>3 DEF Progress
    <3>5. Numbers(p, Season!TeamList(r) \ own) = 1 .. n
      <4>1. asked[r].teams # asked[r].was /\ (~Season!Grows(r) => Numbers(Season!Of(r), asked[r].seen) = 1 .. asked[r].was)
        BY <1>6, <3>1, <3>4
      <4>2. Numbers(Season!Of(r), Season!TeamList(r) \ own) = 1 .. asked[r].teams
        BY <1>1, <4>1, ListedAnew
      <4>. QED
        BY <1>6, <4>2
    <3>6. Numbers(p, team') = 1 .. n /\ Season!TeamsOf(p, n) \subseteq file'
      BY <1>0, <1>3, <3>4, <3>5
    <3>. QED
      BY <3>6 DEF Kept, Numbers
  <2>. QED
    BY <1>7, <2>1, <2>3 DEF Progress, Changing
<1>. QED
  BY <1>0, <1>1, <1>2, <1>4, <1>5, <1>8, InsideStep DEF Fits

LEMMA WriteEntrySteps ==
  ASSUME RegistrationInv, NEW r \in Requests, Season!WriteEntry(r)
  PROVE  RegistrationInv'
<1>0. /\ asked[r].at = "entry" /\ asked[r].op \in Season!RegistrationOps /\ Season!Finish(r)
      /\ entry' = [entry EXCEPT ![asked[r].year][asked[r].club] = asked[r].teams]
      /\ halved' = IF asked[r].op = "register" THEN halved \ {Season!Of(r)} ELSE halved
      /\ UNCHANGED <<doc, file, team, undone>>
  BY DEF Season!WriteEntry, Season!At
<1>1. Inside(r) /\ Registering(r) /\ Changing(r)
  BY <1>0 DEF Inside, Registering, Changing
<1>2. /\ Fits(r) /\ Progress(r) /\ asked[r].year \in Years /\ asked[r].club \in Clubs
      /\ Season!Of(r) \in Years \X Clubs /\ Season!Of(r) = <<asked[r].year, asked[r].club>>
      /\ asked[r].teams \in 0 .. MaxTeams
  BY <1>1, AloneInside
<1>3. entry \in [Years -> [Clubs -> 0 .. MaxTeams]]
  BY DEF RegistrationInv, RegistrationTypes
<1>4. /\ entry' \in [Years -> [Clubs -> 0 .. MaxTeams]]
      /\ entry'[asked[r].year][asked[r].club] = asked[r].teams
      /\ \A q \in Years \X Clubs : q # Season!Of(r) => entry'[q[1]][q[2]] = entry[q[1]][q[2]]
  BY <1>0, <1>2, <1>3
<1>5. RegistrationTypes'
  BY <1>0, <1>4 DEF RegistrationInv, RegistrationTypes
<1>6. \A q \in Years \X Clubs : q # Season!Of(r) => Stays(q)
  BY <1>0, <1>4 DEF Stays, Numbers
<1>7. PICK p, n : p = Season!Of(r) /\ n = asked[r].teams
  OBVIOUS
<1>8. ASSUME Sound(p)' PROVE Whole(p)'
  <2>1. p \notin undone /\ (asked[r].op = "register" \/ p \notin halved)
    BY <1>0, <1>8 DEF Sound
  <2>2. Kept(p, n) /\ n = doc[asked[r].year][asked[r].club]
    BY <1>0, <1>1, <1>2, <1>7, <2>1 DEF Progress
  <2>3. Kept(p, n)'
    BY <1>0, <2>2 DEF Kept, Numbers
  <2>4. entry'[p[1]][p[2]] = n /\ doc'[p[1]][p[2]] = n
    BY <1>0, <1>2, <1>4, <1>7, <2>2
  <2>. QED
    BY <2>3, <2>4 DEF Whole
<1>9. \A q \in Years \X Clubs : q # p => ~(Changing(r) /\ Season!Of(r) = q) /\ Stays(q)
  BY <1>6, <1>7
<1>10. \A q \in Years \X Clubs : (Changing(r) /\ Season!Of(r) = q) \/ ~Stays(q) => ~Sound(q)' \/ Whole(q)'
  BY <1>8, <1>9
<1>11. \A q \in Years \X Clubs : Stays(q) \/ (Inside(r) /\ Season!Of(r) = q)
  BY <1>1, <1>7, <1>9
<1>. QED
  BY <1>0, <1>5, <1>10, <1>11, LocksGivenBack, SeasonIdleIs, RegistrationStep
(* Teams with names of their own: number 0 of their club.                  *)
LEMMA TeamListSteps ==
  ASSUME RegistrationInv, NEW r \in Requests,
         Season!WriteTeamFile(r) \/ Season!ReadTeamList(r) \/ Season!WriteTeamList(r)
  PROVE  RegistrationInv'
<1>0. /\ RequestTypes /\ RegistrationTypes /\ asked[r].op \in {"addTeam", "dropTeam"} /\ Fits(r)
      /\ ~Registering(r) /\ ~Changing(r) /\ ~Inside(r)
      /\ UNCHANGED <<doc, entry, halved>>
      /\ lock \in [Years -> Requests \union {None}] /\ MaxTeams \in Nat
  BY ReferenceAssumption DEF Season!WriteTeamFile, Season!ReadTeamList, Season!WriteTeamList,
     Season!At, Season!RegistrationOps,
     Registering, Changing, Inside, Season!history, RegistrationInv, RequestTypes, Season!registrations
<1>1. RegistrationTypes'
  BY <1>0 DEF RegistrationTypes
<1>2. ASSUME \A p \in Years \X Clubs : Stays(p), Season!Finish(r)
      PROVE  RegistrationInv'
  BY <1>0, <1>1, <1>2, LocksGivenBack, SeasonIdleIs, RegistrationStep
<1>3. ASSUME \A p \in Years \X Clubs : Stays(p),
             NEW next, IsRequest(next), asked' = [asked EXCEPT ![r] = next], next.op = asked[r].op, UNCHANGED lock
      PROVE  RegistrationInv'
  <2>1. asked'[r] = next
    BY <1>0, <1>3 DEF RequestTypes
  <2>2. Fits(r)' /\ ~Registering(r)'
    BY <1>0, <1>3, <2>1 DEF Fits, Registering
  <2>. QED
    BY <1>0, <1>1, <1>3, <2>2, RegistrationStep
<1>4. ASSUME \A p \in Years \X Clubs : Stays(p), NEW at, Season!Goto(r, at), UNCHANGED lock
      PROVE  RegistrationInv'
  <2>1. PICK next : IsRequest(next) /\ asked' = [asked EXCEPT ![r] = next] /\ next.op = asked[r].op
    BY <1>0, <1>4, SeasonGoes
  <2>. QED
    BY <1>3, <1>4, <2>1
<1>5. CASE Season!WriteTeamFile(r)
  <2>1. PICK y, c : y = asked[r].year /\ c = asked[r].club
    OBVIOUS
  <2>2. /\ file' = file \union {<<y, c, 0>>} \/ file' = file \ {<<y, c, 0>>}
        /\ UNCHANGED <<team, undone>>
    BY <1>5, <2>1 DEF Season!WriteTeamFile, Season!history
  <2>3. \A p : \A n \in 0 .. MaxTeams : <<y, c, 0>> \notin Season!TeamsOf(p, n)
    BY DEF Season!TeamsOf
  <2>4. \A p \in Years \X Clubs : Stays(p)
    BY <1>0, <2>2, <2>3 DEF Stays, Numbers
  <2>. QED
    BY <1>2, <1>4, <1>5, <2>4 DEF Season!WriteTeamFile
<1>6. CASE Season!ReadTeamList(r)
  <2>. DEFINE next == [asked[r] EXCEPT !.seen = team, !.at = "teams"]
  <2>1. /\ asked' = [asked EXCEPT ![r] = next]
        /\ UNCHANGED <<Season!registrations, lock, halved, undone>>
    BY <1>6 DEF Season!ReadTeamList, Season!history
  <2>2. IsRequest(next) /\ next.op = asked[r].op
    BY <1>0, SeasonRequestIs DEF IsRequest
  <2>. HIDE DEF next
  <2>. QED
    BY <1>3, <2>1, <2>2, Untouched
<1>7. CASE Season!WriteTeamList(r)
  <2>1. PICK own, list :
          /\ team' = list /\ UNCHANGED file
          /\ undone' = undone \union Season!Reverts(r, list) \union
               (IF \E n \in 1 .. MaxTeams : <<asked[r].year, asked[r].club, n>> \in
                                              (team \ list) \union (list \ team)
                THEN {Season!Of(r)} ELSE {})
    BY <1>7 DEF Season!WriteTeamList
  <2>2. ASSUME NEW p \in Years \X Clubs, p \notin undone', NEW n \in 1 .. MaxTeams
        PROVE  <<p[1], p[2], n>> \in list <=> <<p[1], p[2], n>> \in team
    <3>1. CASE p = Season!Of(r)
      <4>1. p[1] = asked[r].year /\ p[2] = asked[r].club
        BY <3>1 DEF Season!Of
      <4>. QED
        BY <2>1, <2>2, <3>1, <4>1
    <3>2. CASE p # Season!Of(r)
      <4>1. p \notin Season!Reverts(r, list)
        BY <2>1, <2>2
      <4>. QED
        BY <2>2, <3>2, <4>1 DEF Season!Reverts
    <3>. QED
      BY <3>1, <3>2
  <2>3. ASSUME NEW p \in Years \X Clubs PROVE Stays(p)
    <3>1. p \notin undone' => Numbers(p, team') = Numbers(p, team)
      BY <2>1, <2>2 DEF Numbers
    <3>2. p \in undone => p \in undone'
      BY <2>1
    <3>. QED
      BY <1>0, <2>1, <3>1, <3>2 DEF Stays
  <2>. QED
    BY <1>2, <1>4, <1>7, <2>3 DEF Season!WriteTeamList
<1>. QED
  BY <1>5, <1>6, <1>7

(* A request that breaks off within a registration tears it.               *)
LEMMA SeasonBreaksSteps ==
  ASSUME RegistrationInv, NEW r \in Requests, Season!Breaks(r)
  PROVE  RegistrationInv'
<1>0. /\ Season!Finish(r) /\ UNCHANGED <<doc, entry, file, team, undone>>
      /\ halved' = IF asked[r].op \in Season!RegistrationOps /\ asked[r].at \notin {"lock", "begin", "doc"}
                  THEN halved \union {Season!Of(r)} ELSE halved
  BY DEF Season!Breaks, Season!registrations
<1>1. RegistrationTypes'
  BY <1>0 DEF RegistrationInv, RegistrationTypes
<1>2. \A p \in Years \X Clubs : Stays(p)
  BY <1>0 DEF Stays, Numbers
<1>3. ASSUME NEW p \in Years \X Clubs, Changing(r), Season!Of(r) = p
      PROVE  ~Sound(p)'
  BY <1>0, <1>3 DEF Changing, Registering, Sound
<1>. QED
  BY <1>0, <1>1, <1>2, <1>3, LocksGivenBack, SeasonIdleIs, RegistrationStep

LEMMA RegistrationInit == Season!Init => RegistrationInv
<1>. SUFFICES ASSUME Season!Init PROVE RegistrationInv
  OBVIOUS
<1>1. /\ doc = [y \in Years |-> [c \in Clubs |-> 0]] /\ entry = doc /\ team = {}
      /\ lock = [y \in Years |-> None] /\ asked = [r \in Requests |-> Season!Idle]
      /\ 0 \in 0 .. MaxTeams /\ MaxTeams \in Nat
  BY ReferenceAssumption DEF Season!Init
<1>2. RequestTypes
  BY <1>1, SeasonIdleIs DEF RequestTypes
<1>3. RegistrationTypes
  BY <1>1 DEF RegistrationTypes
<1>4. \A r \in Requests : ~Registering(r) /\ Fits(r)
  BY <1>1, SeasonIdleIs DEF Registering, Fits, Season!RegistrationOps
<1>5. ASSUME NEW p \in Years \X Clubs PROVE Whole(p)
  <2>1. doc[p[1]][p[2]] = 0 /\ entry[p[1]][p[2]] = 0
    BY <1>1
  <2>2. 1 .. 0 = {}
    OBVIOUS
  <2>3. Season!TeamsOf(p, 0) = {}
    BY <2>2 DEF Season!TeamsOf
  <2>4. Numbers(p, team) = {}
    BY <1>1 DEF Numbers
  <2>. QED
    BY <2>1, <2>2, <2>3, <2>4 DEF Whole, Kept
<1>. QED
  BY <1>2, <1>3, <1>4, <1>5 DEF RegistrationInv, Agreed

LEMMA RegistrationSame ==
  ASSUME RegistrationInv, UNCHANGED Season!vars
  PROVE  RegistrationInv'
<1>1. UNCHANGED <<doc, entry, file, team, lock, asked, halved, undone>>
  BY DEF Season!vars, Season!registrations, Season!history
<1>2. /\ RequestTypes' /\ RegistrationTypes'
  BY <1>1 DEF RegistrationInv, RequestTypes, RegistrationTypes, IsRequest
<1>3. ASSUME NEW r \in Requests PROVE Fits(r)' /\ (Registering(r)' => Progress(r)')
  <2>1. Fits(r) /\ (Registering(r) => Progress(r))
    BY DEF RegistrationInv
  <2>2. Fits(r)' /\ (Registering(r)' <=> Registering(r))
    BY <1>1, <2>1 DEF Fits, Registering
  <2>3. \A p \in Years \X Clubs : Stays(p)
    BY <1>1 DEF Stays, Numbers
  <2>4. Registering(r) /\ Inside(r) => Season!Of(r) \in Years \X Clubs
    BY AloneInside
  <2>5. asked'[r] = asked[r]
    BY <1>1
  <2>. QED
    BY <2>2, <2>3, <2>4, <2>5, ProgressStays
<1>4. Agreed'
  BY <1>1 DEF RegistrationInv, Agreed, Sound, Changing, Registering, Season!Of, Whole, Kept, Numbers
<1>. QED
  BY <1>2, <1>3, <1>4 DEF RegistrationInv

LEMMA RegistrationNext == RegistrationInv /\ [Season!Next]_Season!vars => RegistrationInv'
<1>. SUFFICES ASSUME RegistrationInv, [Season!Next]_Season!vars PROVE RegistrationInv'
  OBVIOUS
<1>1. CASE UNCHANGED Season!vars
  BY <1>1, RegistrationSame
<1>2. CASE Season!AtRest
  BY <1>2, RegistrationSame DEF Season!AtRest
<1>3. ASSUME NEW r \in Requests, NEW y \in Years, Season!AskSeason(r, y) PROVE RegistrationInv'
  BY <1>3, SeasonAskSteps
<1>4. ASSUME NEW r \in Requests, NEW c \in Clubs, Season!AskClub(r, c) PROVE RegistrationInv'
  BY <1>4, SeasonAskSteps
<1>5. ASSUME NEW r \in Requests, NEW y \in Years, NEW c \in Clubs,
             Season!AskRegistration(r, y, c) \/ Season!AskTeam(r, y, c)
      PROVE  RegistrationInv'
  BY <1>5, SeasonAskSteps
<1>6. ASSUME NEW r \in Requests,
             SeasonMoves(r) \/ ClubMoves(r) \/ RegistrationMoves(r)
      PROVE  RegistrationInv'
  BY <1>6, SeasonSteps, ClubSteps, TakeLockSteps, BeginSteps, WriteDocSteps, ReadTeamsSteps,
     WriteFilesSteps, WriteTeamsSteps, WriteEntrySteps, TeamListSteps, SeasonBreaksSteps DEF RegistrationMoves
<1>. QED
  BY <1>1, <1>2, <1>3, <1>4, <1>5, <1>6
     DEF Season!Next, SeasonMoves, ClubMoves, RegistrationMoves

-----------------------------------------------------------------------------
(* The active season.                                                      *)
Seasonal(r) == asked[r].op \in Season!SeasonOps

(* What a request has read and not yet written back, alone.                *)
Deactivates(r) ==
  asked[r].op \in {"createSeason", "updateSeason"} /\ asked[r].active =>
    /\ asked[r].at = "deactivate" => Season!Active(asked[r].seen) \subseteq asked[r].todo \union {asked[r].year}
    /\ asked[r].at \in {"writeOthers", "index"} => Season!Active(asked[r].seen) \subseteq {asked[r].year}
    /\ asked[r].at \in {"blob", "readIndex"} => Season!Active(listed) \subseteq {asked[r].year}

HasRead(r) ==
  Seasonal(r) =>
    /\ asked[r].year \in Years /\ asked[r].at # "lock"
    /\ asked[r].at = "remove" => asked[r].op = "deleteSeason"
    /\ asked[r].at \in {"deactivate", "writeOthers", "index"} => asked[r].seen \in [Years -> Season!States]

ActivationInv ==
  /\ listed \in [Years -> Season!States]
  /\ \A r \in Requests : HasRead(r)
  /\ ~overlap => \A r \in Requests :
       Seasonal(r) => Deactivates(r) /\ \A q \in Requests \ {r} : ~Seasonal(q)

LEMMA NowOnly ==
  ASSUME RegistrationInv, ActivationInv, NEW r \in Requests, Season!WriteSeasons(r),
         asked[r].op \in {"createSeason", "updateSeason"}, asked[r].active, ~overlap
  PROVE  Season!Active(listed') = {asked[r].year}
<1>1. /\ Seasonal(r) /\ asked[r].at = "index" /\ Season!Listing(r) = "active"
      /\ listed' = [asked[r].seen EXCEPT ![asked[r].year] = "active"]
  BY DEF Season!WriteSeasons, Season!At, Seasonal, Season!Listing, Season!SeasonOps
<1>2. /\ asked[r].year \in Years /\ asked[r].seen \in [Years -> Season!States]
      /\ Season!Active(asked[r].seen) \subseteq {asked[r].year}
  BY <1>1 DEF ActivationInv, HasRead, Deactivates
<1>. QED
  BY <1>1, <1>2 DEF Season!Active

(* A step that is not of a request for a season.                           *)
LEMMA OthersStep ==
  ASSUME RegistrationInv, ActivationInv, NEW r \in Requests, NEW next,
         asked' = [asked EXCEPT ![r] = next],
         next.op \notin Season!SeasonOps, UNCHANGED listed, overlap => overlap'
  PROVE  ActivationInv'
<1>1. asked'[r] = next /\ \A q \in Requests \ {r} : asked'[q] = asked[q]
  BY DEF RegistrationInv, RequestTypes
<1>2. ~Seasonal(r)' /\ \A q \in Requests \ {r} : (Seasonal(q)' <=> Seasonal(q))
  BY <1>1 DEF Seasonal
<1>3. \A q \in Requests \ {r} : HasRead(q)' /\ (Deactivates(q) => Deactivates(q)')
  BY <1>1, <1>2 DEF ActivationInv, HasRead, Deactivates, Season!Active
<1>4. HasRead(r)'
  BY <1>2 DEF HasRead
<1>5. \A q \in Requests : HasRead(q)'
  BY <1>3, <1>4
<1>6. ASSUME ~overlap', NEW q \in Requests, Seasonal(q)'
      PROVE  Deactivates(q)' /\ \A o \in Requests \ {q} : ~Seasonal(o)'
  <2>1. q # r /\ Seasonal(q) /\ ~overlap
    BY <1>2, <1>6
  <2>2. Deactivates(q) /\ \A o \in Requests \ {q} : ~Seasonal(o)
    BY <2>1 DEF ActivationInv
  <2>. QED
    BY <1>2, <1>3, <2>1, <2>2
<1>7. listed' \in [Years -> Season!States]
  BY DEF ActivationInv
<1>. QED
  BY <1>5, <1>6, <1>7 DEF ActivationInv

(* A step of a request for a season: alone, or claimed nothing of.         *)
LEMMA SeasonalStep ==
  ASSUME RegistrationInv, ActivationInv, NEW r \in Requests, NEW next,
         asked' = [asked EXCEPT ![r] = next],
         ~overlap' => \A q \in Requests \ {r} : ~Seasonal(q),
         listed' \in [Years -> Season!States], HasRead(r)', overlap => overlap',
         ~overlap' /\ Seasonal(r)' => Deactivates(r)'
  PROVE  ActivationInv'
<1>1. asked'[r] = next /\ \A q \in Requests \ {r} : asked'[q] = asked[q]
  BY DEF RegistrationInv, RequestTypes
<1>2. \A q \in Requests \ {r} : HasRead(q)' /\ (Seasonal(q)' <=> Seasonal(q))
  BY <1>1 DEF ActivationInv, HasRead, Seasonal
<1>3. \A q \in Requests : HasRead(q)'
  BY <1>2
<1>4. ASSUME ~overlap', NEW q \in Requests, Seasonal(q)'
      PROVE  Deactivates(q)' /\ \A o \in Requests \ {q} : ~Seasonal(o)'
  <2>1. \A o \in Requests \ {r} : ~Seasonal(o)'
    BY <1>2, <1>4
  <2>. QED
    BY <1>4, <2>1
<1>. QED
  BY <1>3, <1>4 DEF ActivationInv

LEMMA AloneAtIt ==
  ASSUME ActivationInv, NEW r \in Requests, Seasonal(r)
  PROVE  /\ HasRead(r) /\ listed \in [Years -> Season!States] /\ (~overlap => Deactivates(r))
         /\ ~overlap => \A q \in Requests \ {r} : ~Seasonal(q)
BY DEF ActivationInv

LEMMA ActivationSteps ==
  ASSUME RegistrationInv, ActivationInv, NEW r \in Requests,
         SeasonMoves(r)
  PROVE  ActivationInv'
<1>0. /\ RequestTypes /\ IsRequest(asked[r]) /\ Seasonal(r) /\ UNCHANGED overlap
      /\ HasRead(r) /\ listed \in [Years -> Season!States] /\ (~overlap => Deactivates(r))
      /\ ~overlap => \A q \in Requests \ {r} : ~Seasonal(q)
  BY SeasonRequestIs, AloneAtIt DEF SeasonMoves, Season!ReadOthers, Season!Deactivate,
     Season!WriteOthers, Season!WriteSeason, Season!RemoveSeason, Season!ReadSeasons,
     Season!WriteSeasons, Season!At, Seasonal, Season!history, RegistrationInv
<1>1. asked[r].year \in Years
  BY <1>0 DEF HasRead
<1>2. ASSUME NEW next, asked' = [asked EXCEPT ![r] = next], listed' \in [Years -> Season!States],
             HasRead(r)', ~overlap => Deactivates(r)'
      PROVE  ActivationInv'
  BY <1>0, <1>2, SeasonalStep
<1>3. CASE Season!WriteSeasons(r)
  <2>1. asked' = [asked EXCEPT ![r] = Season!Idle] /\ asked[r].at = "index"
    BY <1>3 DEF Season!WriteSeasons, Season!Finish, Season!At
  <2>2. asked'[r] = Season!Idle
    BY <1>0, <2>1 DEF RequestTypes
  <2>3. HasRead(r)' /\ Deactivates(r)'
    BY <2>2, SeasonIdleIs DEF HasRead, Deactivates, Seasonal, Season!SeasonOps
  <2>4. Season!Listing(r) \in Season!States
    BY DEF Season!Listing, Season!States
  <2>5. asked[r].seen \in [Years -> Season!States]
    BY <1>0, <2>1 DEF HasRead
  <2>6. listed' \in [Years -> Season!States]
    BY <1>0, <1>1, <1>3, <2>4, <2>5 DEF Season!WriteSeasons
  <2>. QED
    BY <1>2, <2>1, <2>3, <2>6
<1>4. CASE Season!WriteOthers(r) \/ Season!WriteSeason(r) \/ Season!RemoveSeason(r)
  <2>1. PICK at : Season!Goto(r, at) /\ at \in {"blob", "readIndex"}
    BY <1>4 DEF Season!WriteOthers, Season!WriteSeason, Season!RemoveSeason
  <2>2. PICK next : /\ IsRequest(next) /\ asked' = [asked EXCEPT ![r] = next] /\ asked'[r] = next
                    /\ next.at = at /\ next.op = asked[r].op /\ next.year = asked[r].year
                    /\ next.seen = asked[r].seen /\ next.active = asked[r].active
    BY <1>0, <2>1, SeasonGoes
  <2>3. HasRead(r)'
    BY <1>1, <2>1, <2>2 DEF HasRead
  <2>4. /\ listed' \in [Years -> Season!States]
        /\ ~overlap /\ asked[r].op \in {"createSeason", "updateSeason"} /\ asked[r].active =>
             Season!Active(listed') \subseteq {asked[r].year}
    <3>1. CASE Season!WriteOthers(r)
      <4>1. asked[r].at = "writeOthers" /\ listed' = asked[r].seen
        BY <3>1 DEF Season!WriteOthers, Season!At
      <4>. QED
        BY <1>0, <4>1 DEF HasRead, Deactivates
    <3>2. CASE Season!WriteSeason(r)
      <4>1. asked[r].at = "blob" /\ listed' = listed
        BY <3>2 DEF Season!WriteSeason, Season!At
      <4>. QED
        BY <1>0, <4>1 DEF Deactivates
    <3>3. CASE Season!RemoveSeason(r)
      <4>1. asked[r].at = "remove" /\ listed' = listed
        BY <3>3 DEF Season!RemoveSeason, Season!At
      <4>2. asked[r].op \notin {"createSeason", "updateSeason"}
        BY <1>0, <4>1 DEF HasRead
      <4>. QED
        BY <1>0, <4>1, <4>2
    <3>. QED
      BY <1>4, <3>1, <3>2, <3>3
  <2>5. ~overlap => Deactivates(r)'
    BY <2>1, <2>2, <2>4 DEF Deactivates
  <2>. QED
    BY <1>2, <2>2, <2>3, <2>4, <2>5
<1>5. CASE Season!ReadOthers(r)
  <2>. DEFINE others == Season!Active(listed) \ (IF asked[r].op = "updateSeason" THEN {asked[r].year} ELSE {})
              to == IF others = {} THEN "blob" ELSE "deactivate"
              next == [asked[r] EXCEPT !.todo = others, !.seen = listed, !.at = to]
  <2>1. Season!Active(listed) \subseteq others \union {asked[r].year}
    OBVIOUS
  <2>2. asked' = [asked EXCEPT ![r] = next] /\ UNCHANGED listed
    BY <1>5 DEF Season!ReadOthers, Season!years
  <2>3. (others = {} => to = "blob") /\ (others # {} => to = "deactivate")
    OBVIOUS
  <2>. HIDE DEF others, to
  <2>4. /\ next.op = asked[r].op /\ next.year = asked[r].year /\ next.seen = listed
        /\ next.at = to /\ next.todo = others
    BY <1>0 DEF IsRequest
  <2>. HIDE DEF next
  <2>5. asked'[r] = next
    BY <1>0, <2>2 DEF RequestTypes
  <2>6. HasRead(r)'
    BY <1>0, <1>1, <2>3, <2>4, <2>5 DEF HasRead
  <2>7. Deactivates(r)'
    BY <2>1, <2>2, <2>3, <2>4, <2>5 DEF Deactivates
  <2>. QED
    BY <1>0, <1>2, <2>2, <2>6, <2>7
<1>6. CASE Season!Deactivate(r)
  <2>1. /\ asked[r].at = "deactivate" /\ UNCHANGED listed
        /\ \E y \in asked[r].todo :
             asked' = [asked EXCEPT ![r].todo = @ \ {y}, ![r].seen[y] = "inactive",
                       ![r].at = IF asked[r].todo = {y} THEN "writeOthers" ELSE "deactivate"]
    BY <1>6 DEF Season!Deactivate, Season!At
  <2>2. PICK y \in asked[r].todo :
          asked' = [asked EXCEPT ![r].todo = @ \ {y}, ![r].seen[y] = "inactive",
                    ![r].at = IF asked[r].todo = {y} THEN "writeOthers" ELSE "deactivate"]
    BY <2>1
  <2>3. PICK to : to = IF asked[r].todo = {y} THEN "writeOthers" ELSE "deactivate"
    OBVIOUS
  <2>4. PICK after : after = [asked[r].seen EXCEPT ![y] = "inactive"]
    OBVIOUS
  <2>5. PICK next : next = [asked[r] EXCEPT !.todo = @ \ {y}, !.seen[y] = "inactive", !.at = to]
    OBVIOUS
  <2>6. asked' = [asked EXCEPT ![r] = next]
    BY <2>2, <2>3, <2>5
  <2>7. /\ next.op = asked[r].op /\ next.year = asked[r].year /\ next.at = to
        /\ next.todo = asked[r].todo \ {y} /\ next.seen = after /\ next.active = asked[r].active
    BY <1>0, <2>4, <2>5 DEF IsRequest
  <2>8. asked'[r] = next
    BY <1>0, <2>6 DEF RequestTypes
  <2>9. asked[r].seen \in [Years -> Season!States] /\ y \in Years
    BY <1>0, <2>1, SeasonRequestIs DEF HasRead
  <2>10. after \in [Years -> Season!States] /\ Season!Active(after) \subseteq Season!Active(asked[r].seen) \ {y}
    BY <2>4, <2>9 DEF Season!States, Season!Active
  <2>11. HasRead(r)'
    BY <1>1, <2>3, <2>7, <2>8, <2>10 DEF HasRead
  <2>12. ~overlap => Deactivates(r)'
    <3>. SUFFICES ASSUME ~overlap, asked[r].op \in {"createSeason", "updateSeason"}, asked[r].active
                  PROVE  /\ to = "deactivate" =>
                              Season!Active(after) \subseteq (asked[r].todo \ {y}) \union {asked[r].year}
                         /\ to = "writeOthers" => Season!Active(after) \subseteq {asked[r].year}
      BY <2>3, <2>7, <2>8 DEF Deactivates
    <3>1. Season!Active(asked[r].seen) \subseteq asked[r].todo \union {asked[r].year}
      BY <1>0, <2>1 DEF Deactivates
    <3>. QED
      BY <2>3, <2>10, <3>1
  <2>. QED
    BY <1>0, <1>2, <2>1, <2>6, <2>11, <2>12
<1>7. CASE Season!ReadSeasons(r)
  <2>1. /\ asked' = [asked EXCEPT ![r].seen = listed, ![r].at = "index"]
        /\ UNCHANGED listed /\ asked[r].at = "readIndex"
    BY <1>7 DEF Season!ReadSeasons, Season!At, Season!years
  <2>2. PICK next : next = [asked[r] EXCEPT !.seen = listed, !.at = "index"]
    OBVIOUS
  <2>3. asked' = [asked EXCEPT ![r] = next]
    BY <2>1, <2>2
  <2>4. /\ next.op = asked[r].op /\ next.year = asked[r].year /\ next.at = "index"
        /\ next.seen = listed /\ next.active = asked[r].active
    BY <1>0, <2>2 DEF IsRequest
  <2>5. asked'[r] = next
    BY <1>0, <2>3 DEF RequestTypes
  <2>6. HasRead(r)' /\ (~overlap => Deactivates(r)')
    BY <1>0, <1>1, <2>1, <2>4, <2>5 DEF HasRead, Deactivates
  <2>. QED
    BY <1>0, <1>2, <2>1, <2>3, <2>6
<1>. QED
  BY <1>3, <1>4, <1>5, <1>6, <1>7 DEF SeasonMoves

(* Requests for clubs, registrations and teams are of another kind.        *)
LEMMA OtherSteps ==
  ASSUME RegistrationInv, ActivationInv, NEW r \in Requests,
         ClubMoves(r) \/ RegistrationMoves(r)
  PROVE  ActivationInv'
<1>1. UNCHANGED <<listed, overlap>> /\ RequestTypes /\ IsRequest(asked[r])
  BY SeasonRequestIs DEF ClubMoves, RegistrationMoves, Season!WriteClub, Season!ReadClubs,
     Season!WriteClubs, Season!CheckTeams, Season!CheckSeasons, Season!UnnameClub,
     Season!RemoveClub,
     Season!TakeLock, Season!RegisterBegin, Season!ChangeBegin, Season!WriteDoc, Season!ReadTeams, Season!WriteFiles, Season!WriteTeams, Season!WriteEntry,
     Season!WriteTeamFile, Season!ReadTeamList, Season!WriteTeamList, Season!Breaks, Season!years, Season!history, RegistrationInv
<1>2. CASE Season!Finish(r)
  <2>1. asked' = [asked EXCEPT ![r] = Season!Idle] /\ Season!Idle.op \notin Season!SeasonOps
    BY <1>2, SeasonIdleIs DEF Season!Finish, Season!SeasonOps
  <2>. QED
    BY <1>1, <2>1, OthersStep
<1>3. ASSUME ~Season!Finish(r)
      PROVE  ActivationInv'
  <2>1. asked[r].op \notin Season!SeasonOps
    <3>1. CASE Season!TakeLock(r)
      BY <3>1, AloneAtIt DEF Season!TakeLock, HasRead, Seasonal
    <3>2. CASE ~Season!TakeLock(r)
      BY <1>3, <3>2 DEF ClubMoves, RegistrationMoves, Season!WriteClub, Season!ReadClubs,
         Season!WriteClubs, Season!CheckTeams, Season!CheckSeasons, Season!UnnameClub,
         Season!RemoveClub,
         Season!RegisterBegin, Season!ChangeBegin, Season!WriteDoc, Season!ReadTeams, Season!WriteFiles, Season!WriteTeams, Season!WriteEntry,
         Season!WriteTeamFile, Season!ReadTeamList, Season!WriteTeamList, Season!Breaks, Season!At, Season!SeasonOps, Season!RegistrationOps
    <3>. QED
      BY <3>1, <3>2
  <2>2. ASSUME NEW next, asked' = [asked EXCEPT ![r] = next], next.op = asked[r].op
        PROVE  ActivationInv'
    BY <1>1, <2>1, <2>2, OthersStep
  <2>3. ASSUME NEW at, Season!Goto(r, at)
        PROVE  ActivationInv'
    BY <1>1, <2>2, <2>3, SeasonGoes
  <2>4. ASSUME NEW x, NEW y, NEW at,
               \/ asked' = [asked EXCEPT ![r].seen = x, ![r].at = at]
               \/ asked' = [asked EXCEPT ![r].at = at, ![r].todo = x]
               \/ asked' = [asked EXCEPT ![r].todo = @ \ {y}]
               \/ asked' = [asked EXCEPT ![r].at = at, ![r].was = x]
        PROVE  ActivationInv'
    <3>1. /\ [asked[r] EXCEPT !.seen = x, !.at = at].op = asked[r].op
          /\ [asked[r] EXCEPT !.at = at, !.todo = x].op = asked[r].op
          /\ [asked[r] EXCEPT !.todo = @ \ {y}].op = asked[r].op
          /\ [asked[r] EXCEPT !.at = at, !.was = x].op = asked[r].op
      BY <1>1 DEF IsRequest
    <3>. QED
      BY <2>2, <2>4, <3>1
  <2>5. CASE Season!ReadClubs(r) \/ Season!ReadTeams(r) \/ Season!ReadTeamList(r)
    BY <2>4, <2>5 DEF Season!ReadClubs, Season!ReadTeams, Season!ReadTeamList
  <2>6. CASE Season!CheckTeams(r) \/ Season!CheckSeasons(r) \/ Season!ChangeBegin(r)
    BY <1>3, <2>3, <2>4, <2>6 DEF Season!CheckTeams, Season!CheckSeasons, Season!ChangeBegin
  <2>7. CASE \/ Season!WriteClub(r) \/ Season!WriteClubs(r) \/ Season!UnnameClub(r) \/ Season!RemoveClub(r)
             \/ Season!TakeLock(r) \/ Season!RegisterBegin(r) \/ Season!WriteDoc(r) \/ Season!WriteFiles(r) \/ Season!WriteTeams(r)
             \/ Season!WriteEntry(r) \/ Season!WriteTeamFile(r) \/ Season!WriteTeamList(r) \/ Season!Breaks(r)
    BY <1>3, <2>3, <2>7 DEF Season!WriteClub, Season!WriteClubs, Season!UnnameClub,
       Season!RemoveClub, Season!TakeLock, Season!RegisterBegin,
       Season!WriteDoc, Season!WriteFiles, Season!WriteTeams, Season!WriteEntry, Season!WriteTeamFile, Season!WriteTeamList, Season!Breaks
  <2>. QED
    BY <2>5, <2>6, <2>7 DEF ClubMoves, RegistrationMoves
<1>. QED
  BY <1>2, <1>3

LEMMA StartedSteps ==
  ASSUME RegistrationInv, ActivationInv, NEW r \in Requests, NEW request, Season!Start(r, request),
         request.op \in Season!SeasonOps =>
           /\ request.year \in Years /\ request.at \notin {"lock", "deactivate", "writeOthers", "index"}
           /\ request.at = "remove" => request.op = "deleteSeason"
           /\ request.op \in {"createSeason", "updateSeason"} /\ request.active => request.at = "others"
  PROVE  ActivationInv'
<1>1. /\ asked[r] = Season!Idle /\ asked' = [asked EXCEPT ![r] = request] /\ UNCHANGED listed
      /\ overlap' = (overlap \/ (request.op \in Season!SeasonOps /\ \E q \in Requests : asked[q].op \in Season!SeasonOps))
  BY DEF Season!Start, Season!years
<1>2. overlap => overlap'
  BY <1>1
<1>3. CASE request.op \notin Season!SeasonOps
  BY <1>1, <1>2, <1>3, OthersStep
<1>4. CASE request.op \in Season!SeasonOps
  <2>1. asked'[r] = request
    BY <1>1 DEF RegistrationInv, RequestTypes
  <2>2. HasRead(r)' /\ Deactivates(r)'
    BY <1>4, <2>1 DEF HasRead, Deactivates
  <2>3. ~overlap' => \A q \in Requests : ~Seasonal(q)
    BY <1>1, <1>4 DEF Seasonal
  <2>4. listed' \in [Years -> Season!States]
    BY <1>1 DEF ActivationInv
  <2>. QED
    BY <1>1, <1>2, <2>2, <2>3, <2>4, SeasonalStep
<1>. QED
  BY <1>3, <1>4

LEMMA ActivationAsks ==
  ASSUME RegistrationInv, ActivationInv, NEW r \in Requests,
         \/ \E y \in Years : Season!AskSeason(r, y)
         \/ \E c \in Clubs : Season!AskClub(r, c)
         \/ \E y \in Years, c \in Clubs : Season!AskRegistration(r, y, c) \/ Season!AskTeam(r, y, c)
  PROVE  ActivationInv'
<1>1. ASSUME NEW op, NEW at, NEW y \in Years \union {None}, NEW c \in Clubs \union {None},
             op \in Season!SeasonOps => op = "deleteSeason" /\ y \in Years /\ at \in {"readIndex", "remove"},
             Season!Start(r, Season!New(op, at, y, c))
      PROVE  ActivationInv'
  <2>1. Season!New(op, at, y, c).op = op /\ Season!New(op, at, y, c).at = at /\ Season!New(op, at, y, c).year = y
    BY SeasonNewIs
  <2>. QED
    BY <1>1, <2>1, StartedSteps
<1>2. ASSUME NEW op, NEW at, NEW active \in BOOLEAN, NEW y \in Years,
             at \in {"others", "blob"}, op \in {"createSeason", "updateSeason"} /\ active => at = "others",
             Season!Start(r, [Season!New(op, at, y, None) EXCEPT !.active = active])
      PROVE  ActivationInv'
  <2>1. PICK new, request : new = Season!New(op, at, y, None) /\ request = [new EXCEPT !.active = active]
    OBVIOUS
  <2>2. IsRequest(new) /\ new.op = op /\ new.at = at /\ new.year = y
    BY <2>1, SeasonNewIs
  <2>3. request.op = op /\ request.at = at /\ request.year = y /\ request.active = active
    BY <2>1, <2>2 DEF IsRequest
  <2>4. Season!Start(r, request)
    BY <1>2, <2>1
  <2>. QED
    BY <1>2, <2>3, <2>4, StartedSteps
<1>3. ASSUME NEW y \in Years, Season!AskSeason(r, y) PROVE ActivationInv'
  <2>1. ASSUME NEW active \in BOOLEAN, NEW op \in {"createSeason", "updateSeason"},
               Season!Start(r, [Season!New(op, IF active THEN "others" ELSE "blob", y, None)
                           EXCEPT !.active = active])
        PROVE  ActivationInv'
    BY <1>2, <2>1
  <2>2. CASE Season!Start(r, [Season!New("touchSeason", "blob", y, None) EXCEPT !.active = (season[y] = "active")])
    BY <1>2, <2>2
  <2>3. CASE Season!Start(r, Season!New("deleteSeason", IF season[y] = "none" THEN "readIndex" ELSE "remove", y, None))
    BY <1>1, <2>3
  <2>. QED
    BY <1>3, <2>1, <2>2, <2>3 DEF Season!AskSeason
<1>4. ASSUME NEW c \in Clubs, Season!AskClub(r, c) PROVE ActivationInv'
  BY <1>1, <1>4 DEF Season!AskClub, Season!SeasonOps
<1>5. ASSUME NEW y \in Years, NEW c \in Clubs, Season!AskTeam(r, y, c) PROVE ActivationInv'
  BY <1>1, <1>5 DEF Season!AskTeam, Season!SeasonOps
<1>6. ASSUME NEW y \in Years, NEW c \in Clubs, Season!AskRegistration(r, y, c) PROVE ActivationInv'
  <2>1. ASSUME NEW op \in {"register", "resize"}, NEW n \in 1 .. MaxTeams,
               Season!Start(r, [Season!New(op, "lock", y, c) EXCEPT !.teams = n])
        PROVE  ActivationInv'
    <3>1. PICK new, request : new = Season!New(op, "lock", y, c) /\ request = [new EXCEPT !.teams = n]
      OBVIOUS
    <3>2. IsRequest(new) /\ new.op = op
      BY <3>1, SeasonNewIs
    <3>3. request.op = op
      BY <3>1, <3>2 DEF IsRequest
    <3>4. Season!Start(r, request) /\ request.op \notin Season!SeasonOps
      BY <2>1, <3>1, <3>3 DEF Season!SeasonOps
    <3>. QED
      BY <3>4, StartedSteps
  <2>2. CASE Season!Start(r, Season!New("unregister", "lock", y, c))
    BY <1>1, <2>2 DEF Season!SeasonOps
  <2>. QED
    BY <1>6, <2>1, <2>2 DEF Season!AskRegistration
<1>. QED
  BY <1>3, <1>4, <1>5, <1>6

LEMMA ActivationInit == Season!Init => ActivationInv
<1>. SUFFICES ASSUME Season!Init PROVE ActivationInv
  OBVIOUS
<1>1. listed = [y \in Years |-> "inactive"] /\ asked = [r \in Requests |-> Season!Idle]
  BY DEF Season!Init
<1>2. \A r \in Requests : ~Seasonal(r)
  BY <1>1, SeasonIdleIs DEF Seasonal, Season!SeasonOps
<1>. QED
  BY <1>1, <1>2 DEF ActivationInv, HasRead, Season!States

LEMMA ActivationSame ==
  ASSUME ActivationInv, UNCHANGED Season!vars
  PROVE  ActivationInv'
BY DEF ActivationInv, HasRead, Deactivates, Seasonal, Season!Active, Season!vars, Season!years,
   Season!history

LEMMA ActivationNext == RegistrationInv /\ ActivationInv /\ [Season!Next]_Season!vars => ActivationInv'
<1>. SUFFICES ASSUME RegistrationInv, ActivationInv, [Season!Next]_Season!vars PROVE ActivationInv'
  OBVIOUS
<1>1. CASE UNCHANGED Season!vars
  BY <1>1, ActivationSame
<1>2. CASE Season!AtRest
  BY <1>2, ActivationSame DEF Season!AtRest
<1>3. ASSUME NEW r \in Requests, NEW y \in Years, Season!AskSeason(r, y) PROVE ActivationInv'
  BY <1>3, ActivationAsks
<1>4. ASSUME NEW r \in Requests, NEW c \in Clubs, Season!AskClub(r, c) PROVE ActivationInv'
  BY <1>4, ActivationAsks
<1>5. ASSUME NEW r \in Requests, NEW y \in Years, NEW c \in Clubs,
             Season!AskRegistration(r, y, c) \/ Season!AskTeam(r, y, c)
      PROVE  ActivationInv'
  BY <1>5, ActivationAsks
<1>6. ASSUME NEW r \in Requests,
             SeasonMoves(r) \/ ClubMoves(r) \/ RegistrationMoves(r)
      PROVE  ActivationInv'
  BY <1>6, ActivationSteps, OtherSteps
<1>. QED
  BY <1>1, <1>2, <1>3, <1>4, <1>5, <1>6
     DEF Season!Next, SeasonMoves, ClubMoves, RegistrationMoves

-----------------------------------------------------------------------------
(* Every topic of what rounds refer to.                                    *)

(* A step of a reference is one of its topic, and leaves the others alone. *)
LEMMA ReferenceStep ==
  ASSUME [ReferenceNext]_referenceVars
  PROVE  /\ topic' = topic
         /\ [Season!Next]_Season!vars /\ [Member!Next]_Member!vars /\ [Wording!Next]_Wording!vars
<1>1. UNCHANGED seasonVars => UNCHANGED Season!vars
  BY DEF seasonVars, Season!vars, Season!years, Season!clubs, Season!registrations, Season!history
<1>2. UNCHANGED pilotVars => UNCHANGED Member!vars
  BY DEF pilotVars, Member!vars, Member!documents, Member!copy
<1>3. UNCHANGED wordingVars => UNCHANGED Wording!vars
  BY DEF wordingVars, Wording!vars, Wording!blobs
<1>4. CASE UNCHANGED referenceVars
  <2>1. topic' = topic /\ UNCHANGED seasonVars /\ UNCHANGED pilotVars /\ UNCHANGED wordingVars
    BY <1>4 DEF referenceVars
  <2>. QED
    BY <1>1, <1>2, <1>3, <2>1
<1>5. CASE ReferenceNext
  <2>1. /\ topic' = topic
        /\ Season!Next \/ UNCHANGED seasonVars
        /\ Member!Next \/ UNCHANGED pilotVars
        /\ Wording!Next \/ UNCHANGED wordingVars
    BY <1>5 DEF ReferenceNext
  <2>. QED
    BY <1>1, <1>2, <1>3, <2>1
<1>. QED
  BY <1>4, <1>5

(* The invariants of the seasons, the pilots' clubs and the wording.       *)
ReferenceInv == RegistrationInv /\ ActivationInv /\ MembershipInv /\ WordingInv

LEMMA ReferenceInvariance == ReferenceSpec => []ReferenceInv
<1>1. ReferenceInit => ReferenceInv
  BY RegistrationInit, ActivationInit, MembershipInitial, WordingInitial DEF ReferenceInit,
     ReferenceInv
<1>2. ReferenceInv /\ [ReferenceNext]_referenceVars => ReferenceInv'
  BY ReferenceStep, RegistrationNext, ActivationNext, MembershipNext, WordingNext DEF ReferenceInv
<1>. QED
  BY <1>1, <1>2, PTL DEF ReferenceSpec

(* Published wordings stay in order, and what was signed verifies against  *)
(* the version it names (addWordingVersion, ensureBootstrapped, sign).     *)
THEOREM WordingStaysKept == ReferenceSpec => []WordingIsKept
<1>1. ReferenceInv => WordingIsKept
  BY WordingOrdered DEF ReferenceInv, WordingIsKept
<1>. QED
  BY <1>1, ReferenceInvariance, PTL

(* The map of a season shows the club of each pilot's document unless a    *)
(* request broke off between the two (assignPilotSeasonClub,               *)
(* upsertPilotClubMap).                                                    *)
THEOREM MapStaysWithPilots == ReferenceSpec => []MapFollowsPilot
<1>1. ReferenceInv => MapFollowsPilot
  BY MembershipFollowed DEF ReferenceInv, MapFollowsPilot
<1>. QED
  BY <1>1, ReferenceInvariance, PTL

(* A club's registration, its entry in the index and its teams agree when  *)
(* no request is about it (createSeasonClub, updateSeasonClub,             *)
(* deleteSeasonClub).                                                      *)
THEOREM RegistrationsStayAgreed == ReferenceSpec => []RegistrationsAgree
<1>1. ReferenceInv => RegistrationsAgree
  BY RegistrationsKept DEF ReferenceInv, RegistrationsAgree
<1>. QED
  BY <1>1, ReferenceInvariance, PTL

(* A request that makes a season active leaves it the only one that the    *)
(* index shows as active (deactivateAllSeasons, createSeason,              *)
(* updateSeason).                                                          *)
THEOREM ActivationStaysExclusive == ReferenceSpec => ActivationIsExclusive
<1>. DEFINE Only ==
       \A r \in Requests :
         Season!WriteSeasons(r) /\ asked[r].op \in {"createSeason", "updateSeason"}
           /\ asked[r].active /\ ~overlap => Season!Active(listed') = {asked[r].year}
<1>1. ReferenceInv => Only
  BY NowOnly DEF ReferenceInv
<1>2. ReferenceInv /\ [ReferenceNext]_referenceVars => [Only]_Season!vars
  BY <1>1
<1>. QED
  BY <1>2, ReferenceInvariance, PTL DEF ReferenceSpec, ActivationIsExclusive,
     Season!ActivationIsExclusive
=============================================================================
