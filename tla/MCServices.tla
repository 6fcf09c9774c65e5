------------------------------ MODULE MCServices ------------------------------
(***************************************************************************)
(* What surrounds the rounds: the lists administrators keep (Catalogues),  *)
(* the credential of an account (Credentials), the session of a tab of the *)
(* web application (WebSession) and its page of a round (RoundPage).  They *)
(* share no state that another of them writes, so a behaviour is one of    *)
(* any of them: topic says of which, and the variables of the others keep  *)
(* their first values.                                                     *)
(***************************************************************************)
EXTENDS Catalogues, TLC

CONSTANTS
  Links, AccountWorlds, MaxFailures, MaxVisits,
  Calls, MaxVoids, MaxSteps,
  Polls, MaxPolls, MaxMoves, MaxLoads

VARIABLES
  topic,
  credential, session, link, holder, visit, visits, accountFaults, told,
  tokens, stored, shown, page, flow, renewal, call, farewell, steps, overtaken,
  status, moves, round, count, notice, watch, load, loads, phase, interval, polls, tries, posts

accountVars == <<credential, session, link, holder, visit, visits, accountFaults, told>>
tabVars == <<tokens, stored, shown, page, flow, renewal, call, farewell, steps, overtaken>>
pageVars == <<status, moves, round, count, notice, watch, load, loads,
              phase, interval, polls, tries, posts>>

Account == INSTANCE Credentials
  WITH Worlds <- AccountWorlds, MaxOps <- MaxVisits,
       lease <- holder, req <- visit, ops <- visits, faults <- accountFaults

Tab == INSTANCE WebSession WITH server <- tokens

Page == INSTANCE RoundPage

(* None is the absence of a link, of a document and of a token, and an     *)
(* account is not locked before its first failed login.                    *)
ASSUME ServicesAssumption ==
  /\ None \notin Links /\ None \notin Nat /\ None \notin [Keys -> 0 .. 2]
  /\ None \notin Requests /\ None \notin Tab!Flows
  /\ MaxFailures \in Nat \ {0} /\ MaxPolls \in Nat \ {0}

-----------------------------------------------------------------------------
Topics == {"lists", "account", "tab", "page"}

(* Another topic's variables have one first value.                         *)
Still(other, first) == topic # other => first

(* The first values of all but the topic.                                  *)
First ==
  /\ Init /\ Account!Init /\ Tab!Init /\ Page!Init
  /\ Still("lists", /\ faults.kinds = CHOOSE w \in Worlds : TRUE
                    /\ old = None /\ config = None)
  /\ Still("account", accountFaults.kinds = CHOOSE w \in AccountWorlds : TRUE)
  /\ Still("tab", stored = Tab!Nothing)
  /\ Still("page", status = "none")

MCInit == topic \in Topics /\ First

MCNext ==
  /\ UNCHANGED topic
  /\ \/ topic = "lists" /\ Next /\ UNCHANGED <<accountVars, tabVars, pageVars>>
     \/ topic = "account" /\ Account!Next /\ UNCHANGED <<vars, tabVars, pageVars>>
     \/ topic = "tab" /\ Tab!Next /\ UNCHANGED <<vars, accountVars, pageVars>>
     \/ topic = "page" /\ Page!Next /\ UNCHANGED <<vars, accountVars, tabVars>>

MCSpec == MCInit /\ [][MCNext]_<<topic, vars, accountVars, tabVars, pageVars>>

Symmetric == Permutations(Makers) \union Permutations(Keys) \union Permutations(Sites)
  \union Permutations(Links) \union Permutations(Calls)

-----------------------------------------------------------------------------
(* A password that was reset stays, whatever logins, failures and logouts  *)
(* rewrite the credential, and who is shown as signed in can stay so       *)
(* (Credentials: resetPassword; WebSession: refreshAccessToken,            *)
(* AuthProvider).                                                          *)
SignInIsSound ==
  /\ topic = "account" => Account!ResetIsFinal
  /\ topic = "tab" => Tab!SessionIsSound

(* The page asks again while groups are made, and its dialog ends          *)
(* (RoundPage: RoundDetail, RescoreRoundButton).                           *)
PageKeepsWatch == topic = "page" => Page!PageKeepsWatch
=============================================================================
