----------------------------- MODULE Migration -----------------------------
(***************************************************************************)
(* The one-off move of the legacy SQL database into blobs                  *)
(* (scripts/migrate/migrate.mjs), with the two audits that decide whether  *)
(* the result may be cut over to (validate.mjs, reconcile.mjs).            *)
(*                                                                         *)
(* A run reads the tables in foreign-key order, gives each row a UUID that *)
(* an on-disk map keeps for later runs, and writes documents and indexes   *)
(* one upload at a time.  A run may be a dry run, may resume, may die      *)
(* between any two steps and be started again, and the source may be       *)
(* edited between and during runs.                                         *)
(*                                                                         *)
(* A row is a model value of a table; what it holds is [links, data]: the  *)
(* rows its foreign keys name and one value for its other columns, which   *)
(* for a round is its status, for a team its score and for a place, the    *)
(* slot of a pilot in a team, the pilot's points.  A place stands for its  *)
(* team and number, and an entry for its season and club, which are its    *)
(* path and its key in the id map.                                         *)
(***************************************************************************)
EXTENDS Naturals, FiniteSets, Sequences, Functions

CONSTANTS Clubs, Entries, SiteRows, SeasonRows, Pilots, Rounds, Teams, Places, \* all rows there ever were
          Sources,      \* the contents the database may have
          CompleteData, \* the data of a round whose status is Complete
          MaxRuns, MaxMishaps, MaxIds  \* runs, edits of the source and lost maps, UUIDs

Rows == Clubs \cup Entries \cup SiteRows \cup SeasonRows \cup Pilots \cup Rounds \cup Teams \cup Places

RowsOf == [club |-> Clubs, entry |-> Entries, site |-> SiteRows, season |-> SeasonRows,
           pilot |-> Pilots, round |-> Rounds, team |-> Teams, place |-> Places]
Tables == DOMAIN RowsOf
KindOf(row) == CHOOSE k \in Tables : row \in RowsOf[k]

(* Teams and places are parts of the document of their round.              *)
Kinds == Tables \ {"team", "place"}

(* The foreign keys of the tables, by kind of row.                         *)
LinksOf == [club |-> {}, entry |-> {"club", "season"}, site |-> {"club"}, season |-> {},
            pilot |-> {"club"}, round |-> {"club", "site", "season"},
            team |-> {"round", "club"}, place |-> {"team", "pilot"}]

(* A row is of one kind, the database keeps its foreign keys, and entries  *)
(* name a club and a season: one that does not is passed over by all runs. *)
ASSUME MigrationAssumption ==
  /\ {MaxRuns, MaxMishaps, MaxIds} \subseteq Nat
  /\ IsFiniteSet(Rows)
  /\ \A j, k \in Tables : j # k => RowsOf[j] \cap RowsOf[k] = {}
  /\ \A s \in Sources :
       /\ DOMAIN s \subseteq Rows
       /\ \A row \in DOMAIN s : \A l \in s[row].links :
            l \in DOMAIN s /\ KindOf(l) \in LinksOf[KindOf(row)]
       /\ \A row \in DOMAIN s \cap Entries :
            s[row].links \cap Clubs # {} /\ s[row].links \cap SeasonRows # {}

VARIABLES
  source,     \* the legacy database
  idMap,      \* .migration-state/id-map.json: the UUID of each row, 0 if none
  memory,     \* the same map in the running process
  minted,     \* UUIDs handed out so far
  docs,       \* clubs/ season-clubs/ sites/ pilots/ rounds/ documents, by kind and UUID
  briefs,     \* round-briefs/{uuid}.json, by the UUID of the round
  indexes,    \* clubs.json season-clubs/{year}/index.json sites.json seasons.json pilots.json rounds.json
  published,  \* seasons/{year}.json and results/{year}.json, by season row
  manifest,   \* .migration-state/legacy-score-manifest.json
  counted,    \* the rows the last whole dry run reported on stdout
  run,        \* the migrate.mjs process
  spent       \* runs started, edits made, maps lost

vars == <<source, idMap, memory, minted, docs, briefs, indexes, published,
          manifest, counted, run, spent>>
blobs == <<docs, briefs, indexes, published>>

None == <<>>     \* a store nothing was uploaded to
Absent == {}    \* a file is {} or, once written, the set of its one content
Off == [at |-> 0]

-----------------------------------------------------------------------------
(* The order of the steps, with the writes of each in the order the code   *)
(* awaits them: clubs, sites and seasons publish the index before the      *)
(* documents, club entries, pilots and rounds after them; the club         *)
(* documents are written again once the sites are known.  The fourth       *)
(* SELECT of the rounds, for the flights, yields no score that is kept:    *)
(* every place is taken to have a flight, and so a line in the results.    *)
Plan ==
  << <<"club", "query">>,   <<"club", "index">>,  <<"club", "docs">>,
     <<"entry", "query">>,  <<"entry", "years">>, <<"entry", "docs">>,  <<"entry", "index">>,
     <<"site", "query">>,   <<"site", "index">>,  <<"site", "docs">>,  <<"club", "docs">>,
     <<"season", "query">>, <<"season", "index">>,
     <<"pilot", "query">>,  <<"pilot", "docs">>,  <<"pilot", "index">>,
     <<"round", "query">>,  <<"team", "query">>,  <<"place", "query">>,
     <<"round", "docs">>,   <<"round", "index">>,
     <<"round", "manifest">>, <<"round", "briefs">>,
     <<"season", "league">>, <<"season", "results">> >>

Running == run # Off
Step == Plan[run.at]
At(task) == Running /\ run.at <= Len(Plan) /\ Step[2] = task
Done == Running /\ run.at > Len(Plan)

ReadOf(kind) == {row \in DOMAIN run.read : row \in RowsOf[kind]}

(* The rows the next step of the plan loops over; the results of a season *)
(* are written in the loop of its league.                                 *)
LoopOf(at, read) ==
  IF at > Len(Plan) \/ Plan[at][2] \notin {"docs", "briefs", "league"} THEN {}
  ELSE {row \in DOMAIN read : row \in RowsOf[Plan[at][1]]}

Advance(r) == [r EXCEPT !.at = r.at + 1, !.row = {}, !.todo = LoopOf(r.at + 1, r.read)]
\* The upload of the current row has returned: the next row, or the next step.
Written(r) == IF r.todo = {} THEN Advance(r) ELSE [r EXCEPT !.row = {}]

-----------------------------------------------------------------------------
(* getOrCreateUuid and saveIdMap.                                          *)
Mint(rowset) ==
  LET fresh == {row \in rowset : memory[row] = 0}
      order == CHOOSE f \in [fresh -> (minted + 1)..(minted + Cardinality(fresh))] :
                 \A a, b \in fresh : f[a] = f[b] => a = b
  IN /\ minted + Cardinality(fresh) <= MaxIds
     /\ minted' = minted + Cardinality(fresh)
     /\ memory' = [row \in Rows |-> IF row \in fresh THEN order[row] ELSE memory[row]]

(* saveIdMap, which the first new UUID queues with setImmediate: it runs   *)
(* as soon as the process next waits, before any upload can be answered.   *)
SaveIdMap ==
  /\ Running
  /\ memory # idMap
  /\ idMap' = memory
  /\ UNCHANGED <<source, memory, minted, blobs, manifest, counted, run, spent>>

(* Mutant: the map is left to the saveIdMap at the end of the step. *)
SavedLater == TRUE

Saved == memory = idMap

(* uploadBlob and uploadPrivateBlob: nothing in a dry run; with --resume a *)
(* blob whose content would not change is left alone.                      *)
Unchanged(store, path, content) == path \in DOMAIN store /\ store[path] = content

Upload(store, path, content) ==
  IF run.mode = "dry" \/ (run.mode = "resume" /\ Unchanged(store, path, content)) THEN store
  ELSE [p \in DOMAIN store \cup {path} |-> IF p = path THEN content ELSE store[p]]

-----------------------------------------------------------------------------
(* What each step writes.                                                  *)
Uuid(row) == memory[row]

(* A foreign key becomes the UUID of the row it names if this run has read *)
(* that row, and the neutral value of the field otherwise.                 *)
LinkIds(links, kinds) ==
  {Uuid(l) : l \in {l \in links \cap DOMAIN run.read : KindOf(l) \in kinds}}

(* The teams of a round and the places of a team among the rows read.      *)
TeamsOf(row, read) == {t \in Teams \cap DOMAIN read : row \in read[t].links}
PlacesOf(team, read) == {p \in Places \cap DOMAIN read : team \in read[p].links}

(* What the document of a round says of its teams, and the rows it names.  *)
TeamDocs(row, read) ==
  [t \in TeamsOf(row, read) |->
     [score |-> read[t].data, slots |-> [p \in PlacesOf(t, read) |-> read[p].data]]]
NamedBy(row, read) ==
  LET teams == TeamsOf(row, read)
      places == UNION {PlacesOf(t, read) : t \in teams}
  IN read[row].links \cup UNION {read[x].links : x \in teams \cup places}

ClubDoc(row) ==
  [row |-> row, data |-> run.read[row].data,
   links |-> {Uuid(s) : s \in {s \in ReadOf("site") : row \in run.read[s].links}}]
EntryDoc(row) ==
  [row |-> row, data |-> run.read[row].data, links |-> LinkIds(run.read[row].links, {"club"})]
SiteDoc(row) ==
  [row |-> row, data |-> run.read[row].data, links |-> LinkIds(run.read[row].links, {"club"})]
PilotDoc(row) ==
  [row |-> row, data |-> run.read[row].data, links |-> LinkIds(run.read[row].links, {"club"})]
RoundDoc(row) ==
  [row |-> row, data |-> run.read[row].data, teams |-> TeamDocs(row, run.read),
   links |-> LinkIds(NamedBy(row, run.read), {"club", "site", "pilot"})]

DocOf(kind, row) ==
  CASE kind = "club" -> ClubDoc(row)
    [] kind = "entry" -> EntryDoc(row)
    [] kind = "site" -> SiteDoc(row)
    [] kind = "pilot" -> PilotDoc(row)
    [] kind = "round" -> RoundDoc(row)

IndexOf(kind) ==
  {[id |-> Uuid(row), data |-> run.read[row].data] : row \in ReadOf(kind)}

IsComplete(row) == run.read[row].data \in CompleteData

(* The legacy scores of every Complete round. *)
ScoresKept ==
  [row \in {r \in ReadOf("round") : IsComplete(r)} |-> TeamDocs(row, run.read)]

RoundsOfSeason(season) == {r \in ReadOf("round") : season \in run.read[r].links}
CompleteOf(season) == {r \in RoundsOfSeason(season) : IsComplete(r)}

(* computeLeague over the documents kept in memory: what each team scored. *)
League(season) ==
  UNION {{[round |-> Uuid(r), team |-> t, score |-> run.read[t].data] : t \in TeamsOf(r, run.read)} :
           r \in CompleteOf(season)}

(* buildSeasonResults *)
Results(season) ==
  {[round |-> Uuid(r), teams |-> TeamDocs(r, run.read)] : r \in CompleteOf(season)}

-----------------------------------------------------------------------------
(* The process.                                                            *)
Start(mode) ==
  /\ ~Running
  /\ spent.runs < MaxRuns
  /\ run' = [at |-> 1, mode |-> mode, row |-> {}, todo |-> {}, read |-> <<>>, steady |-> TRUE]
  /\ memory' = idMap
  /\ spent' = [spent EXCEPT !.runs = @ + 1]
  /\ UNCHANGED <<source, idMap, minted, blobs, manifest, counted>>

(* One SELECT; the rows of clubs, sites and seasons get their UUID in the  *)
(* loop over the answer, before anything is awaited.                       *)
Query ==
  /\ At("query")
  /\ LET found == {row \in DOMAIN source : row \in RowsOf[Step[1]]}
     IN /\ Mint(IF Step[1] \in {"club", "site", "season"} THEN found ELSE {})
        /\ run' = Advance([run EXCEPT !.read =
             [row \in DOMAIN run.read \cup found |->
                IF row \in found THEN source[row] ELSE run.read[row]]])
  /\ UNCHANGED <<source, idMap, blobs, manifest, counted, spent>>

(* SELECT ID, Year FROM Seasons: an entry whose club or season is not     *)
(* among the rows read is passed over.                                    *)
SkipEntries ==
  /\ At("years")
  /\ LET years == DOMAIN source \cap SeasonRows
         whole(e) == run.read[e].links \cap ReadOf("club") # {} /\ run.read[e].links \cap years # {}
     IN run' = Advance([run EXCEPT !.read =
          Restrict(run.read, {row \in DOMAIN run.read : row \in Entries => whole(row)})])
  /\ UNCHANGED <<source, idMap, memory, minted, blobs, manifest, counted, spent>>

WriteIndex ==
  /\ At("index")
  /\ Saved
  /\ indexes' = Upload(indexes, Step[1], IndexOf(Step[1]))
  /\ run' = Advance(run)
  /\ UNCHANGED <<source, idMap, memory, minted, docs, briefs, published, manifest, counted, spent>>

(* The head of a loop over rows: pilots and rounds get their UUID here. *)
NextRow(row) ==
  /\ Running
  /\ run.row = {}
  /\ row \in run.todo
  /\ Mint({row})
  /\ run' = [run EXCEPT !.row = {row}, !.todo = @ \ {row}]
  /\ UNCHANGED <<source, idMap, blobs, manifest, counted, spent>>

(* An empty table: the loop body never runs. *)
NoRows ==
  /\ \E task \in {"docs", "briefs", "league", "results"} : At(task)
  /\ run.row = {} /\ run.todo = {}
  /\ run' = Advance(run)
  /\ UNCHANGED <<source, idMap, memory, minted, blobs, manifest, counted, spent>>

WriteDoc(row) ==
  /\ At("docs") /\ row \in run.row
  /\ Saved
  /\ docs' = [docs EXCEPT ![Step[1]] = Upload(@, Uuid(row), DocOf(Step[1], row))]
  /\ run' = Written(run)
  /\ UNCHANGED <<source, idMap, memory, minted, briefs, indexes, published, manifest, counted, spent>>

(* Written in a dry run too: the manifest is the migration's own state. *)
WriteManifest ==
  /\ At("manifest")
  /\ manifest' = {ScoresKept}
  /\ run' = Advance(run)
  /\ UNCHANGED <<source, idMap, memory, minted, blobs, counted, spent>>

(* The brief copies the round document kept in memory. *)
WriteBrief(row) ==
  /\ At("briefs") /\ row \in run.row
  /\ briefs' = Upload(briefs, Uuid(row), RoundDoc(row))
  /\ run' = Written(run)
  /\ UNCHANGED <<source, idMap, memory, minted, docs, indexes, published, manifest, counted, spent>>

(* seasons/{year}.json, then results/{year}.json, season by season. *)
WriteLeague(row) ==
  /\ At("league") /\ row \in run.row
  /\ published' = Upload(published, <<"seasons", row>>,
                       [rounds |-> {Uuid(r) : r \in RoundsOfSeason(row)}, league |-> League(row)])
  /\ run' = [run EXCEPT !.at = @ + 1]
  /\ UNCHANGED <<source, idMap, memory, minted, docs, briefs, indexes, manifest, counted, spent>>

WriteResults(row) ==
  /\ At("results") /\ row \in run.row
  /\ published' = Upload(published, <<"results", row>>, Results(row))
  /\ run' = IF run.todo = {} THEN Advance(run) ELSE [run EXCEPT !.at = @ - 1, !.row = {}]
  /\ UNCHANGED <<source, idMap, memory, minted, docs, briefs, indexes, manifest, counted, spent>>

(* The last saveIdMap has run; dry-run-against-prod.sh keeps the counts. *)
Exit ==
  /\ Done
  /\ Saved
  /\ run' = Off
  /\ counted' = IF run.mode = "dry" THEN {DOMAIN run.read} ELSE counted
  /\ UNCHANGED <<source, idMap, memory, minted, blobs, manifest, spent>>

(* A crash, a failed upload or a lost connection: main rejects, exit 1. *)
Crash ==
  /\ Running /\ ~Done
  /\ run' = Off
  /\ memory' = idMap
  /\ UNCHANGED <<source, idMap, minted, blobs, manifest, counted, spent>>

(* The old site stays in use until the cut-over. *)
EditSource ==
  /\ spent.edits + spent.lost < MaxMishaps
  /\ source' \in Sources \ {source}
  /\ run' = IF Running THEN [run EXCEPT !.steady = FALSE] ELSE run
  /\ spent' = [spent EXCEPT !.edits = @ + 1]
  /\ UNCHANGED <<idMap, memory, minted, blobs, manifest, counted>>

(* The state directory is gone or id-map.json cannot be parsed: the next *)
(* run starts fresh.                                                     *)
LoseMap ==
  /\ ~Running
  /\ spent.edits + spent.lost < MaxMishaps
  /\ idMap' = [row \in Rows |-> 0]
  /\ memory' = idMap'
  /\ manifest' = Absent
  /\ spent' = [spent EXCEPT !.lost = @ + 1]
  /\ UNCHANGED <<source, minted, blobs, counted, run>>

-----------------------------------------------------------------------------
Init ==
  /\ source \in Sources
  /\ idMap = [row \in Rows |-> 0]
  /\ memory = idMap
  /\ minted = 0
  /\ docs = [kind \in Kinds \ {"season"} |-> None]
  /\ briefs = None
  /\ indexes = None
  /\ published = None
  /\ manifest = Absent
  /\ counted = Absent
  /\ run = Off
  /\ spent = [runs |-> 0, edits |-> 0, lost |-> 0]

AtRest == ~Running /\ spent.runs = MaxRuns /\ UNCHANGED vars

Process ==
  \/ SaveIdMap \/ Query \/ SkipEntries \/ WriteIndex \/ NoRows \/ WriteManifest \/ Exit
  \/ \E row \in Rows : \/ NextRow(row) \/ WriteDoc(row) \/ WriteBrief(row)
                       \/ WriteLeague(row) \/ WriteResults(row)

Next ==
  \/ \E mode \in {"real", "resume", "dry"} : Start(mode)
  \/ Process
  \/ Crash \/ EditSource \/ LoseMap
  \/ AtRest

Spec == Init /\ [][Next]_vars

-----------------------------------------------------------------------------
(* The audits, run by hand while no migration is running.                  *)
Listed(kind) == IF kind \in DOMAIN indexes THEN indexes[kind] ELSE {}

(* validate.mjs looks at the first entries of an index only. *)
SampleSize == 3
SpotChecked(kind) ==
  {e \in Listed(kind) : Cardinality({f \in Listed(kind) : f.id < e.id}) < SampleSize}

(* crossCheckLegacyScores: skipped when there is no manifest.  Every team  *)
(* and filled slot that the document of a Complete round has is compared   *)
(* with the manifest; what the manifest has beyond them is not looked at.  *)
ScoresMatch ==
  \A scores \in manifest : \A e \in {e \in Listed("round") : e.data \in CompleteData} :
    /\ e.id \in DOMAIN docs["round"]
    /\ LET doc == docs["round"][e.id]
       IN /\ doc.row \in DOMAIN scores
          /\ \A t \in DOMAIN doc.teams :
               /\ t \in DOMAIN scores[doc.row]
               /\ doc.teams[t].score = scores[doc.row][t].score
               /\ \A p \in DOMAIN doc.teams[t].slots :
                    /\ p \in DOMAIN scores[doc.row][t].slots
                    /\ doc.teams[t].slots[p] = scores[doc.row][t].slots[p]

SeasonsHold ==
  \A row \in {r \in SeasonRows : \E e \in Listed("season") : e.id = idMap[r]} :
    /\ <<"seasons", row>> \in DOMAIN published
    /\ LET s == published[<<"seasons", row>>] IN s.league # {} \/ s.rounds = {}

Passes ==
  /\ \A kind \in Kinds \ {"entry"} : Listed(kind) # {}
  /\ \A kind \in {"club", "pilot", "round"} :
       \A e \in SpotChecked(kind) : e.id \in DOMAIN docs[kind]
  /\ SeasonsHold
  /\ ScoresMatch

(* The kinds of which the dry run prints how many it wrote.                *)
CountedKinds == {"club", "site", "season", "pilot", "round"}

(* Mutant: only a row missing from the map is an anomaly. *)
ReconcilesNoneMissing(rows) ==
  \A kind \in CountedKinds :
    Cardinality({row \in RowsOf[kind] : idMap[row] # 0}) >= Cardinality(rows \cap RowsOf[kind])

(* reconcile.mjs --against-prod-snapshot: the map holds, kind by kind, as  *)
(* many rows as the dry run said it would write.                           *)
Reconciles(rows) ==
  \A kind \in CountedKinds :
    Cardinality({row \in RowsOf[kind] : idMap[row] # 0}) = Cardinality(rows \cap RowsOf[kind])

-----------------------------------------------------------------------------
(* A run that reaches the end of migrate.mjs with the source left alone    *)
(* meanwhile leaves an exact image of it: every row its document with      *)
(* every foreign key kept, every round its teams with their scores, every  *)
(* index just the rows, and the league and the results of just the         *)
(* Complete rounds, whatever earlier runs left half done, and whether or   *)
(* not the run resumed one of them.                                        *)
ImageIsExact ==
  Done /\ run.steady /\ run.mode # "dry" =>
    LET of(kind) == {row \in DOMAIN source : row \in RowsOf[kind]}
        ids(links) == {idMap[l] : l \in {l \in links : KindOf(l) \in {"club", "site", "pilot"}}}
        complete(season) ==
          {r \in of("round") : season \in source[r].links /\ source[r].data \in CompleteData}
    IN /\ \A kind \in {"entry", "site", "pilot"} : \A row \in of(kind) :
            docs[kind][idMap[row]] =
              [row |-> row, data |-> source[row].data, links |-> ids(source[row].links)]
       /\ \A row \in of("round") :
            /\ docs["round"][idMap[row]] =
                 [row |-> row, data |-> source[row].data, teams |-> TeamDocs(row, source),
                  links |-> ids(NamedBy(row, source))]
            /\ briefs[idMap[row]] = docs["round"][idMap[row]]
       /\ \A row \in of("club") :
            docs["club"][idMap[row]].links = {idMap[s] : s \in {s \in of("site") : row \in source[s].links}}
       /\ \A kind \in Kinds :
            indexes[kind] = {[id |-> idMap[row], data |-> source[row].data] : row \in of(kind)}
       /\ \A row \in of("season") :
            /\ published[<<"seasons", row>>].league =
                 UNION {{[round |-> idMap[r], team |-> t, score |-> source[t].data] :
                           t \in TeamsOf(r, source)} : r \in complete(row)}
            /\ published[<<"results", row>>] =
                 {[round |-> idMap[r], teams |-> TeamDocs(r, source)] : r \in complete(row)}

(* Whatever the runs were stopped in, no row of the source has a document  *)
(* under two UUIDs (the map is on disk before the first upload that uses   *)
(* it), every UUID a document or a season names has its document (the      *)
(* tables are read and written in foreign-key order), and the indexes of  *)
(* club entries, pilots and rounds list nothing that is not there.         *)
DocsAreAnchored ==
  /\ spent.lost = 0 =>
       \A kind \in DOMAIN docs : \A a, b \in DOMAIN docs[kind] :
         docs[kind][a].row = docs[kind][b].row => a = b
  /\ \A kind \in DOMAIN docs : \A a \in DOMAIN docs[kind] :
       \A l \in docs[kind][a].links : \E k \in DOMAIN docs : l \in DOMAIN docs[k]
  /\ \A row \in SeasonRows : <<"seasons", row>> \in DOMAIN published =>
       published[<<"seasons", row>>].rounds \subseteq DOMAIN docs["round"]
  /\ \A kind \in {"entry", "pilot", "round"} :
       \A e \in Listed(kind) : e.id \in DOMAIN docs[kind]

(* What the migration leaves behind: exact if a run ended, and sound       *)
(* whatever it was stopped in (migrate.mjs: main).                         *)
ImageIsSound == ImageIsExact /\ DocsAreAnchored

(* What the audits let through.  When validate.mjs passes, the scores that *)
(* the documents of the Complete rounds give to their teams are those of   *)
(* one and the same state of the legacy database, and so are the points of *)
(* their pilots: never some from before an edit and some from after it,    *)
(* although a run may have died between two rounds and a dry run may have  *)
(* rewritten the manifest since.  (Scores and points are two SELECTs; and  *)
(* a document may lack a team or a pilot that the edit added.)  When       *)
(* reconcile.mjs finds no anomaly, no document of a club, a site, a pilot  *)
(* or a round is left whose row the dry run no longer found.               *)
AuditsCatchMixtures ==
  ~Running =>
    /\ Passes /\ manifest # Absent =>
         LET scored == {docs["round"][e.id].teams : e \in {e \in Listed("round") : e.data \in CompleteData}}
         IN /\ \E s \in Sources : \A teams \in scored : \A t \in DOMAIN teams :
                 t \in DOMAIN s /\ teams[t].score = s[t].data
            /\ \E s \in Sources : \A teams \in scored : \A t \in DOMAIN teams :
                 \A p \in DOMAIN teams[t].slots : p \in DOMAIN s /\ teams[t].slots[p] = s[p].data
    /\ spent.lost = 0 =>
         \A rows \in counted : Reconciles(rows) =>
           \A kind \in CountedKinds \cap DOMAIN docs : \A id \in DOMAIN docs[kind] :
             docs[kind][id].row \in rows
=============================================================================
