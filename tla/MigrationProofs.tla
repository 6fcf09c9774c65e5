-------------------------- MODULE MigrationProofs --------------------------
(* Theorems about Migration, for every value of its constants.             *)
EXTENDS Migration, FiniteSetTheorems, TLAPS

-----------------------------------------------------------------------------
(* The plan.                                                               *)

(* The step of the plan that reads a kind of row, that publishes its       *)
(* index, and those that write its documents first and last.               *)
QueryOf == [club |-> 1, entry |-> 4, site |-> 8, season |-> 12, pilot |-> 14, round |-> 17,
            team |-> 18, place |-> 19]
IndexAt == [club |-> 2, entry |-> 7, site |-> 9, season |-> 13, pilot |-> 16, round |-> 21]
First == [club |-> 3, entry |-> 6, site |-> 10, pilot |-> 15, round |-> 20]
Last == [First EXCEPT !["club"] = 11]

Documents == Kinds \ {"season"}
Drawn == {"entry", "pilot", "round"}

LEMMA PlanIs ==
  /\ Len(Plan) = 25
  /\ Plan[1] = <<"club", "query">> /\ Plan[2] = <<"club", "index">> /\ Plan[3] = <<"club", "docs">>
  /\ Plan[4] = <<"entry", "query">> /\ Plan[5] = <<"entry", "years">>
  /\ Plan[6] = <<"entry", "docs">> /\ Plan[7] = <<"entry", "index">>
  /\ Plan[8] = <<"site", "query">> /\ Plan[9] = <<"site", "index">>
  /\ Plan[10] = <<"site", "docs">> /\ Plan[11] = <<"club", "docs">>
  /\ Plan[12] = <<"season", "query">> /\ Plan[13] = <<"season", "index">>
  /\ Plan[14] = <<"pilot", "query">> /\ Plan[15] = <<"pilot", "docs">>
  /\ Plan[16] = <<"pilot", "index">> /\ Plan[17] = <<"round", "query">>
  /\ Plan[18] = <<"team", "query">> /\ Plan[19] = <<"place", "query">>
  /\ Plan[20] = <<"round", "docs">> /\ Plan[21] = <<"round", "index">>
  /\ Plan[22] = <<"round", "manifest">> /\ Plan[23] = <<"round", "briefs">>
  /\ Plan[24] = <<"season", "league">> /\ Plan[25] = <<"season", "results">>
BY DEF Plan

LEMMA TaskIs ==
  ASSUME NEW n \in 1 .. 25
  PROVE  /\ Plan[n][2] = "query" <=> n \in {1, 4, 8, 12, 14, 17, 18, 19}
         /\ Plan[n][2] = "index" <=> n \in {2, 7, 9, 13, 16, 21}
         /\ Plan[n][2] = "docs" <=> n \in {3, 6, 10, 11, 15, 20}
         /\ Plan[n][2] = "years" <=> n = 5
         /\ Plan[n][2] = "manifest" <=> n = 22
         /\ Plan[n][2] = "briefs" <=> n = 23
         /\ Plan[n][2] = "league" <=> n = 24
         /\ Plan[n][2] = "results" <=> n = 25
BY PlanIs

LEMMA TablesAre ==
  /\ Tables = {"club", "entry", "site", "season", "pilot", "round", "team", "place"}
  /\ Kinds = {"club", "entry", "site", "season", "pilot", "round"}
  /\ Kinds \subseteq Tables
BY DEF Kinds, Tables, RowsOf

LEMMA KindsAre == Kinds = {"club", "entry", "site", "season", "pilot", "round"} /\ Kinds \subseteq Tables
BY TablesAre

LEMMA StepKindIs ==
  ASSUME NEW n \in 1 .. 25
  PROVE  /\ Plan[n][1] = "club" <=> n \in {1, 2, 3, 11}
         /\ Plan[n][1] = "entry" <=> n \in {4, 5, 6, 7}
         /\ Plan[n][1] = "site" <=> n \in {8, 9, 10}
         /\ Plan[n][1] = "season" <=> n \in {12, 13, 24, 25}
         /\ Plan[n][1] = "pilot" <=> n \in {14, 15, 16}
         /\ Plan[n][1] = "round" <=> n \in {17, 20, 21, 22, 23}
         /\ Plan[n][1] \in Tables
         /\ n \notin {18, 19} => Plan[n][1] \in Kinds
BY PlanIs, TablesAre

LEMMA KindIs ==
  /\ \A k \in Tables, row \in Rows : row \in RowsOf[k] <=> KindOf(row) = k
  /\ \A k \in Tables : RowsOf[k] \subseteq Rows
  /\ \A row \in Rows : KindOf(row) \in Tables
<1>1. \A k \in Tables : RowsOf[k] \subseteq Rows
  BY DEF Tables, RowsOf, Rows
<1>2. ASSUME NEW row \in Rows PROVE KindOf(row) \in Tables /\ row \in RowsOf[KindOf(row)]
  <2>1. \E k \in Tables : row \in RowsOf[k]
    BY DEF Rows, Tables, RowsOf
  <2>. QED
    BY <2>1 DEF KindOf
<1>3. ASSUME NEW k \in Tables, NEW row \in Rows, row \in RowsOf[k] PROVE KindOf(row) = k
  BY <1>2, <1>3, MigrationAssumption
<1>. QED
  BY <1>1, <1>2, <1>3

-----------------------------------------------------------------------------
(* A run: its place in the plan, what it has read, and the UUIDs.          *)

(* The results of a season are written in the loop of its league.          *)
Looping == IF run.at = 25 THEN 24 ELSE run.at

RunTypes ==
  /\ run.at \in 1 .. 26
  /\ run = [at |-> run.at, mode |-> run.mode, row |-> run.row, todo |-> run.todo,
            read |-> run.read, steady |-> run.steady]
  /\ run.mode \in {"real", "resume", "dry"} /\ run.steady \in BOOLEAN
  /\ run.row \cup run.todo \subseteq LoopOf(Looping, run.read)
  /\ run.at = 25 /\ run.row = {} => run.todo = {}
  /\ run.row \cap run.todo = {} /\ \A a, b \in run.row : a = b

(* Rows are read kind by kind, those of a kind at once.                    *)
ReadInOrder ==
  /\ \A row \in DOMAIN run.read : row \in Rows /\ QueryOf[KindOf(row)] < run.at
  /\ \A k \in {"team", "place"} : run.at > QueryOf[k] =>
       \E s \in Sources : \A row \in ReadOf(k) : row \in DOMAIN s /\ run.read[row] = s[row]

(* A run in which the database is left alone reads it as it is.            *)
ReadAsIs ==
  run.steady => \A row \in Rows : QueryOf[KindOf(row)] < run.at =>
    /\ row \in DOMAIN run.read <=> row \in DOMAIN source
    /\ row \in DOMAIN source => run.read[row] = source[row]

(* A row that was read has its UUID, or gets it when its turn comes.       *)
Waits(row) ==
  /\ KindOf(row) \in Drawn
  /\ \/ run.at < First[KindOf(row)]
     \/ run.at = First[KindOf(row)] /\ row \in run.todo
HasIds == \A row \in DOMAIN run.read : KindOf(row) \in Kinds => memory[row] # 0 \/ Waits(row)

Ids ==
  /\ minted \in Nat
  /\ idMap \in [Rows -> 0 .. minted] /\ memory \in [Rows -> 0 .. minted]
  /\ \A a, b \in Rows : memory[a] = memory[b] /\ memory[a] # 0 => a = b
  /\ \A row \in Rows : idMap[row] # 0 => memory[row] = idMap[row]

(* The map that is not yet on disk is waited for before the next upload.   *)
Unsaved == run.at \in {2, 9, 13} \/ (run.at \in {6, 15, 20} /\ run.row # {})

Spent == spent = [runs |-> spent.runs, edits |-> spent.edits, lost |-> spent.lost] /\ spent.lost \in Nat

RunInv ==
  /\ source \in Sources /\ Ids /\ Spent
  /\ Running => RunTypes /\ ReadInOrder /\ ReadAsIs /\ HasIds
  /\ memory # idMap => Running /\ Unsaved

LEMMA OffIs == Off.at = 0 /\ (Running => run # Off)
BY DEF Off, Running

LEMMA MintIs ==
  ASSUME Ids, NEW rows, rows \subseteq Rows, Mint(rows)
  PROVE  /\ Ids' \/ ~UNCHANGED idMap
         /\ minted' \in Nat /\ minted' >= minted
         /\ \A row \in Rows : memory[row] # 0 => memory'[row] = memory[row]
         /\ \A row \in rows : memory'[row] # 0
         /\ \A row \in Rows : memory'[row] # 0 => memory[row] # 0 \/ row \in rows
         /\ (\A row \in rows : memory[row] # 0) => memory' = memory
<1>. DEFINE fresh == {row \in rows : memory[row] = 0}
            n == Cardinality(fresh)
            into == (minted + 1) .. (minted + n)
            order == CHOOSE f \in [fresh -> into] : \A a, b \in fresh : f[a] = f[b] => a = b
<1>1. IsFiniteSet(fresh) /\ n \in Nat
  BY MigrationAssumption, FS_Subset, FS_CardinalityType
<1>2. minted' = minted + n /\ memory' = [row \in Rows |-> IF row \in fresh THEN order[row] ELSE memory[row]]
  BY DEF Mint
<1>3. minted \in Nat /\ memory \in [Rows -> 0 .. minted]
  BY DEF Ids
<1>4. \E f \in [fresh -> into] : \A a, b \in fresh : f[a] = f[b] => a = b
  <2>1. IsFiniteSet(into) /\ Cardinality(into) = n
    BY <1>1, <1>3, FS_Interval
  <2>2. ExistsBijection(fresh, into)
    BY <1>1, <2>1, FS_SameCardinalityBij
  <2>. QED
    BY <2>2 DEF ExistsBijection, Bijection, Injection, IsInjective
<1>5. order \in [fresh -> into] /\ \A a, b \in fresh : order[a] = order[b] => a = b
  BY <1>4
<1>. HIDE DEF order
<1>6. \A row \in fresh : order[row] \in into /\ order[row] > minted /\ order[row] <= minted + n /\ order[row] # 0
  BY <1>1, <1>3, <1>5
<1>7. minted' \in Nat /\ minted' >= minted /\ \A row \in Rows : memory'[row] \in 0 .. minted'
  BY <1>1, <1>2, <1>3, <1>6
<1>8. \A row \in Rows : memory[row] # 0 => memory'[row] = memory[row]
  BY <1>2
<1>9. \A row \in rows : memory'[row] # 0
  BY <1>2, <1>6
<1>10. \A row \in Rows : memory'[row] # 0 => memory[row] # 0 \/ row \in rows
  BY <1>2
<1>11. \A a, b \in Rows : memory'[a] = memory'[b] /\ memory'[a] # 0 => a = b
  BY <1>2, <1>3, <1>5, <1>6 DEF Ids
<1>12. UNCHANGED idMap => Ids'
  <2>. SUFFICES ASSUME UNCHANGED idMap PROVE Ids'
    OBVIOUS
  <2>1. idMap' \in [Rows -> 0 .. minted'] /\ memory' \in [Rows -> 0 .. minted']
    BY <1>2, <1>3, <1>7 DEF Ids
  <2>. QED
    BY <1>7, <1>8, <1>11, <2>1 DEF Ids
<1>13. (\A row \in rows : memory[row] # 0) => memory' = memory
  BY <1>2, <1>3
<1>. QED
  BY <1>7, <1>8, <1>9, <1>10, <1>12, <1>13

-----------------------------------------------------------------------------
(* The steps of a run.                                                     *)

(* A step that is done with an upload, or goes past one.                   *)
Moves ==
  /\ Running /\ UNCHANGED <<source, idMap, memory, minted, spent>> /\ memory = idMap
  /\ run.at \in 1 .. 25 /\ Plan[run.at][2] # "query"
  /\ \/ run.todo = {} /\ run' = Advance(run)
     \/ run.todo # {} /\ run.row # {} /\ run.at # 25 /\ run' = [run EXCEPT !.row = {}]

Uploads ==
  \/ WriteIndex \/ NoRows \/ WriteManifest
  \/ \E row \in Rows : WriteDoc(row) \/ WriteBrief(row)

(* The two files of a season, in one loop.                                 *)
Seasonal == \E row \in Rows : WriteLeague(row) \/ WriteResults(row)

LEMMA AtIs ==
  ASSUME RunInv, NEW task, At(task)
  PROVE  Running /\ RunTypes /\ run.at \in 1 .. 25 /\ Plan[run.at][2] = task
BY PlanIs DEF RunInv, RunTypes, At, Step

LEMMA LoopIs ==
  ASSUME NEW at \in 1 .. 26, NEW read
  PROVE  /\ at \in {3, 6, 10, 11, 15, 20, 23, 24} =>
              LoopOf(at, read) = {row \in DOMAIN read : row \in RowsOf[Plan[at][1]]}
         /\ at \notin {3, 6, 10, 11, 15, 20, 23, 24} => LoopOf(at, read) = {}
<1>1. CASE at = 26
  BY <1>1, PlanIs DEF LoopOf
<1>2. CASE at \in 1 .. 25
  BY <1>2, PlanIs, TaskIs DEF LoopOf
<1>. QED
  BY <1>1, <1>2

LEMMA RunIs ==
  ASSUME RunTypes
  PROVE  /\ DOMAIN run = {"at", "mode", "row", "todo", "read", "steady"}
         /\ run.at \in 1 .. 26 /\ run.at \in Nat
         /\ run.row \cup run.todo \subseteq LoopOf(Looping, run.read)
         /\ run.at # 25 => Looping = run.at
BY DEF RunTypes, Looping

LEMMA UploadsMove == ASSUME RunInv, Uploads PROVE Moves
<1>1. ASSUME At("index") \/ At("manifest") PROVE run.todo = {}
  <2>1. RunTypes /\ run.at \in {2, 7, 9, 13, 16, 21, 22}
    BY <1>1, AtIs, TaskIs
  <2>. QED
    BY <2>1, LoopIs, RunIs
<1>2. CASE WriteIndex
  <2>1. run.at \in 1 .. 25 /\ Plan[run.at][2] # "query" /\ Running
    BY <1>2, AtIs, TaskIs DEF WriteIndex
  <2>. QED
    BY <1>1, <1>2, <2>1 DEF WriteIndex, Moves, Saved
<1>3. CASE NoRows
  <2>1. run.at \in {3, 6, 10, 11, 15, 20, 23, 24, 25} /\ Running
    BY <1>3, AtIs, TaskIs DEF NoRows
  <2>2. memory = idMap
    BY <1>3, <2>1 DEF NoRows, RunInv, Unsaved
  <2>3. run.at \in 1 .. 25 /\ Plan[run.at][2] # "query"
    BY <2>1, TaskIs
  <2>. QED
    BY <1>3, <2>1, <2>2, <2>3 DEF NoRows, Moves
<1>4. CASE WriteManifest
  <2>1. run.at = 22 /\ Running
    BY <1>4, AtIs, TaskIs DEF WriteManifest
  <2>2. memory = idMap
    BY <2>1 DEF RunInv, Unsaved
  <2>3. Plan[run.at][2] # "query"
    BY <2>1, TaskIs
  <2>. QED
    BY <1>1, <1>4, <2>1, <2>2, <2>3 DEF WriteManifest, Moves
<1>5. ASSUME NEW row, WriteDoc(row) PROVE Moves
  <2>1. run.at \in {3, 6, 10, 11, 15, 20} /\ Running
    BY <1>5, AtIs, TaskIs DEF WriteDoc
  <2>2. Plan[run.at][2] # "query" /\ run.at \in 1 .. 25
    BY <2>1, TaskIs
  <2>. QED
    BY <1>5, <2>1, <2>2 DEF WriteDoc, Moves, Saved, Written
<1>6. ASSUME NEW row, WriteBrief(row) PROVE Moves
  <2>1. run.at = 23 /\ Running
    BY <1>6, AtIs, TaskIs DEF WriteBrief
  <2>2. memory = idMap
    BY <2>1 DEF RunInv, Unsaved
  <2>3. Plan[run.at][2] # "query" /\ run.at \in 1 .. 25
    BY <2>1, TaskIs
  <2>. QED
    BY <1>6, <2>1, <2>2, <2>3 DEF WriteBrief, Moves, Written
<1>. QED
  BY <1>2, <1>3, <1>4, <1>5, <1>6 DEF Uploads

(* What a run is like after each of its steps.                             *)
Record(r) ==
  r = [at |-> r.at, mode |-> r.mode, row |-> r.row, todo |-> r.todo, read |-> r.read,
       steady |-> r.steady]

LEMMA RecordAdvances ==
  ASSUME NEW at, NEW mode, NEW row, NEW todo, NEW read, NEW steady, NEW r,
         r = [at |-> at, mode |-> mode, row |-> row, todo |-> todo, read |-> read,
              steady |-> steady]
  PROVE  /\ Advance(r) = [at |-> at + 1, mode |-> mode, row |-> {},
                          todo |-> LoopOf(at + 1, read), read |-> read, steady |-> steady]
         /\ [r EXCEPT !.row = {}] = [at |-> at, mode |-> mode, row |-> {}, todo |-> todo,
                                     read |-> read, steady |-> steady]
<1>1. r.at = at /\ r.read = read
  OBVIOUS
<1>2. LoopOf(r.at + 1, r.read) = LoopOf(at + 1, read)
  BY <1>1
<1>3. ASSUME NEW next, NEW loop
      PROVE  [r EXCEPT !.at = next, !.row = {}, !.todo = loop] =
               [at |-> next, mode |-> mode, row |-> {}, todo |-> loop, read |-> read, steady |-> steady]
  <2>1. PICK x : x = [r EXCEPT !.at = next]
    OBVIOUS
  <2>2. x = [at |-> next, mode |-> mode, row |-> row, todo |-> todo, read |-> read, steady |-> steady]
    BY <2>1
  <2>3. PICK y : y = [x EXCEPT !.row = {}]
    OBVIOUS
  <2>4. y = [at |-> next, mode |-> mode, row |-> {}, todo |-> todo, read |-> read, steady |-> steady]
    BY <2>2, <2>3
  <2>5. [y EXCEPT !.todo = loop] = [at |-> next, mode |-> mode, row |-> {}, todo |-> loop, read |-> read,
                                    steady |-> steady]
    BY <2>4
  <2>. QED
    BY <2>1, <2>3, <2>5
<1>4. [r EXCEPT !.row = {}] = [at |-> at, mode |-> mode, row |-> {}, todo |-> todo,
                               read |-> read, steady |-> steady]
  OBVIOUS
<1>5. Advance(r) = [at |-> r.at + 1, mode |-> mode, row |-> {}, todo |-> LoopOf(r.at + 1, r.read),
                    read |-> read, steady |-> steady]
  BY <1>3 DEF Advance
<1>. QED
  BY <1>1, <1>2, <1>4, <1>5

LEMMA AdvanceIs ==
  ASSUME NEW r, Record(r)
  PROVE  /\ Advance(r) = [at |-> r.at + 1, mode |-> r.mode, row |-> {},
                          todo |-> LoopOf(r.at + 1, r.read), read |-> r.read, steady |-> r.steady]
         /\ [r EXCEPT !.row = {}] = [at |-> r.at, mode |-> r.mode, row |-> {}, todo |-> r.todo,
                                     read |-> r.read, steady |-> r.steady]
BY RecordAdvances DEF Record

LEMMA MovesRun ==
  ASSUME RunInv, Moves
  PROVE  /\ Running' /\ Record(run') /\ run'.mode = run.mode /\ run'.read = run.read
         /\ run'.steady = run.steady /\ run'.row = {}
         /\ \/ /\ run.todo = {} /\ run'.at = run.at + 1
               /\ run'.todo = LoopOf(run.at + 1, run.read)
            \/ /\ run.todo # {} /\ run.row # {} /\ run.at # 25
               /\ run'.at = run.at /\ run'.todo = run.todo
<1>1. Record(run) /\ run.at \in 1 .. 25
  BY DEF Moves, RunInv, RunTypes, Record
<1>2. CASE run.todo = {} /\ run' = Advance(run)
  <2>1. run' = [at |-> run.at + 1, mode |-> run.mode, row |-> {},
                todo |-> LoopOf(run.at + 1, run.read), read |-> run.read, steady |-> run.steady]
    BY <1>1, <1>2, AdvanceIs
  <2>2. run'.at # 0
    BY <1>1, <2>1
  <2>. QED
    BY <1>2, <2>1, <2>2 DEF Record, Running, Off
<1>3. CASE run.todo # {} /\ run.row # {} /\ run.at # 25 /\ run' = [run EXCEPT !.row = {}]
  BY <1>1, <1>3, AdvanceIs DEF Record, Running, Off
<1>. QED
  BY <1>2, <1>3 DEF Moves

LEMMA QueryOfIs ==
  /\ \A k \in Tables : QueryOf[k] \in 1 .. 19 /\ Plan[QueryOf[k]][2] = "query" /\ Plan[QueryOf[k]][1] = k
  /\ \A n \in 1 .. 25 : Plan[n][2] = "query" => n = QueryOf[Plan[n][1]] /\ Plan[n][1] \in Tables
  /\ QueryOf["team"] = 18 /\ QueryOf["place"] = 19
<1>1. QueryOf = [club |-> 1, entry |-> 4, site |-> 8, season |-> 12, pilot |-> 14, round |-> 17,
            team |-> 18, place |-> 19]
  BY DEF QueryOf
<1>. QED
  BY <1>1, TablesAre, PlanIs

LEMMA FirstIs ==
  /\ \A k \in Documents : First[k] \in 1 .. 25 /\ Plan[First[k]][2] = "docs" /\ Plan[First[k]][1] = k
  /\ \A k \in Documents : Last[k] \in 1 .. 25 /\ Plan[Last[k]][2] = "docs" /\ Plan[Last[k]][1] = k
  /\ \A k \in Documents : QueryOf[k] < First[k] /\ First[k] <= Last[k]
  /\ First["entry"] = 6 /\ First["pilot"] = 15 /\ First["round"] = 20
  /\ First["club"] = 3 /\ First["site"] = 10
  /\ Last["entry"] = 6 /\ Last["pilot"] = 15 /\ Last["round"] = 20
  /\ Last["club"] = 11 /\ Last["site"] = 10
  /\ Drawn \subseteq Documents /\ Documents \subseteq Kinds
  /\ Documents = {"club", "entry", "site", "pilot", "round"}
<1>1. Documents = {"club", "entry", "site", "pilot", "round"}
  BY KindsAre DEF Documents
<1>2. First = [club |-> 3, entry |-> 6, site |-> 10, pilot |-> 15, round |-> 20]
  BY DEF First
<1>3. Last = [club |-> 11, entry |-> 6, site |-> 10, pilot |-> 15, round |-> 20]
  BY <1>2 DEF Last
<1>. QED
  BY <1>1, <1>2, <1>3, PlanIs, KindsAre DEF QueryOf, Drawn

LEMMA MovesRunInv == ASSUME RunInv, Moves PROVE RunInv'
<1>1. RunTypes /\ ReadInOrder /\ ReadAsIs /\ HasIds /\ run.at \in 1 .. 25
  BY DEF Moves, RunInv
<1>2. RunTypes'
  <2>1. CASE run'.at = run.at + 1 /\ run'.todo = LoopOf(run.at + 1, run.read)
    <3>1. run.at = 24 => LoopOf(25, run.read) = {}
      BY LoopIs
    <3>. QED
      BY <1>1, <2>1, <3>1, MovesRun DEF RunTypes, Record, Looping
  <2>2. CASE run'.at = run.at /\ run'.todo = run.todo /\ run.at # 25
    BY <1>1, <2>2, MovesRun DEF RunTypes, Record, Looping
  <2>. QED
    BY <2>1, <2>2, MovesRun
<1>3. run.at <= run'.at /\ run'.at <= run.at + 1 /\ run'.at \in Nat
  BY <1>1, MovesRun
<1>4. \A k \in Tables : QueryOf[k] < run'.at => QueryOf[k] < run.at
  BY <1>1, <1>3, QueryOfIs DEF Moves
<1>5. \A k \in {"team", "place"} : run'.at > QueryOf[k] => run.at > QueryOf[k]
  BY <1>1, <1>3, <1>4, TablesAre, QueryOfIs
<1>6. ReadInOrder'
  <2>1. \A row \in DOMAIN run.read : row \in Rows /\ QueryOf[KindOf(row)] < run.at
    BY <1>1 DEF ReadInOrder
  <2>2. \A row \in DOMAIN run.read : QueryOf[KindOf(row)] < run'.at
    BY <1>1, <1>3, <2>1, KindIs, QueryOfIs
  <2>. QED
    BY <1>1, <1>5, <2>1, <2>2, MovesRun DEF ReadInOrder, ReadOf
<1>7. ReadAsIs'
  BY <1>1, <1>4, KindIs, MovesRun DEF ReadAsIs, Moves
<1>8. HasIds'
  <2>. SUFFICES ASSUME NEW row \in DOMAIN run.read, Waits(row) PROVE Waits(row)'
    BY <1>1, MovesRun DEF HasIds, Moves
  <2>1. KindOf(row) \in Drawn /\ KindOf(row) \in Documents /\ row \in RowsOf[KindOf(row)] /\ row \in Rows
    BY <1>1, FirstIs, KindIs DEF Waits, ReadInOrder
  <2>. DEFINE first == First[KindOf(row)]
  <2>2. first \in 1 .. 25 /\ first \in {6, 15, 20} /\ Plan[first][1] = KindOf(row)
    BY <2>1, FirstIs DEF Drawn
  <2>3. row \in LoopOf(first, run.read)
    BY <2>1, <2>2, LoopIs
  <2>4. CASE run.at < first
    BY <1>1, <1>3, <2>1, <2>2, <2>3, <2>4, MovesRun DEF Waits
  <2>5. CASE run.at = first /\ row \in run.todo
    BY <1>1, <2>1, <2>5, MovesRun DEF Waits
  <2>. QED
    BY <2>4, <2>5 DEF Waits
<1>. QED
  BY <1>2, <1>6, <1>7, <1>8, MovesRun DEF RunInv, Moves, Ids, Spent

(* Reading the rows of a kind.                                             *)
Found == {row \in DOMAIN source : row \in RowsOf[Step[1]]}

LEMMA QueryRun ==
  ASSUME RunInv, Query
  PROVE  /\ Running /\ RunTypes /\ Step = Plan[run.at] /\ run.at \in {1, 4, 8, 12, 14, 17, 18, 19}
         /\ run.at = QueryOf[Step[1]] /\ Step[1] \in Tables
         /\ Running' /\ Record(run') /\ run'.mode = run.mode /\ run'.steady = run.steady
         /\ run'.at = run.at + 1 /\ run'.row = {} /\ run'.todo = LoopOf(run.at + 1, run'.read)
         /\ DOMAIN run'.read = DOMAIN run.read \cup Found
         /\ \A row \in Found : run'.read[row] = source[row]
         /\ \A row \in DOMAIN run.read \ Found : run'.read[row] = run.read[row]
         /\ Found \subseteq Rows /\ Found \cap DOMAIN run.read = {}
         /\ Mint(IF Step[1] \in {"club", "site", "season"} THEN Found ELSE {})
<1>. DEFINE read == [row \in DOMAIN run.read \cup Found |->
                       IF row \in Found THEN source[row] ELSE run.read[row]]
<1>1. Running /\ RunTypes /\ run.at \in {1, 4, 8, 12, 14, 17, 18, 19} /\ Step[2] = "query"
  BY AtIs, TaskIs DEF Query, Step
<1>2. run.at = QueryOf[Step[1]] /\ Step[1] \in Tables
  BY <1>1, QueryOfIs DEF Step
<1>3. run' = Advance([run EXCEPT !.read = read])
  BY DEF Query, Found
<1>4. PICK r : r = [run EXCEPT !.read = read]
  OBVIOUS
<1>5. r = [at |-> run.at, mode |-> run.mode, row |-> run.row, todo |-> run.todo, read |-> read,
           steady |-> run.steady]
  BY <1>1, <1>4 DEF RunTypes
<1>6. Record(r)
  BY <1>5 DEF Record
<1>7. run' = [at |-> run.at + 1, mode |-> run.mode, row |-> {}, todo |-> LoopOf(run.at + 1, read),
              read |-> read, steady |-> run.steady]
  <2>1. Advance(r) = [at |-> r.at + 1, mode |-> r.mode, row |-> {}, todo |-> LoopOf(r.at + 1, r.read),
                      read |-> r.read, steady |-> r.steady]
    BY <1>6, AdvanceIs
  <2>2. r.at = run.at /\ r.mode = run.mode /\ r.read = read /\ r.steady = run.steady
    BY <1>5
  <2>. QED
    BY <1>3, <1>4, <2>1, <2>2
<1>8. Found \subseteq Rows
  BY <1>2, KindIs DEF Found
<1>9. Found \cap DOMAIN run.read = {}
  <2>. SUFFICES ASSUME NEW row \in Found, row \in DOMAIN run.read PROVE FALSE
    OBVIOUS
  <2>1. KindOf(row) = Step[1]
    BY <1>2, <1>8, KindIs DEF Found
  <2>2. QueryOf[KindOf(row)] < run.at
    BY <1>1 DEF RunInv, ReadInOrder
  <2>. QED
    BY <1>1, <1>2, <2>1, <2>2
<1>10. Running'
  <2>1. run'.at = run.at + 1
    BY <1>7
  <2>. QED
    BY <1>1, <2>1 DEF Running, Off
<1>. HIDE DEF read
<1>11. DOMAIN read = DOMAIN run.read \cup Found /\ (\A row \in Found : read[row] = source[row])
       /\ \A row \in DOMAIN run.read \ Found : read[row] = run.read[row]
  BY DEF read
<1>12. Mint(IF Step[1] \in {"club", "site", "season"} THEN Found ELSE {})
  BY DEF Query, Found
<1>13. /\ Record(run') /\ run'.mode = run.mode /\ run'.steady = run.steady /\ run'.read = read
       /\ run'.at = run.at + 1 /\ run'.row = {} /\ run'.todo = LoopOf(run.at + 1, read)
  BY <1>7 DEF Record
<1>. QED
  BY <1>1, <1>2, <1>8, <1>9, <1>10, <1>11, <1>12, <1>13 DEF Step

LEMMA QueryRunInv == ASSUME RunInv, Query PROVE RunInv'
<1>. DEFINE K == Step[1]  q == run.at
            rows == IF K \in {"club", "site", "season"} THEN Found ELSE {}
<1>1. /\ RunTypes /\ ReadInOrder /\ ReadAsIs /\ HasIds /\ q \in {1, 4, 8, 12, 14, 17, 18, 19} /\ Ids
      /\ q = QueryOf[K] /\ K \in Tables /\ UNCHANGED <<source, idMap, spent>>
  BY QueryRun DEF RunInv, Query
<1>2. /\ Ids' /\ \A row \in Rows : memory[row] # 0 => memory'[row] = memory[row]
      /\ \A row \in rows : memory'[row] # 0
      /\ (\A row \in rows : memory[row] # 0) => memory' = memory
  BY <1>1, QueryRun, MintIs
<1>3. RunTypes'
  <2>1. run'.at \in 1 .. 26 /\ run'.at # 25 /\ run'.row = {} /\ run'.todo = LoopOf(run'.at, run'.read)
    BY <1>1, QueryRun
  <2>. QED
    BY <1>1, <2>1, QueryRun DEF RunTypes, Record, Looping
<1>4. \A row \in DOMAIN run'.read : row \in Rows /\ KindOf(row) \in Tables /\ (row \in Found <=> KindOf(row) = K)
  <2>1. \A row \in DOMAIN run.read : row \in Rows /\ QueryOf[KindOf(row)] < q
    BY <1>1 DEF ReadInOrder
  <2>2. \A row \in Found : KindOf(row) = K
    BY <1>1, QueryRun, KindIs DEF Found
  <2>3. \A row \in DOMAIN run.read : KindOf(row) # K
    BY <1>1, <2>1
  <2>. QED
    BY <2>1, <2>2, <2>3, QueryRun, KindIs
<1>5. \A k \in Tables : QueryOf[k] < q + 1 <=> QueryOf[k] < q \/ k = K
  BY <1>1, QueryOfIs
<1>6. ReadInOrder'
  <2>1. \A row \in DOMAIN run'.read : row \in Rows /\ QueryOf[KindOf(row)] < q + 1
    BY <1>1, <1>4, <1>5, QueryRun DEF ReadInOrder
  <2>2. source \in Sources
    BY DEF RunInv
  <2>3. ASSUME NEW k \in {"team", "place"}, q + 1 > QueryOf[k]
        PROVE  \E s \in Sources : \A row \in ReadOf(k)' : row \in DOMAIN s /\ run'.read[row] = s[row]
    <3>0. k \in Tables
      BY TablesAre
    <3>1. CASE k = K
      <4>1. \A row \in ReadOf(k)' : row \in Found
        BY <1>4, <3>0, <3>1, KindIs DEF ReadOf
      <4>2. \A row \in ReadOf(k)' : row \in DOMAIN source /\ run'.read[row] = source[row]
        BY <4>1, QueryRun DEF Found
      <4>. QED
        BY <2>2, <4>2
    <3>2. CASE k # K
      <4>1. q > QueryOf[k]
        BY <1>5, <2>3, <3>0, <3>2, <1>1, QueryOfIs
      <4>2. PICK s \in Sources : \A row \in ReadOf(k) : row \in DOMAIN s /\ run.read[row] = s[row]
        BY <1>1, <4>1 DEF ReadInOrder
      <4>3. \A row \in ReadOf(k)' : row \in ReadOf(k) /\ row \in DOMAIN run.read \ Found
        BY <1>4, <3>0, <3>2, QueryRun, KindIs DEF ReadOf
      <4>4. \A row \in ReadOf(k)' : row \in DOMAIN s /\ run'.read[row] = s[row]
        BY <4>2, <4>3, QueryRun
      <4>. QED
        BY <4>4
    <3>. QED
      BY <3>1, <3>2
  <2>. QED
    BY <2>1, <2>3, QueryRun DEF ReadInOrder
<1>7. ReadAsIs'
  <2>. SUFFICES ASSUME run.steady, NEW row \in Rows, QueryOf[KindOf(row)] < q + 1
                PROVE  /\ row \in DOMAIN run'.read <=> row \in DOMAIN source
                       /\ row \in DOMAIN source => run'.read[row] = source[row]
    BY <1>1, QueryRun DEF ReadAsIs
  <2>1. KindOf(row) \in Tables /\ (row \in RowsOf[K] <=> KindOf(row) = K)
    BY <1>1, KindIs
  <2>2. CASE KindOf(row) = K
    <3>1. row \in Found <=> row \in DOMAIN source
      BY <2>1, <2>2 DEF Found
    <3>2. row \notin DOMAIN run.read
      BY <1>1, <2>2 DEF ReadInOrder
    <3>. QED
      BY <3>1, <3>2, QueryRun
  <2>3. CASE KindOf(row) # K
    <3>1. row \notin Found /\ QueryOf[KindOf(row)] < q
      BY <1>5, <2>1, <2>3 DEF Found
    <3>. QED
      BY <1>1, <3>1, QueryRun DEF ReadAsIs
  <2>. QED
    BY <2>2, <2>3
<1>8. HasIds'
  <2>. SUFFICES ASSUME NEW row \in DOMAIN run'.read, KindOf(row) \in Kinds, memory'[row] = 0
                PROVE  Waits(row)'
    BY DEF HasIds
  <2>0. row \in Rows
    BY <1>4
  <2>1. CASE row \in Found
    <3>1. KindOf(row) = K /\ K \notin {"club", "site", "season"}
      BY <1>2, <1>4, <2>1
    <3>2. K \in Drawn /\ q + 1 <= First[K]
      BY <1>1, <3>1, KindsAre, FirstIs DEF Drawn
    <3>3. q + 1 = First[K] => row \in LoopOf(q + 1, run'.read)
      BY <1>1, <2>0, <3>1, <3>2, LoopIs, FirstIs, KindIs DEF Drawn
    <3>4. run'.at = q + 1 /\ run'.todo = LoopOf(q + 1, run'.read) /\ First[K] \in {6, 15, 20}
      BY <3>2, QueryRun, FirstIs DEF Drawn
    <3>. QED
      BY <1>1, <3>1, <3>2, <3>3, <3>4 DEF Waits
  <2>2. CASE row \notin Found
    <3>1. row \in DOMAIN run.read /\ memory[row] = 0
      BY <1>2, <2>0, <2>2, QueryRun
    <3>2. Waits(row)
      BY <1>1, <3>1 DEF HasIds
    <3>3. run.todo = {}
      BY <1>1, LoopIs DEF RunTypes, Looping
    <3>4. KindOf(row) \in Drawn /\ q < First[KindOf(row)]
      BY <3>2, <3>3 DEF Waits
    <3>5. q + 1 = First[KindOf(row)] => row \in LoopOf(q + 1, run'.read)
      BY <1>1, <2>0, <3>1, <3>4, LoopIs, FirstIs, KindIs, QueryRun DEF Drawn
    <3>. QED
      BY <1>1, <3>4, <3>5, QueryRun, FirstIs DEF Waits, Drawn
  <2>. QED
    BY <2>1, <2>2
<1>9. memory' # idMap' => Unsaved'
  <2>1. memory = idMap
    BY <1>1 DEF RunInv, Unsaved
  <2>2. CASE K \in {"club", "site", "season"}
    BY <1>1, <2>2, QueryRun DEF Unsaved, QueryOf
  <2>3. CASE K \notin {"club", "site", "season"}
    BY <1>1, <1>2, <2>1, <2>3
  <2>. QED
    BY <2>2, <2>3
<1>. QED
  BY <1>1, <1>2, <1>3, <1>6, <1>7, <1>8, <1>9, QueryRun DEF RunInv, Spent

(* The turn of a row in a loop.                                            *)
LEMMA NextRowRun ==
  ASSUME RunInv, NEW row \in Rows, NextRow(row)
  PROVE  /\ Running /\ RunTypes /\ row \in run.todo /\ row \in DOMAIN run.read /\ run.row = {}
         /\ run.at \in {3, 6, 10, 11, 15, 20, 23, 24} /\ KindOf(row) = Plan[run.at][1]
         /\ Running' /\ Record(run') /\ run'.mode = run.mode /\ run'.steady = run.steady
         /\ run'.at = run.at /\ run'.row = {row} /\ run'.todo = run.todo \ {row}
         /\ run'.read = run.read /\ memory = idMap /\ Mint({row})
         /\ memory[row] = 0 => run.at \in {6, 15, 20} /\ run.at = First[KindOf(row)]
<1>1. Running /\ RunTypes /\ row \in run.todo /\ run.row = {} /\ Mint({row}) /\ HasIds
  BY DEF NextRow, RunInv
<1>2. run.at \in 1 .. 26 /\ row \in LoopOf(run.at, run.read)
  BY <1>1 DEF RunTypes, Looping
<1>3. run.at \in {3, 6, 10, 11, 15, 20, 23, 24} /\ row \in DOMAIN run.read
      /\ row \in RowsOf[Plan[run.at][1]] /\ Plan[run.at][1] \in Kinds
  BY <1>2, LoopIs, StepKindIs
<1>4. KindOf(row) = Plan[run.at][1]
  <2>1. row \in Rows /\ Plan[run.at][1] \in Tables
    BY <1>3, TablesAre
  <2>. QED
    BY <1>3, <2>1, KindIs
<1>5. run' = [at |-> run.at, mode |-> run.mode, row |-> {row}, todo |-> run.todo \ {row},
              read |-> run.read, steady |-> run.steady]
  <2>1. run' = [run EXCEPT !.row = {row}, !.todo = run.todo \ {row}]
    BY DEF NextRow
  <2>2. PICK x : x = [run EXCEPT !.row = {row}]
    OBVIOUS
  <2>3. x = [at |-> run.at, mode |-> run.mode, row |-> {row}, todo |-> run.todo, read |-> run.read,
             steady |-> run.steady]
    BY <1>1, <2>2 DEF RunTypes
  <2>4. [x EXCEPT !.todo = run.todo \ {row}] =
          [at |-> run.at, mode |-> run.mode, row |-> {row}, todo |-> run.todo \ {row},
           read |-> run.read, steady |-> run.steady]
    BY <2>3
  <2>. QED
    BY <2>1, <2>2, <2>4
<1>6. Running'
  <2>1. run'.at = run.at
    BY <1>5
  <2>. QED
    BY <1>2, <2>1 DEF Running, Off
<1>7. memory = idMap
  BY <1>1, <1>3 DEF RunInv, Unsaved
<1>8. ASSUME memory[row] = 0 PROVE run.at \in {6, 15, 20} /\ run.at = First[KindOf(row)]
  <2>1. Waits(row)
    BY <1>1, <1>3, <1>4, <1>8 DEF HasIds
  <2>2. KindOf(row) \in {"entry", "pilot", "round"} /\ run.at <= First[KindOf(row)]
    BY <1>3, <2>1, FirstIs DEF Waits, Drawn
  <2>3. run.at \in 1 .. 25
    BY <1>3
  <2>. QED
    BY <1>3, <1>4, <2>2, <2>3, StepKindIs, FirstIs
<1>. QED
  BY <1>1, <1>3, <1>4, <1>5, <1>6, <1>7, <1>8 DEF Record

LEMMA NextRowRunInv == ASSUME RunInv, NEW row \in Rows, NextRow(row) PROVE RunInv'
<1>1. /\ RunTypes /\ ReadInOrder /\ ReadAsIs /\ HasIds /\ Ids
      /\ UNCHANGED <<source, idMap, spent>>
  BY NextRowRun DEF RunInv, NextRow
<1>2. /\ Ids' /\ \A r \in Rows : memory[r] # 0 => memory'[r] = memory[r]
      /\ memory'[row] # 0 /\ (memory[row] # 0 => memory' = memory)
  <2>1. Mint({row}) /\ {row} \subseteq Rows
    BY NextRowRun
  <2>. QED
    BY <1>1, <2>1, MintIs
<1>3. RunTypes'
  <2>1. run.at # 25 /\ Looping = run.at /\ Looping' = run.at
    <3>1. run.at \in {3, 6, 10, 11, 15, 20, 23, 24} /\ run'.at = run.at
      BY NextRowRun
    <3>. QED
      BY <3>1 DEF Looping
  <2>2. run'.row \cup run'.todo \subseteq run.row \cup run.todo
    BY NextRowRun
  <2>3. run'.row \cap run'.todo = {} /\ \A a, b \in run'.row : a = b
    BY NextRowRun
  <2>. QED
    BY <1>1, <2>1, <2>2, <2>3, NextRowRun DEF RunTypes, Record
<1>4. ReadInOrder' /\ ReadAsIs'
  <2>1. run'.read = run.read /\ run'.at = run.at /\ run'.steady = run.steady
    BY NextRowRun
  <2>. QED
    BY <1>1, <2>1 DEF ReadInOrder, ReadAsIs, ReadOf
<1>5. HasIds'
  <2>. SUFFICES ASSUME NEW r \in DOMAIN run.read, KindOf(r) \in Kinds, memory'[r] = 0 PROVE Waits(r)'
    BY NextRowRun DEF HasIds
  <2>1. memory[r] = 0 /\ r # row
    BY <1>1, <1>2 DEF ReadInOrder
  <2>2. Waits(r)
    BY <1>1, <2>1 DEF HasIds
  <2>. QED
    BY <2>1, <2>2, NextRowRun DEF Waits
<1>6. memory' # idMap => Unsaved'
  BY <1>2, NextRowRun DEF Unsaved
<1>. QED
  BY <1>1, <1>2, <1>3, <1>4, <1>5, <1>6, NextRowRun DEF RunInv, Spent

(* Entries whose club or season was not read are passed over: none if the  *)
(* database is left alone.                                                 *)
LEMMA SkipRun ==
  ASSUME RunInv, SkipEntries
  PROVE  /\ Running /\ RunTypes /\ run.at = 5 /\ Running' /\ Record(run') /\ run'.mode = run.mode
         /\ run'.steady = run.steady /\ run'.at = 6 /\ run'.row = {} /\ run'.todo = LoopOf(6, run'.read)
         /\ DOMAIN run'.read \subseteq DOMAIN run.read
         /\ \A row \in DOMAIN run'.read : run'.read[row] = run.read[row]
         /\ \A row \in DOMAIN run.read : row \notin Entries => row \in DOMAIN run'.read
         /\ run.steady => DOMAIN run'.read = DOMAIN run.read
         /\ memory = idMap /\ UNCHANGED <<source, idMap, memory, minted, blobs, manifest, counted, spent>>
<1>. DEFINE years == DOMAIN source \cap SeasonRows
            whole(e) == run.read[e].links \cap ReadOf("club") # {} /\ run.read[e].links \cap years # {}
            left == {row \in DOMAIN run.read : row \in Entries => whole(row)}
            read == Restrict(run.read, left)
<1>1. Running /\ RunTypes /\ run.at = 5
  BY AtIs, TaskIs DEF SkipEntries
<1>2. run' = Advance([run EXCEPT !.read = read])
  BY DEF SkipEntries
<1>3. DOMAIN read = left /\ \A row \in left : read[row] = run.read[row]
  BY DEF Restrict
<1>4. PICK r : r = [run EXCEPT !.read = read]
  OBVIOUS
<1>5. r = [at |-> run.at, mode |-> run.mode, row |-> run.row, todo |-> run.todo, read |-> read,
           steady |-> run.steady]
  BY <1>1, <1>4 DEF RunTypes
<1>6. Record(r) /\ r.at = 5 /\ r.mode = run.mode /\ r.read = read /\ r.steady = run.steady
  BY <1>1, <1>5 DEF Record
<1>7. run' = [at |-> 6, mode |-> run.mode, row |-> {}, todo |-> LoopOf(6, read), read |-> read,
              steady |-> run.steady]
  <2>1. run' = [at |-> r.at + 1, mode |-> r.mode, row |-> {}, todo |-> LoopOf(r.at + 1, r.read),
                read |-> r.read, steady |-> r.steady]
    BY <1>2, <1>4, <1>6, AdvanceIs
  <2>2. r.at + 1 = 6
    BY <1>6
  <2>. QED
    BY <1>6, <2>1, <2>2
<1>8. ASSUME run.steady, NEW row \in DOMAIN run.read, row \in Entries PROVE whole(row)
  <2>1. source \in Sources /\ ReadInOrder /\ ReadAsIs
    BY <1>1 DEF RunInv
  <2>2. row \in DOMAIN source /\ run.read[row] = source[row]
    BY <1>8, <2>1 DEF ReadInOrder, ReadAsIs
  <2>3. source[row].links \cap Clubs # {} /\ source[row].links \cap SeasonRows # {}
    BY <1>8, <2>1, <2>2, MigrationAssumption
  <2>4. \A l \in source[row].links : l \in DOMAIN source
    BY <2>1, <2>2, MigrationAssumption
  <2>5. PICK l \in source[row].links : l \in Clubs
    BY <2>3
  <2>6. l \in Rows /\ KindOf(l) = "club" /\ l \in RowsOf["club"]
    <3>1. RowsOf["club"] = Clubs /\ "club" \in Tables
      BY TablesAre DEF RowsOf
    <3>2. l \in Rows
      BY <2>5 DEF Rows
    <3>. QED
      BY <2>5, <3>1, <3>2, KindIs
  <2>7. QueryOf["club"] < run.at
    BY <1>1 DEF QueryOf
  <2>8. l \in DOMAIN run.read
    BY <1>8, <2>1, <2>4, <2>6, <2>7 DEF ReadAsIs
  <2>. QED
    BY <2>2, <2>3, <2>4, <2>6, <2>8 DEF ReadOf
<1>9. run.steady => left = DOMAIN run.read
  BY <1>8
<1>10. memory = idMap
  BY <1>1 DEF RunInv, Unsaved
<1>. HIDE DEF read, left
<1>11. Running' /\ Record(run') /\ run'.mode = run.mode /\ run'.steady = run.steady /\ run'.read = read
       /\ run'.at = 6 /\ run'.row = {} /\ run'.todo = LoopOf(6, read)
  BY <1>7 DEF Record, Running, Off
<1>12. left \subseteq DOMAIN run.read /\ \A row \in DOMAIN run.read : row \notin Entries => row \in left
  BY DEF left
<1>13. UNCHANGED <<source, idMap, memory, minted, blobs, manifest, counted, spent>>
  BY DEF SkipEntries
<1>. QED
  BY <1>1, <1>3, <1>9, <1>10, <1>11, <1>12, <1>13

LEMMA SkipRunInv == ASSUME RunInv, SkipEntries PROVE RunInv'
<1>1. /\ RunTypes /\ ReadInOrder /\ ReadAsIs /\ HasIds /\ Ids /\ Spent /\ source \in Sources /\ run.at = 5
      /\ UNCHANGED <<source, idMap, memory, minted, spent>> /\ memory = idMap
  BY SkipRun DEF RunInv
<1>2. RunTypes'
  BY <1>1, SkipRun DEF RunTypes, Record, Looping
<1>3. \A k \in Tables : QueryOf[k] < 6 <=> QueryOf[k] < 5
  BY TablesAre DEF QueryOf
<1>4. ReadInOrder'
  <2>1. \A row \in DOMAIN run.read : row \in Rows /\ QueryOf[KindOf(row)] < 5
    BY <1>1 DEF ReadInOrder
  <2>2. \A row \in DOMAIN run'.read : row \in Rows /\ QueryOf[KindOf(row)] < 6
    BY <1>3, <2>1, SkipRun, KindIs
  <2>3. \A k \in {"team", "place"} : ~(6 > QueryOf[k])
    BY QueryOfIs
  <2>. QED
    BY <2>2, <2>3, SkipRun DEF ReadInOrder
<1>5. ReadAsIs'
  <2>. SUFFICES ASSUME run.steady, NEW row \in Rows, QueryOf[KindOf(row)] < 6
                PROVE  /\ row \in DOMAIN run'.read <=> row \in DOMAIN source
                       /\ row \in DOMAIN source => run'.read[row] = source[row]
    BY <1>1, SkipRun DEF ReadAsIs
  <2>1. QueryOf[KindOf(row)] < run.at
    BY <1>1, <1>3, KindIs
  <2>. QED
    BY <1>1, <2>1, SkipRun DEF ReadAsIs
<1>6. HasIds'
  <2>. SUFFICES ASSUME NEW row \in DOMAIN run'.read, KindOf(row) \in Kinds, memory[row] = 0
                PROVE  Waits(row)'
    BY <1>1 DEF HasIds
  <2>1. row \in DOMAIN run.read /\ row \in Rows /\ Waits(row)
    BY <1>1, SkipRun DEF HasIds, ReadInOrder
  <2>2. run.todo = {}
    BY <1>1, LoopIs DEF RunTypes, Looping
  <2>3. KindOf(row) \in Drawn /\ 5 < First[KindOf(row)]
    BY <1>1, <2>1, <2>2 DEF Waits
  <2>4. CASE KindOf(row) = "entry"
    <3>1. row \in RowsOf["entry"] /\ First["entry"] = 6 /\ Plan[6][1] = "entry"
      BY <2>1, <2>4, KindIs, TablesAre, FirstIs, PlanIs
    <3>2. row \in LoopOf(6, run'.read)
      BY <3>1, LoopIs
    <3>. QED
      BY <2>3, <2>4, <3>1, <3>2, SkipRun DEF Waits
  <2>5. CASE KindOf(row) # "entry"
    <3>1. 6 < First[KindOf(row)]
      BY <2>3, <2>5, FirstIs DEF Drawn
    <3>. QED
      BY <2>3, <3>1, SkipRun DEF Waits
  <2>. QED
    BY <2>4, <2>5
<1>. QED
  BY <1>1, <1>2, <1>4, <1>5, <1>6, SkipRun DEF RunInv, Ids, Spent

(* The league of a season, and then its results.                           *)
LEMMA SeasonRun ==
  ASSUME RunInv, NEW x \in Rows, WriteLeague(x) \/ WriteResults(x)
  PROVE  /\ Running /\ RunTypes /\ run.at \in {24, 25} /\ run.row = {x}
         /\ Running' /\ RunTypes' /\ run'.mode = run.mode /\ run'.read = run.read
         /\ run'.steady = run.steady /\ memory = idMap
         /\ UNCHANGED <<source, idMap, memory, minted, docs, briefs, indexes, manifest, counted, spent>>
         /\ WriteLeague(x) => run.at = 24 /\ run'.at = 25 /\ run'.row = {x} /\ run'.todo = run.todo
         /\ WriteResults(x) => /\ run.at = 25 /\ run'.row = {} /\ run'.at \in {24, 26}
                               /\ run'.at = 24 => run'.todo = run.todo
                               /\ run'.at = 26 => run.todo = {}
<1>1. WriteLeague(x) => Running /\ RunTypes /\ run.at = 24
  BY AtIs, TaskIs DEF WriteLeague
<1>2. WriteResults(x) => Running /\ RunTypes /\ run.at = 25
  BY AtIs, TaskIs DEF WriteResults
<1>3. Running /\ RunTypes /\ run.at \in {24, 25} /\ x \in run.row
  BY <1>1, <1>2 DEF WriteLeague, WriteResults
<1>4. run.row = {x} /\ run.row \cup run.todo \subseteq LoopOf(24, run.read) /\ run.row \cap run.todo = {}
  BY <1>3 DEF RunTypes, Looping
<1>5. memory = idMap
  BY <1>3 DEF RunInv, Unsaved
<1>6. UNCHANGED <<source, idMap, memory, minted, docs, briefs, indexes, manifest, counted, spent>>
  BY DEF WriteLeague, WriteResults
<1>7. run = [at |-> run.at, mode |-> run.mode, row |-> run.row, todo |-> run.todo,
             read |-> run.read, steady |-> run.steady]
  BY <1>3 DEF RunTypes
<1>8. CASE WriteLeague(x)
  <2>1. run' = [at |-> 25, mode |-> run.mode, row |-> run.row, todo |-> run.todo,
                read |-> run.read, steady |-> run.steady]
    <3>1. run' = [run EXCEPT !.at = 25] /\ run.at = 24
      BY <1>1, <1>8 DEF WriteLeague
    <3>. QED
      BY <1>7, <3>1
  <2>2. RunTypes' /\ Running'
    BY <1>3, <1>4, <2>1 DEF RunTypes, Looping, Running, Off
  <2>3. ~WriteResults(x)
    BY <1>1, <1>2, <1>8
  <2>. QED
    BY <1>1, <1>3, <1>4, <1>5, <1>6, <1>8, <2>1, <2>2, <2>3
<1>9. CASE WriteResults(x)
  <2>0. run.at = 25 /\ ~WriteLeague(x)
    BY <1>1, <1>2, <1>9
  <2>1. CASE run.todo = {}
    <3>1. run' = Advance(run)
      BY <1>9, <2>1 DEF WriteResults
    <3>2. run' = [at |-> 26, mode |-> run.mode, row |-> {}, todo |-> LoopOf(26, run.read),
                  read |-> run.read, steady |-> run.steady]
      <4>1. Record(run)
        BY <1>7 DEF Record
      <4>2. Advance(run) = [at |-> run.at + 1, mode |-> run.mode, row |-> {},
                            todo |-> LoopOf(run.at + 1, run.read), read |-> run.read, steady |-> run.steady]
        BY <4>1, AdvanceIs
      <4>3. run.at + 1 = 26
        BY <2>0
      <4>. QED
        BY <3>1, <4>2, <4>3
    <3>3. LoopOf(26, run.read) = {}
      BY LoopIs
    <3>4. RunTypes' /\ Running'
      BY <1>3, <3>2, <3>3 DEF RunTypes, Looping, Running, Off
    <3>. QED
      BY <1>3, <1>4, <1>5, <1>6, <2>0, <2>1, <3>2, <3>4
  <2>2. CASE run.todo # {}
    <3>1. run' = [run EXCEPT !.at = 24, !.row = {}]
      BY <1>9, <2>0, <2>2 DEF WriteResults
    <3>2. run' = [at |-> 24, mode |-> run.mode, row |-> {}, todo |-> run.todo,
                  read |-> run.read, steady |-> run.steady]
      BY <1>7, <3>1
    <3>3. RunTypes' /\ Running'
      BY <1>3, <1>4, <3>2 DEF RunTypes, Looping, Running, Off
    <3>. QED
      BY <1>3, <1>4, <1>5, <1>6, <2>0, <2>2, <3>2, <3>3
  <2>. QED
    BY <2>1, <2>2
<1>. QED
  BY <1>8, <1>9

LEMMA SeasonRunInv == ASSUME RunInv, Seasonal PROVE RunInv'
<1>1. PICK x \in Rows : WriteLeague(x) \/ WriteResults(x)
  BY DEF Seasonal
<1>2. /\ RunTypes /\ RunTypes' /\ Running' /\ ReadInOrder /\ ReadAsIs /\ HasIds /\ Ids /\ Spent
      /\ source \in Sources /\ run.at \in {24, 25} /\ run'.at \in {24, 25, 26}
      /\ UNCHANGED <<source, idMap, memory, minted, spent>> /\ memory = idMap
      /\ run'.read = run.read /\ run'.steady = run.steady
  BY <1>1, SeasonRun DEF RunInv
<1>3. \A k \in Tables : QueryOf[k] < 24
  BY QueryOfIs
<1>4. ReadInOrder'
  <2>1. \A row \in DOMAIN run.read : row \in Rows /\ KindOf(row) \in Tables
    BY <1>2, KindIs DEF ReadInOrder
  <2>2. \A row \in DOMAIN run.read : row \in Rows /\ QueryOf[KindOf(row)] < run'.at
    BY <1>2, <1>3, <2>1, QueryOfIs
  <2>3. \A k \in {"team", "place"} : run.at > QueryOf[k]
    BY <1>2, QueryOfIs
  <2>4. \A k : ReadOf(k)' = ReadOf(k)
    BY <1>2 DEF ReadOf
  <2>5. \A k \in {"team", "place"} :
          \E s \in Sources : \A row \in ReadOf(k) : row \in DOMAIN s /\ run.read[row] = s[row]
    BY <1>2, <2>3 DEF ReadInOrder
  <2>. QED
    BY <1>2, <2>2, <2>4, <2>5 DEF ReadInOrder
<1>5. ReadAsIs'
  <2>1. \A row \in Rows : QueryOf[KindOf(row)] < run.at
    BY <1>2, <1>3, KindIs, QueryOfIs
  <2>. QED
    BY <1>2, <2>1 DEF ReadAsIs
<1>6. HasIds'
  <2>1. \A row \in DOMAIN run.read : ~Waits(row)
    BY <1>2, FirstIs DEF Waits, Drawn
  <2>. QED
    BY <1>2, <2>1 DEF HasIds
<1>. QED
  BY <1>2, <1>4, <1>5, <1>6 DEF RunInv, Ids, Spent

(* Outside the plan.                                                       *)
LEMMA SameRun ==
  ASSUME RunInv, UNCHANGED <<source, memory, minted, spent, run>>,
         idMap' = memory \/ UNCHANGED idMap
  PROVE  RunInv'
<1>1. Running' <=> Running
  BY DEF Running
<1>2. Running => (RunTypes /\ ReadInOrder /\ ReadAsIs /\ HasIds)'
  BY DEF RunInv, RunTypes, Looping, ReadInOrder, ReadAsIs, HasIds, Waits, ReadOf
<1>3. Ids' /\ Spent' /\ source' \in Sources
  BY DEF RunInv, Ids, Spent
<1>. QED
  BY <1>1, <1>2, <1>3 DEF RunInv, Unsaved

LEMMA OutsideRunInv ==
  ASSUME RunInv, (\E mode \in {"real", "resume", "dry"} : Start(mode)) \/ Exit \/ Crash \/ LoseMap
  PROVE  RunInv'
<1>0. Ids /\ Spent /\ source \in Sources
  BY DEF RunInv
<1>1. ASSUME NEW mode \in {"real", "resume", "dry"}, Start(mode) PROVE RunInv'
  <2>1. run' = [at |-> 1, mode |-> mode, row |-> {}, todo |-> {}, read |-> <<>>, steady |-> TRUE]
        /\ memory = idMap /\ UNCHANGED <<source, idMap, memory, minted>>
    BY <1>1 DEF Start, RunInv
  <2>2. DOMAIN <<>> = {}
    OBVIOUS
  <2>3. Running' /\ RunTypes' /\ ReadInOrder' /\ HasIds'
    <3>1. run'.at = 1 /\ DOMAIN run'.read = {} /\ run'.row = {} /\ run'.todo = {}
      BY <2>1, <2>2
    <3>2. \A k \in {"team", "place"} : ~(1 > QueryOf[k])
      BY QueryOfIs
    <3>. QED
      BY <2>1, <3>1, <3>2 DEF Running, Off, RunTypes, Looping, ReadInOrder, HasIds
  <2>4. ReadAsIs'
    <3>1. run'.at = 1
      BY <2>1
    <3>2. \A row \in Rows : ~(QueryOf[KindOf(row)] < 1)
      BY KindIs, QueryOfIs
    <3>. QED
      BY <3>1, <3>2 DEF ReadAsIs
  <2>5. Spent'
    BY <1>0, <1>1 DEF Start, Spent
  <2>. QED
    BY <1>0, <2>1, <2>3, <2>4, <2>5 DEF RunInv, Ids
<1>2. CASE Exit \/ Crash
  <2>1. ~Running' /\ memory' = idMap' /\ UNCHANGED <<source, idMap, minted, spent>>
    BY <1>2 DEF Exit, Crash, Running, Saved
  <2>2. Ids'
    BY <1>0, <2>1 DEF Ids
  <2>. QED
    BY <1>0, <2>1, <2>2 DEF RunInv, Spent
<1>3. CASE LoseMap
  <2>1. ~Running' /\ memory' = idMap' /\ UNCHANGED <<source, minted>> /\ idMap' = [row \in Rows |-> 0]
    BY <1>3 DEF LoseMap, Running
  <2>2. Ids'
    BY <1>0, <2>1 DEF Ids
  <2>3. Spent'
    BY <1>0, <1>3 DEF LoseMap, Spent
  <2>. QED
    BY <1>0, <2>1, <2>2, <2>3 DEF RunInv
<1>. QED
  BY <1>1, <1>2, <1>3

LEMMA EditRunInv == ASSUME RunInv, EditSource PROVE RunInv'
<1>1. source' \in Sources /\ UNCHANGED <<idMap, memory, minted>> /\ Ids'
  BY DEF EditSource, RunInv, Ids
<1>2. Spent'
  BY DEF EditSource, RunInv, Spent
<1>3. CASE Running
  <2>1. RunTypes /\ ReadInOrder /\ HasIds
    BY <1>3 DEF RunInv
  <2>2. run' = [at |-> run.at, mode |-> run.mode, row |-> run.row, todo |-> run.todo,
                read |-> run.read, steady |-> FALSE]
    BY <1>3, <2>1 DEF EditSource, RunTypes
  <2>3. run'.at = run.at /\ run'.row = run.row /\ run'.todo = run.todo /\ run'.read = run.read
    BY <2>2
  <2>4. RunTypes' /\ ReadAsIs' /\ Running'
    BY <2>1, <2>2 DEF RunTypes, Looping, ReadAsIs, Running, Off
  <2>5. ReadInOrder' /\ HasIds'
    BY <1>1, <2>1, <2>3 DEF ReadInOrder, HasIds, Waits, ReadOf
  <2>. QED
    BY <1>1, <1>2, <1>3, <2>3, <2>4, <2>5 DEF RunInv, Unsaved
<1>4. CASE ~Running
  <2>1. UNCHANGED run /\ ~Running'
    BY <1>4 DEF EditSource, Running
  <2>. QED
    BY <1>1, <1>2, <1>4, <2>1 DEF RunInv
<1>. QED
  BY <1>3, <1>4

LEMMA NextIs ==
  ASSUME [Next]_vars
  PROVE  \/ \E mode \in {"real", "resume", "dry"} : Start(mode)
         \/ SaveIdMap \/ Query \/ SkipEntries \/ Uploads \/ Seasonal \/ \E row \in Rows : NextRow(row)
         \/ Exit \/ Crash \/ EditSource \/ LoseMap \/ UNCHANGED vars
BY DEF Next, Process, Uploads, Seasonal, AtRest

LEMMA RunNext == RunInv /\ [Next]_vars => RunInv'
<1>. SUFFICES ASSUME RunInv, [Next]_vars PROVE RunInv'
  OBVIOUS
<1>1. CASE SaveIdMap
  BY <1>1, SameRun DEF SaveIdMap
<1>2. CASE UNCHANGED vars
  BY <1>2, SameRun DEF vars
<1>3. CASE Uploads
  BY <1>3, UploadsMove, MovesRunInv
<1>. QED
  BY <1>1, <1>2, <1>3, NextIs, QueryRunInv, SkipRunInv, SeasonRunInv, NextRowRunInv, OutsideRunInv,
     EditRunInv

LEMMA RunInit == Init => RunInv
BY DEF Init, RunInv, Ids, Spent, Running

-----------------------------------------------------------------------------
(* What the run has written.                                               *)

(* The loop at p is past the row.                                          *)
Passed(p, row) == run.at > p \/ (run.at = p /\ row \notin run.todo /\ row \notin run.row)

LeagueOf(season) ==
  [rounds |-> {Uuid(r) : r \in RoundsOfSeason(season)}, league |-> League(season)]

(* A document that was written is there, and is what the row and the map   *)
(* say; so are the indexes, the briefs and the seasons.                    *)
Documented ==
  \A k \in Documents : \A row \in ReadOf(k) :
    /\ Passed(First[k], row) => memory[row] \in DOMAIN docs[k]
    /\ Passed(Last[k], row) => docs[k][memory[row]] = DocOf(k, row)
Holds(store, path, content) == path \in DOMAIN store /\ store[path] = content
IndexesWritten == \A k \in Kinds : run.at > IndexAt[k] => Holds(indexes, k, IndexOf(k))
BriefsWritten ==
  \A row \in ReadOf("round") : Passed(23, row) => Holds(briefs, memory[row], RoundDoc(row))

(* The loop over the seasons is past the season, or has written its league.*)
SeasonDone(row) == run.at > 25 \/ (run.at \in {24, 25} /\ row \notin run.row \cup run.todo)
LeagueDone(row) == SeasonDone(row) \/ (run.at = 25 /\ row \in run.row)
SeasonsWritten ==
  \A row \in ReadOf("season") :
    /\ LeagueDone(row) => Holds(published, <<"seasons", row>>, LeagueOf(row))
    /\ SeasonDone(row) => Holds(published, <<"results", row>>, Results(row))

Wrote ==
  Running /\ run.mode # "dry" => Documented /\ IndexesWritten /\ BriefsWritten /\ SeasonsWritten

(* The documents, whatever runs were stopped in.                           *)
DocTypes ==
  /\ docs = [k \in Documents |-> docs[k]]
  /\ \A k \in Documents : \A a \in DOMAIN docs[k] : docs[k][a].row \in Rows \cap RowsOf[k]

(* A row's document has the UUID that the map on disk has.                 *)
DocsNamed ==
  spent.lost = 0 => \A k \in Documents : \A a \in DOMAIN docs[k] : a # 0 /\ idMap[docs[k][a].row] = a
DocsLinked ==
  \A k \in Documents : \A a \in DOMAIN docs[k] : \A l \in docs[k][a].links :
    \E j \in Documents : l \in DOMAIN docs[j]
SeasonsLinked ==
  \A row \in SeasonRows : <<"seasons", row>> \in DOMAIN published =>
    published[<<"seasons", row>>].rounds \subseteq DOMAIN docs["round"]
EntriesLinked ==
  \A k \in Drawn : \A e \in Listed(k) : e.id \in DOMAIN docs[k]

(* The scores of the manifest are of one state of the database and so are  *)
(* its points, and the rows of a dry run are in the map.                   *)
ScoresOf(m, s) == \A row \in DOMAIN m : \A t \in DOMAIN m[row] : t \in DOMAIN s /\ m[row][t].score = s[t].data
PointsOf(m, s) ==
  \A row \in DOMAIN m : \A t \in DOMAIN m[row] : \A p \in DOMAIN m[row][t].slots :
    p \in DOMAIN s /\ m[row][t].slots[p] = s[p].data
ManifestKept ==
  manifest = Absent \/ \E m : /\ manifest = {m}
                              /\ \E s \in Sources : ScoresOf(m, s)
                              /\ \E s \in Sources : PointsOf(m, s)
CountedRows ==
  spent.lost = 0 => \A rows \in counted :
    rows \subseteq Rows /\ \A row \in rows : KindOf(row) \in Kinds => idMap[row] # 0

Stored == DocTypes /\ DocsNamed /\ DocsLinked /\ SeasonsLinked /\ EntriesLinked
Kept == ManifestKept /\ CountedRows
MigrationInv == RunInv /\ Stored /\ Wrote /\ Kept

-----------------------------------------------------------------------------
(* The loops.                                                              *)

LoopSteps == {3, 6, 10, 11, 15, 20, 23, 24}

LEMMA LoopStepIs ==
  /\ \A p \in LoopSteps : p \in 1 .. 25 /\ Plan[p][1] \in Kinds /\ QueryOf[Plan[p][1]] < p
  /\ \A k \in Documents : First[k] \in LoopSteps /\ Last[k] \in LoopSteps
  /\ \A p \in LoopSteps, n \in 1 .. 25 : Plan[n][2] = "query" => p # n
<1>1. \A p \in LoopSteps : p \in 1 .. 25 /\ Plan[p][1] \in Kinds /\ QueryOf[Plan[p][1]] < p
  <2>1. QueryOf = [club |-> 1, entry |-> 4, site |-> 8, season |-> 12, pilot |-> 14, round |-> 17,
            team |-> 18, place |-> 19]
    BY DEF QueryOf
  <2>. QED
    BY <2>1, PlanIs, TablesAre DEF LoopSteps
<1>2. \A k \in Documents : First[k] \in LoopSteps /\ Last[k] \in LoopSteps
  BY FirstIs DEF LoopSteps
<1>3. \A p \in LoopSteps, n \in 1 .. 25 : Plan[n][2] = "query" => p # n
  BY TaskIs DEF LoopSteps
<1>. QED
  BY <1>1, <1>2, <1>3

LEMMA RowsToPass ==
  ASSUME NEW p \in LoopSteps, NEW read
  PROVE  LoopOf(p, read) = {row \in DOMAIN read : row \in RowsOf[Plan[p][1]]}
BY LoopIs DEF LoopSteps

LEMMA PassedReads ==
  ASSUME RunInv, Query \/ \E x \in Rows : NextRow(x),
         NEW p \in LoopSteps, NEW row \in LoopOf(p, run.read)', Passed(p, row)'
  PROVE  row \in LoopOf(p, run.read) /\ Passed(p, row) /\ p <= run.at
<1>1. row \in DOMAIN run'.read /\ row \in RowsOf[Plan[p][1]] /\ Plan[p][1] \in Kinds
  BY RowsToPass, LoopStepIs
<1>0. Plan[p][1] \in Tables
  BY <1>1, TablesAre
<1>2. p \in 1 .. 25 /\ run.at \in 1 .. 26
  BY LoopStepIs, QueryRun, NextRowRun DEF RunTypes
<1>3. CASE Query
  <2>1. p # run.at /\ run'.at = run.at + 1
    BY <1>2, <1>3, QueryRun, LoopStepIs, QueryOfIs
  <2>2. p # run.at + 1
    BY <1>2, <1>3, QueryRun DEF Passed
  <2>3. p < run.at
    BY <1>2, <2>1, <2>2 DEF Passed
  <2>4. QueryOf[Plan[p][1]] < p
    BY LoopStepIs
  <2>5. row \notin Found
    <3>. SUFFICES ASSUME row \in Found PROVE FALSE
      OBVIOUS
    <3>1. row \in Rows /\ row \in RowsOf[Step[1]] /\ Step[1] \in Tables /\ run.at = QueryOf[Step[1]]
      BY <1>3, QueryRun DEF Found
    <3>2. Step[1] = Plan[p][1]
      BY <1>0, <1>1, <3>1, KindIs
    <3>. QED
      BY <1>2, <2>3, <2>4, <3>1, <3>2
  <2>6. row \in DOMAIN run.read
    BY <1>1, <1>3, <2>5, QueryRun
  <2>. QED
    BY <1>1, <1>2, <2>3, <2>6, RowsToPass DEF Passed
<1>4. ASSUME NEW x \in Rows, NextRow(x)
      PROVE  row \in LoopOf(p, run.read) /\ Passed(p, row) /\ p <= run.at
  <2>1. run'.at = run.at /\ run'.row = {x} /\ run'.todo = run.todo \ {x} /\ run'.read = run.read
        /\ run.row = {}
    BY <1>4, NextRowRun
  <2>2. Passed(p, row)
    BY <2>1 DEF Passed
  <2>. QED
    BY <1>1, <1>2, <2>1, <2>2, RowsToPass DEF Passed
<1>. QED
  BY <1>3, <1>4

LEMMA PassedMoves ==
  ASSUME RunInv, Moves, NEW p \in LoopSteps, NEW row \in LoopOf(p, run.read), Passed(p, row)'
  PROVE  Passed(p, row) \/ (p = run.at /\ row \in run.row)
<1>1. p \in 1 .. 25 /\ run.at \in 1 .. 25
  BY LoopStepIs DEF Moves
<1>2. CASE run'.at = run.at + 1 /\ run.todo = {} /\ run'.todo = LoopOf(run.at + 1, run.read)
  BY <1>1, <1>2 DEF Passed
<1>3. CASE run'.at = run.at /\ run'.todo = run.todo
  BY <1>1, <1>3 DEF Passed
<1>. QED
  BY <1>2, <1>3, MovesRun

(* A row has its UUID from its turn on.                                    *)
LEMMA HasItsId ==
  ASSUME RunInv, Running, NEW row \in DOMAIN run.read, KindOf(row) \in Kinds,
         KindOf(row) \in Drawn => First[KindOf(row)] <= run.at /\
                                (First[KindOf(row)] = run.at => row \notin run.todo)
  PROVE  row \in Rows /\ row \in RowsOf[KindOf(row)] /\ memory[row] \in Nat /\ memory[row] # 0
<1>1. row \in Rows /\ KindOf(row) \in Tables /\ row \in RowsOf[KindOf(row)]
  BY KindIs DEF RunInv, ReadInOrder
<1>2. memory[row] \in Nat
  BY <1>1 DEF RunInv, Ids
<1>3. ~Waits(row)
  BY FirstIs DEF Waits, RunInv, RunTypes
<1>. QED
  BY <1>1, <1>2, <1>3 DEF RunInv, HasIds

LEMMA PassedHasId ==
  ASSUME RunInv, Running, NEW k \in Documents, NEW row \in ReadOf(k), Passed(First[k], row)
  PROVE  row \in Rows /\ memory[row] # 0
<1>1. KindOf(row) = k /\ k \in Kinds
  BY KindIs, FirstIs, TablesAre DEF ReadOf, RunInv, ReadInOrder
<1>2. First[k] <= run.at /\ (First[k] = run.at => row \notin run.todo)
  BY FirstIs DEF Passed, RunInv, RunTypes
<1>. QED
  BY <1>1, <1>2, HasItsId DEF ReadOf

LEMMA LastFirst ==
  ASSUME RunInv, Running, NEW k \in Documents, NEW row, Passed(Last[k], row)
  PROVE  Passed(First[k], row)
BY FirstIs DEF Passed, RunInv, RunTypes

(* Which kinds a run that is past a step of the plan has read.             *)
LEMMA ReadBy ==
  ASSUME RunInv, Running, NEW k \in Kinds, NEW row \in DOMAIN run.read
  PROVE  row \in Rows /\ (row \in RowsOf[k] <=> KindOf(row) = k) /\ KindOf(row) \in Tables
BY KindIs, TablesAre DEF RunInv, ReadInOrder

-----------------------------------------------------------------------------
(* What was written stays what the row and the map say.                    *)

LEMMA DocOfIs ==
  /\ \A row : DocOf("club", row) = ClubDoc(row) /\ DocOf("entry", row) = EntryDoc(row)
            /\ DocOf("site", row) = SiteDoc(row) /\ DocOf("pilot", row) = PilotDoc(row)
            /\ DocOf("round", row) = RoundDoc(row)
  /\ \A k \in Documents : \A row : DocOf(k, row).row = row
<1>1. \A row : DocOf("club", row) = ClubDoc(row) /\ DocOf("entry", row) = EntryDoc(row)
            /\ DocOf("site", row) = SiteDoc(row) /\ DocOf("pilot", row) = PilotDoc(row)
            /\ DocOf("round", row) = RoundDoc(row)
  BY DEF DocOf
<1>2. ASSUME NEW k \in Documents, NEW row PROVE DocOf(k, row).row = row
  <2>1. k \in {"club", "entry", "site", "pilot", "round"}
    BY FirstIs
  <2>2. /\ ClubDoc(row).row = row /\ EntryDoc(row).row = row /\ SiteDoc(row).row = row
        /\ PilotDoc(row).row = row /\ RoundDoc(row).row = row
    BY DEF ClubDoc, EntryDoc, SiteDoc, PilotDoc, RoundDoc
  <2>. QED
    BY <1>1, <2>1, <2>2
<1>. QED
  BY <1>1, <1>2

LEMMA SameContents ==
  ASSUME memory' = memory, run'.read = run.read
  PROVE  /\ \A k : ReadOf(k)' = ReadOf(k) /\ IndexOf(k)' = IndexOf(k)
         /\ \A k \in Documents : \A row : DocOf(k, row)' = DocOf(k, row)
         /\ \A row : /\ RoundDoc(row)' = RoundDoc(row) /\ LeagueOf(row)' = LeagueOf(row)
                   /\ Results(row)' = Results(row)
<1>1. \A k : ReadOf(k)' = ReadOf(k) /\ IndexOf(k)' = IndexOf(k)
  BY DEF ReadOf, IndexOf, Uuid
<1>2. \A row : /\ ClubDoc(row)' = ClubDoc(row) /\ EntryDoc(row)' = EntryDoc(row)
              /\ SiteDoc(row)' = SiteDoc(row) /\ PilotDoc(row)' = PilotDoc(row)
              /\ RoundDoc(row)' = RoundDoc(row)
  BY DEF ClubDoc, EntryDoc, SiteDoc, PilotDoc, RoundDoc, LinkIds, Uuid, ReadOf, NamedBy, TeamDocs,
     TeamsOf, PlacesOf
<1>3. \A k \in Documents : \A row : DocOf(k, row)' = DocOf(k, row)
  <2>1. ASSUME NEW k \in Documents, NEW row PROVE DocOf(k, row)' = DocOf(k, row)
    <3>1. k \in {"club", "entry", "site", "pilot", "round"}
      BY FirstIs
    <3>. QED
      BY <1>2, <3>1 DEF DocOf
  <2>. QED
    BY <2>1
<1>4. \A row : /\ LeagueOf(row)' = LeagueOf(row) /\ Results(row)' = Results(row)
  BY DEF LeagueOf, League, Results, RoundsOfSeason, CompleteOf, IsComplete, Uuid, ReadOf, TeamDocs,
     TeamsOf, PlacesOf
<1>. QED
  BY <1>1, <1>2, <1>3, <1>4

Reads == Query \/ \E x \in Rows : NextRow(x)

LEMMA ReadsAre ==
  ASSUME RunInv, Reads
  PROVE  /\ Running /\ Running' /\ RunTypes /\ run.at \in 1 .. 25 /\ run'.mode = run.mode
         /\ run.at <= run'.at /\ run'.at <= run.at + 1 /\ run'.at \in Nat
         /\ UNCHANGED <<source, idMap, blobs, manifest, counted, spent>>
         /\ \A row \in Rows : memory[row] # 0 => memory'[row] = memory[row]
         /\ \A row \in DOMAIN run.read : row \in DOMAIN run'.read /\ run'.read[row] = run.read[row]
         /\ \A row \in DOMAIN run'.read : row \in Rows /\ KindOf(row) \in Tables
         /\ \A row \in DOMAIN run'.read \ DOMAIN run.read : run.at = QueryOf[KindOf(row)]
         /\ run.at >= 20 => run'.read = run.read
         /\ run.at >= 21 => memory' = memory /\ run'.read = run.read
         /\ \A k \in Kinds : run'.at > IndexAt[k] => run.at > IndexAt[k]
<1>0. Ids
  BY DEF RunInv
<1>1. CASE Query
  <2>1. run.at \in {1, 4, 8, 12, 14, 17, 18, 19}
    BY <1>1, QueryRun
  <2>2. \A k \in Kinds : IndexAt[k] \in {2, 7, 9, 13, 16, 21}
    BY KindsAre DEF IndexAt
  <2>3. \A row \in Rows : memory[row] # 0 => memory'[row] = memory[row]
    <3>. DEFINE rows == IF Step[1] \in {"club", "site", "season"} THEN Found ELSE {}
    <3>1. rows \subseteq Rows /\ Mint(rows)
      BY <1>1, QueryRun
    <3>. QED
      BY <1>0, <3>1, MintIs
  <2>4. \A row \in Found : row \in Rows /\ KindOf(row) = Step[1] /\ run.at = QueryOf[KindOf(row)]
    BY <1>1, QueryRun, KindIs DEF Found
  <2>5. \A row \in DOMAIN run.read : row \in Rows
    BY <1>1, QueryRun DEF RunInv, ReadInOrder
  <2>6. \A row \in DOMAIN run'.read : row \in Rows /\ KindOf(row) \in Tables
    BY <1>1, <2>4, <2>5, QueryRun, KindIs
  <2>7. \A row \in DOMAIN run.read : row \in DOMAIN run'.read /\ run'.read[row] = run.read[row]
    BY <1>1, QueryRun
  <2>8. \A row \in DOMAIN run'.read \ DOMAIN run.read : run.at = QueryOf[KindOf(row)]
    BY <1>1, <2>4, QueryRun
  <2>9. Running /\ Running' /\ RunTypes /\ run'.mode = run.mode /\ run'.at = run.at + 1
    BY <1>1, QueryRun
  <2>10. UNCHANGED <<source, idMap, blobs, manifest, counted, spent>>
    BY <1>1 DEF Query
  <2>11. \A k \in Kinds : run'.at > IndexAt[k] => run.at > IndexAt[k]
    BY <2>1, <2>2, <2>9
  <2>. QED
    BY <2>1, <2>3, <2>6, <2>7, <2>8, <2>9, <2>10, <2>11
<1>2. ASSUME NEW x \in Rows, NextRow(x)
      PROVE  /\ Running /\ Running' /\ RunTypes /\ run.at \in 1 .. 25 /\ run'.mode = run.mode
             /\ run'.at = run.at /\ run'.read = run.read
             /\ UNCHANGED <<source, idMap, blobs, manifest, counted, spent>>
             /\ \A row \in Rows : memory[row] # 0 => memory'[row] = memory[row]
             /\ run.at >= 21 => memory' = memory
  <2>1. {x} \subseteq Rows /\ Mint({x})
    BY <1>2, NextRowRun
  <2>2. /\ \A row \in Rows : memory[row] # 0 => memory'[row] = memory[row]
        /\ memory[x] # 0 => memory' = memory
    BY <1>0, <2>1, MintIs
  <2>3. memory[x] = 0 => run.at \in {6, 15, 20}
    BY <1>2, NextRowRun
  <2>4. /\ Running /\ Running' /\ RunTypes /\ run'.mode = run.mode
        /\ run'.at = run.at /\ run'.read = run.read
        /\ run.at \in {3, 6, 10, 11, 15, 20, 23, 24}
    BY <1>2, NextRowRun
  <2>5. UNCHANGED <<source, idMap, blobs, manifest, counted, spent>>
    BY <1>2 DEF NextRow
  <2>6. run.at >= 21 => memory' = memory
    BY <2>2, <2>3
  <2>7. run.at \in 1 .. 25
    BY <2>4
  <2>. QED
    BY <2>2, <2>4, <2>5, <2>6, <2>7
<1>3. CASE \E x \in Rows : NextRow(x)
  <2>1. \A row \in DOMAIN run.read : row \in Rows /\ KindOf(row) \in Tables
    BY <1>2, <1>3, KindIs DEF RunInv, ReadInOrder
  <2>. QED
    BY <1>2, <1>3, <2>1
<1>. QED
  BY <1>1, <1>3 DEF Reads

(* The UUIDs of the rows that a row names are settled once their kinds     *)
(* have theirs.                                                            *)
Settled(kinds) == \A k \in kinds : k \in Documents /\ QueryOf[k] < run.at /\ (k \in Drawn => First[k] < run.at)

LEMMA SettledStays ==
  ASSUME RunInv, Reads, NEW kinds, Settled(kinds)
  PROVE  /\ \A l : l \in DOMAIN run'.read /\ KindOf(l) \in kinds <=>
                  l \in DOMAIN run.read /\ KindOf(l) \in kinds
         /\ \A l \in DOMAIN run.read : KindOf(l) \in kinds =>
              l \in Rows /\ memory[l] # 0 /\ memory'[l] = memory[l]
<1>1. ASSUME NEW l, l \in DOMAIN run'.read, KindOf(l) \in kinds PROVE l \in DOMAIN run.read
  <2>1. QueryOf[KindOf(l)] < run.at /\ run.at \in 1 .. 25 /\ KindOf(l) \in Kinds
    BY <1>1, ReadsAre, FirstIs DEF Settled
  <2>2. QueryOf[KindOf(l)] \in 1 .. 19
    BY <2>1, TablesAre, QueryOfIs
  <2>. QED
    BY <1>1, <2>1, <2>2, ReadsAre
<1>2. ASSUME NEW l \in DOMAIN run.read, KindOf(l) \in kinds
      PROVE  l \in Rows /\ memory[l] # 0 /\ memory'[l] = memory[l]
  <2>1. Running /\ run.at \in 1 .. 25
    BY ReadsAre
  <2>2. l \in Rows /\ memory[l] # 0
    BY <1>2, <2>1, HasItsId, FirstIs DEF Settled
  <2>. QED
    BY <2>2, ReadsAre
<1>. QED
  BY <1>1, <1>2, ReadsAre

LEMMA IdsStay ==
  ASSUME RunInv, Reads, NEW kinds, Settled(kinds), NEW links
  PROVE  {memory'[l] : l \in {l \in links \cap DOMAIN run'.read : KindOf(l) \in kinds}} =
         {memory[l] : l \in {l \in links \cap DOMAIN run.read : KindOf(l) \in kinds}}
<1>. DEFINE old == {l \in links \cap DOMAIN run.read : KindOf(l) \in kinds}
            new == {l \in links \cap DOMAIN run'.read : KindOf(l) \in kinds}
<1>1. new = old
  BY SettledStays
<1>2. \A l \in old : memory'[l] = memory[l]
  BY SettledStays
<1>. QED
  BY <1>1, <1>2

LEMMA DocStays ==
  ASSUME RunInv, Reads, NEW k \in Documents, NEW row \in ReadOf(k), Passed(Last[k], row)
  PROVE  DocOf(k, row)' = DocOf(k, row)
<1>1. Last[k] <= run.at /\ run.at \in 1 .. 25 /\ row \in DOMAIN run.read
  BY ReadsAre, FirstIs DEF Passed, ReadOf
<1>2. run'.read[row] = run.read[row]
  BY <1>1, ReadsAre
<1>3. run.at >= 6 => Settled({"club"})
  BY <1>1, FirstIs DEF Settled, QueryOf, Drawn
<1>4. CASE k = "club"
  <2>1. Settled({"site"})
    BY <1>1, <1>4, FirstIs DEF Settled, QueryOf, Drawn
  <2>2. \A s : s \in ReadOf("site")' <=> s \in ReadOf("site")
    <3>1. "site" \in Kinds
      BY KindsAre
    <3>2. \A s \in DOMAIN run.read : s \in RowsOf["site"] <=> KindOf(s) = "site"
      BY <3>1, ReadsAre, ReadBy
    <3>3. \A s \in DOMAIN run'.read : s \in RowsOf["site"] <=> KindOf(s) = "site"
      BY <3>1, ReadsAre, KindIs, TablesAre
    <3>. QED
      BY <2>1, <3>2, <3>3, SettledStays DEF ReadOf
  <2>3. \A s \in ReadOf("site") : run'.read[s] = run.read[s] /\ memory'[s] = memory[s]
    <3>1. "site" \in Kinds
      BY KindsAre
    <3>2. \A s \in ReadOf("site") : s \in DOMAIN run.read /\ KindOf(s) = "site"
      BY <3>1, ReadsAre, ReadBy DEF ReadOf
    <3>. QED
      BY <2>1, <3>2, SettledStays, ReadsAre
  <2>4. {memory'[s] : s \in {s \in ReadOf("site")' : row \in run'.read[s].links}} =
        {memory[s] : s \in {s \in ReadOf("site") : row \in run.read[s].links}}
    BY <2>2, <2>3
  <2>5. ClubDoc(row)' = ClubDoc(row)
    BY <1>2, <2>4 DEF ClubDoc, Uuid
  <2>. QED
    BY <1>4, <2>5 DEF DocOf
<1>5. CASE k \in {"entry", "site", "pilot"}
  <2>1. Settled({"club"})
    BY <1>1, <1>3, <1>5, FirstIs
  <2>. DEFINE links == run.read[row].links
  <2>2. {memory'[l] : l \in {l \in links \cap DOMAIN run'.read : KindOf(l) \in {"club"}}} =
        {memory[l] : l \in {l \in links \cap DOMAIN run.read : KindOf(l) \in {"club"}}}
    BY <2>1, IdsStay
  <2>3. LinkIds(run.read[row].links, {"club"})' = LinkIds(run.read[row].links, {"club"})
    BY <1>2, <2>2 DEF LinkIds, Uuid
  <2>. QED
    BY <1>2, <1>5, <2>3 DEF DocOf, EntryDoc, SiteDoc, PilotDoc
<1>6. CASE k = "round"
  <2>1. Settled({"club", "site", "pilot"})
    BY <1>1, <1>6, FirstIs DEF Settled, QueryOf, Drawn
  <2>2. run'.read = run.read
    BY <1>1, <1>6, FirstIs, ReadsAre
  <2>. DEFINE links == NamedBy(row, run.read)
              all == {"club", "site", "pilot"}
  <2>3. {memory'[l] : l \in {l \in links \cap DOMAIN run'.read : KindOf(l) \in all}} =
        {memory[l] : l \in {l \in links \cap DOMAIN run.read : KindOf(l) \in all}}
    BY <2>1, IdsStay
  <2>4. TeamDocs(row, run.read)' = TeamDocs(row, run.read) /\ NamedBy(row, run.read)' = NamedBy(row, run.read)
    BY <2>2 DEF TeamDocs, NamedBy, TeamsOf, PlacesOf
  <2>5. LinkIds(NamedBy(row, run.read), all)' = LinkIds(NamedBy(row, run.read), all)
    BY <2>3, <2>4 DEF LinkIds, Uuid
  <2>. QED
    BY <1>2, <1>6, <2>4, <2>5 DEF DocOf, RoundDoc
<1>. QED
  BY <1>4, <1>5, <1>6, FirstIs

LEMMA IndexStays ==
  ASSUME RunInv, Reads, NEW k \in Kinds, run'.at > IndexAt[k]
  PROVE  run.at > IndexAt[k] /\ IndexOf(k)' = IndexOf(k)
<1>1. run.at > IndexAt[k] /\ run.at \in 1 .. 25
  BY ReadsAre
<1>2. QueryOf[k] < run.at /\ (k \in Drawn => First[k] < run.at)
  <2>1. IndexAt = [club |-> 2, entry |-> 7, site |-> 9, season |-> 13, pilot |-> 16, round |-> 21]
    BY DEF IndexAt
  <2>2. QueryOf = [club |-> 1, entry |-> 4, site |-> 8, season |-> 12, pilot |-> 14, round |-> 17,
            team |-> 18, place |-> 19]
    BY DEF QueryOf
  <2>. QED
    BY <1>1, <2>1, <2>2, KindsAre, FirstIs DEF Drawn
<1>3. \A row \in DOMAIN run.read : row \in RowsOf[k] <=> KindOf(row) = k
  BY ReadsAre, ReadBy
<1>4. \A row \in DOMAIN run'.read : row \in RowsOf[k] <=> KindOf(row) = k
  BY ReadsAre, KindIs, TablesAre
<1>5. \A row : row \in ReadOf(k)' <=> row \in ReadOf(k)
  <2>1. \A row \in DOMAIN run'.read : KindOf(row) = k => row \in DOMAIN run.read
    <3>1. QueryOf[k] \in 1 .. 19
      BY TablesAre, QueryOfIs
    <3>. QED
      BY <1>1, <1>2, <3>1, ReadsAre
  <2>. QED
    BY <1>3, <1>4, <2>1, ReadsAre DEF ReadOf
<1>6. \A row \in ReadOf(k) : run'.read[row] = run.read[row] /\ memory'[row] = memory[row]
  <2>. SUFFICES ASSUME NEW row \in ReadOf(k) PROVE memory'[row] = memory[row]
    BY ReadsAre DEF ReadOf
  <2>1. row \in DOMAIN run.read /\ KindOf(row) = k /\ Running
    BY <1>3, ReadsAre DEF ReadOf
  <2>2. row \in Rows /\ memory[row] # 0
    BY <1>1, <1>2, <2>1, HasItsId, FirstIs
  <2>. QED
    BY <2>2, ReadsAre
<1>7. {[id |-> memory'[row], data |-> run'.read[row].data] : row \in ReadOf(k)'} =
      {[id |-> memory[row], data |-> run.read[row].data] : row \in ReadOf(k)}
  BY <1>5, <1>6
<1>. QED
  BY <1>1, <1>7 DEF IndexOf, Uuid

LEMMA WroteReads == ASSUME RunInv, Wrote, Reads PROVE Wrote'
<1>. SUFFICES ASSUME run.mode # "dry"
              PROVE  Documented' /\ IndexesWritten' /\ BriefsWritten' /\ SeasonsWritten'
  BY ReadsAre DEF Wrote
<1>1. Documented /\ IndexesWritten /\ BriefsWritten /\ SeasonsWritten /\ Running
  BY ReadsAre DEF Wrote
<1>2. UNCHANGED <<docs, briefs, indexes, published>> /\ Ids
  BY ReadsAre DEF blobs, RunInv
<1>3. ASSUME NEW p \in LoopSteps, NEW row \in ReadOf(Plan[p][1])', Passed(p, row)'
      PROVE  row \in ReadOf(Plan[p][1]) /\ Passed(p, row) /\ p <= run.at /\ run.at \in 1 .. 25
  <2>1. row \in LoopOf(p, run.read)'
    BY <1>3, RowsToPass DEF ReadOf
  <2>2. row \in LoopOf(p, run.read) /\ Passed(p, row) /\ p <= run.at
    BY <1>3, <2>1, PassedReads DEF Reads
  <2>. QED
    BY <2>2, RowsToPass, ReadsAre DEF ReadOf
<1>4. Documented'
  <2>. SUFFICES ASSUME NEW k \in Documents, NEW row \in ReadOf(k)'
                PROVE  /\ Passed(First[k], row)' => memory'[row] \in DOMAIN docs[k]
                       /\ Passed(Last[k], row)' => docs[k][memory'[row]] = DocOf(k, row)'
    BY <1>2 DEF Documented
  <2>1. First[k] \in LoopSteps /\ Last[k] \in LoopSteps /\ Plan[First[k]][1] = k /\ Plan[Last[k]][1] = k
    BY LoopStepIs, FirstIs
  <2>2. ASSUME Passed(First[k], row), row \in ReadOf(k) PROVE memory'[row] = memory[row]
    BY <1>1, <2>2, PassedHasId, ReadsAre
  <2>3. ASSUME Passed(First[k], row)' PROVE memory'[row] \in DOMAIN docs[k]
    BY <1>1, <1>3, <2>1, <2>2, <2>3 DEF Documented
  <2>4. ASSUME Passed(Last[k], row)' PROVE docs[k][memory'[row]] = DocOf(k, row)'
    <3>1. row \in ReadOf(k) /\ Passed(Last[k], row)
      BY <1>3, <2>1, <2>4
    <3>2. Passed(First[k], row)
      BY <1>1, <3>1, LastFirst
    <3>3. DocOf(k, row)' = DocOf(k, row)
      BY <3>1, DocStays
    <3>. QED
      BY <1>1, <2>2, <3>1, <3>2, <3>3 DEF Documented
  <2>. QED
    BY <2>3, <2>4
<1>5. IndexesWritten'
  BY <1>1, <1>2, IndexStays DEF IndexesWritten, Holds
<1>6. ASSUME run.at >= 21
      PROVE  /\ memory' = memory /\ run'.read = run.read
             /\ \A row : /\ RoundDoc(row)' = RoundDoc(row) /\ LeagueOf(row)' = LeagueOf(row)
                       /\ Results(row)' = Results(row)
  BY <1>6, ReadsAre, SameContents
<1>7. Plan[23][1] = "round" /\ Plan[24][1] = "season" /\ {23, 24} \subseteq LoopSteps
  BY PlanIs DEF LoopSteps
<1>8. BriefsWritten'
  <2>. SUFFICES ASSUME NEW row \in ReadOf("round")', Passed(23, row)'
                PROVE  Holds(briefs, memory'[row], RoundDoc(row)')
    BY <1>2 DEF BriefsWritten, Holds
  <2>1. row \in ReadOf("round") /\ Passed(23, row) /\ run.at >= 21
    BY <1>3, <1>7
  <2>. QED
    BY <1>1, <1>6, <2>1 DEF BriefsWritten
<1>9. SeasonsWritten'
  <2>. SUFFICES ASSUME NEW row \in ReadOf("season")', LeagueDone(row)'
                PROVE  /\ row \in ReadOf("season") /\ run.at >= 21 /\ LeagueDone(row)
                       /\ SeasonDone(row)' => SeasonDone(row)
    BY <1>1, <1>2, <1>6 DEF SeasonsWritten, Holds, LeagueDone
  <2>1. run'.at >= 24 /\ run.at \in 1 .. 25
    BY ReadsAre DEF LeagueDone, SeasonDone
  <2>2. run.at >= 23 /\ ~Query
    BY <2>1, ReadsAre, QueryRun
  <2>3. PICK x \in Rows : NextRow(x)
    BY <2>2 DEF Reads
  <2>4. /\ run'.at = run.at /\ run.row = {} /\ run'.row = {x} /\ run'.todo = run.todo \ {x}
        /\ run'.read = run.read /\ run.at \in {3, 6, 10, 11, 15, 20, 23, 24}
    BY <2>3, NextRowRun
  <2>5. run.at = 24
    BY <2>1, <2>4
  <2>. QED
    BY <2>4, <2>5 DEF LeagueDone, SeasonDone, ReadOf
<1>. QED
  BY <1>4, <1>5, <1>8, <1>9

(* Steps that write nothing to a store.                                    *)
LEMMA MovesSame ==
  ASSUME RunInv, Moves
  PROVE  /\ memory' = memory /\ run'.read = run.read /\ Running /\ run.at \in 1 .. 25
         /\ run.at <= run'.at /\ run'.at <= run.at + 1 /\ run'.at \in Nat
         /\ \A k : ReadOf(k)' = ReadOf(k) /\ IndexOf(k)' = IndexOf(k)
         /\ \A k \in Documents : \A row : DocOf(k, row)' = DocOf(k, row)
         /\ \A row : /\ RoundDoc(row)' = RoundDoc(row) /\ LeagueOf(row)' = LeagueOf(row)
                   /\ Results(row)' = Results(row)
         /\ \A p \in LoopSteps : \A row \in ReadOf(Plan[p][1]) :
              Passed(p, row)' => Passed(p, row) \/ (p = run.at /\ row \in run.row)
<1>1. memory' = memory /\ run'.read = run.read /\ Running /\ run.at \in 1 .. 25
  BY MovesRun DEF Moves
<1>2. run.at <= run'.at /\ run'.at <= run.at + 1 /\ run'.at \in Nat
  BY <1>1, MovesRun
<1>3. \A p \in LoopSteps : \A row \in ReadOf(Plan[p][1]) :
        Passed(p, row)' => Passed(p, row) \/ (p = run.at /\ row \in run.row)
  BY PassedMoves, RowsToPass DEF ReadOf
<1>. QED
  BY <1>1, <1>2, <1>3, SameContents

LEMMA DocumentedMoves ==
  ASSUME RunInv, Moves, Documented, UNCHANGED docs, Plan[run.at][2] # "docs" \/ run.row = {}
  PROVE  Documented'
<1>. SUFFICES ASSUME NEW k \in Documents, NEW row \in ReadOf(k)
              PROVE  /\ Passed(First[k], row)' => Passed(First[k], row)
                     /\ Passed(Last[k], row)' => Passed(Last[k], row)
  BY MovesSame DEF Documented
<1>1. /\ First[k] \in LoopSteps /\ Last[k] \in LoopSteps /\ Plan[First[k]][1] = k /\ Plan[Last[k]][1] = k
      /\ Plan[First[k]][2] = "docs" /\ Plan[Last[k]][2] = "docs"
  BY LoopStepIs, FirstIs
<1>. QED
  BY <1>1, MovesSame

LEMMA IndexesMove ==
  ASSUME RunInv, Moves, IndexesWritten, UNCHANGED indexes, Plan[run.at][2] # "index"
  PROVE  IndexesWritten'
<1>1. run.at \notin {2, 7, 9, 13, 16, 21} /\ run.at \in 1 .. 25 /\ run'.at <= run.at + 1 /\ run'.at \in Nat
  BY MovesSame, TaskIs
<1>2. \A k \in Kinds : IndexAt[k] \in {2, 7, 9, 13, 16, 21}
  BY KindsAre DEF IndexAt
<1>3. \A k \in Kinds : run'.at > IndexAt[k] => run.at > IndexAt[k]
  BY <1>1, <1>2
<1>. QED
  BY <1>3, MovesSame DEF IndexesWritten, Holds

LEMMA BriefsMove ==
  ASSUME RunInv, Moves, BriefsWritten, UNCHANGED briefs, run.at # 23 \/ run.row = {}
  PROVE  BriefsWritten'
<1>1. 23 \in LoopSteps /\ Plan[23][1] = "round"
  BY PlanIs DEF LoopSteps
<1>2. \A row \in ReadOf("round") : Passed(23, row)' => Passed(23, row)
  BY <1>1, MovesSame
<1>. QED
  BY <1>2, MovesSame DEF BriefsWritten, Holds

LEMMA SeasonsMove ==
  ASSUME RunInv, Moves, SeasonsWritten, UNCHANGED published, run.at \notin {24, 25} \/ run.row = {}
  PROVE  SeasonsWritten'
<1>1. ASSUME NEW row \in ReadOf("season"), LeagueDone(row)' PROVE SeasonDone(row)' /\ SeasonDone(row)
  <2>1. run'.row = {} /\ RunTypes /\ run.at \in 1 .. 25
    BY MovesRun DEF RunInv, Moves
  <2>2. SeasonDone(row)'
    BY <1>1, <2>1 DEF LeagueDone
  <2>3. CASE run.todo = {} /\ run'.at = run.at + 1 /\ run'.todo = LoopOf(run.at + 1, run.read)
    <3>1. run.at # 23
      <4>. SUFFICES ASSUME run.at = 23 PROVE FALSE
        OBVIOUS
      <4>1. row \in LoopOf(24, run.read)
        BY LoopIs, PlanIs DEF ReadOf
      <4>. QED
        BY <2>2, <2>3, <4>1 DEF SeasonDone
    <3>2. run.at \in {24, 25}
      BY <2>1, <2>2, <2>3, <3>1 DEF SeasonDone
    <3>. QED
      BY <2>2, <2>3, <3>2 DEF SeasonDone
  <2>4. CASE run.todo # {} /\ run.row # {} /\ run'.at = run.at
    BY <2>2, <2>4 DEF SeasonDone
  <2>. QED
    BY <2>2, <2>3, <2>4, MovesRun
<1>2. \A row \in ReadOf("season") : SeasonDone(row) => LeagueDone(row)
  BY DEF LeagueDone
<1>3. \A row \in ReadOf("season") : /\ LeagueDone(row)' => LeagueDone(row)
                                    /\ SeasonDone(row)' => SeasonDone(row)
  <2>1. \A row : SeasonDone(row)' => LeagueDone(row)'
    BY DEF LeagueDone
  <2>. QED
    BY <1>1, <1>2, <2>1
<1>4. ReadOf("season")' = ReadOf("season")
      /\ \A row : LeagueOf(row)' = LeagueOf(row) /\ Results(row)' = Results(row)
  BY MovesSame
<1>. QED
  BY <1>1, <1>3, <1>4 DEF SeasonsWritten, Holds

(* An upload.                                                              *)
LEMMA UploadDry ==
  ASSUME NEW store, NEW path, NEW content, run.mode = "dry"
  PROVE  Upload(store, path, content) = store
BY DEF Upload

LEMMA UploadHolds ==
  ASSUME NEW store, NEW path, NEW content, run.mode # "dry"
  PROVE  /\ Holds(Upload(store, path, content), path, content)
         /\ \A p, c : Holds(store, p, c) /\ p # path => Holds(Upload(store, path, content), p, c)
BY DEF Upload, Unchanged, Holds

LEMMA StoresSame ==
  ASSUME Stored, UNCHANGED blobs,
         spent'.lost # 0 \/ (spent'.lost = spent.lost /\ \A row \in Rows : idMap[row] # 0 => idMap'[row] = idMap[row])
  PROVE  Stored'
<1>1. UNCHANGED <<docs, indexes, published>>
  BY DEF blobs
<1>2. DocsNamed'
  <2>. SUFFICES ASSUME spent'.lost = 0, NEW k \in Documents, NEW a \in DOMAIN docs[k]
                PROVE  a # 0 /\ idMap'[docs[k][a].row] = a
    BY <1>1 DEF DocsNamed
  <2>1. a # 0 /\ idMap[docs[k][a].row] = a /\ docs[k][a].row \in Rows
    BY DEF Stored, DocsNamed, DocTypes
  <2>. QED
    BY <2>1
<1>. QED
  BY <1>1, <1>2 DEF Stored, DocTypes, DocsLinked, SeasonsLinked, EntriesLinked, Listed
(* The row an upload is for.                                               *)
LEMMA RowAt ==
  ASSUME RunInv, Running, run.at \in LoopSteps, NEW x \in run.row
  PROVE  /\ run.row = {x} /\ x \in ReadOf(Plan[run.at][1]) /\ x \in DOMAIN run.read
         /\ x \in Rows /\ KindOf(x) = Plan[run.at][1]
         /\ memory[x] \in Nat /\ memory[x] # 0
<1>1. RunTypes
  BY DEF RunInv
<1>0. run.at # 25
  BY DEF LoopSteps
<1>2. run.row = {x} /\ x \notin run.todo /\ x \in LoopOf(run.at, run.read)
  BY <1>0, <1>1 DEF RunTypes, Looping
<1>3. x \in ReadOf(Plan[run.at][1]) /\ x \in DOMAIN run.read
  BY <1>2, RowsToPass DEF ReadOf
<1>4. Plan[run.at][1] \in Kinds /\ x \in RowsOf[Plan[run.at][1]] /\ run.at \in 1 .. 25
  BY <1>3, LoopStepIs DEF ReadOf
<1>5. KindOf(x) = Plan[run.at][1]
  BY <1>3, <1>4, ReadBy
<1>6. KindOf(x) \in Drawn => First[KindOf(x)] <= run.at
  BY <1>4, <1>5, StepKindIs, FirstIs DEF Drawn, LoopSteps
<1>. QED
  BY <1>2, <1>3, <1>4, <1>5, <1>6, HasItsId

LEMMA SameId ==
  ASSUME RunInv, NEW a \in Rows, NEW b \in Rows, memory[a] # 0, a # b
  PROVE  memory[a] # memory[b]
BY DEF RunInv, Ids

(* A dry run uploads nothing.                                              *)
LEMMA DryUploads ==
  ASSUME RunInv, DocTypes, Uploads, run.mode = "dry"
  PROVE  UNCHANGED blobs
<1>1. \A store, path, content : Upload(store, path, content) = store
  BY UploadDry
<1>2. docs = [k \in Documents |-> docs[k]]
  BY DEF DocTypes
<1>3. ASSUME NEW row, WriteDoc(row) PROVE UNCHANGED blobs
  <2>1. docs' = [docs EXCEPT ![Step[1]] = Upload(docs[Step[1]], Uuid(row), DocOf(Step[1], row))]
    BY <1>3 DEF WriteDoc
  <2>2. docs' = [docs EXCEPT ![Step[1]] = docs[Step[1]]]
    BY <1>1, <2>1
  <2>3. docs' = docs
    BY <1>2, <2>2
  <2>. QED
    BY <1>3, <2>3 DEF WriteDoc, blobs
<1>4. CASE WriteIndex \/ NoRows \/ WriteManifest
  BY <1>1, <1>4 DEF WriteIndex, NoRows, WriteManifest, blobs
<1>5. ASSUME NEW row, WriteBrief(row) PROVE UNCHANGED blobs
  BY <1>1, <1>5 DEF WriteBrief, blobs
<1>. QED
  BY <1>3, <1>4, <1>5 DEF Uploads

(* A link to a row whose kind is written leads to its document.            *)
LEMMA WrittenLinks ==
  ASSUME RunInv, Running, Documented, NEW k \in Documents, First[k] < run.at, NEW row \in ReadOf(k)
  PROVE  memory[row] \in DOMAIN docs[k]
BY DEF Documented, Passed

LEMMA DocLinks ==
  ASSUME RunInv, Running, Documented, run.at \in {3, 6, 10, 11, 15, 20},
         NEW x, NEW l \in DocOf(Plan[run.at][1], x).links
  PROVE  \E j \in Documents : l \in DOMAIN docs[j]
<1>. DEFINE K == Plan[run.at][1]
<1>0. run.at \in 1 .. 25 /\ {"club", "site", "pilot"} \subseteq Documents /\ Documents \subseteq Kinds
  BY FirstIs
<1>1. ASSUME NEW kinds, NEW links, \A k \in kinds : k \in Documents /\ First[k] < run.at,
             l \in LinkIds(links, kinds)
      PROVE  \E j \in Documents : l \in DOMAIN docs[j]
  <2>1. PICK r \in DOMAIN run.read : KindOf(r) \in kinds /\ l = memory[r]
    BY <1>1 DEF LinkIds, Uuid
  <2>2. KindOf(r) \in Documents /\ First[KindOf(r)] < run.at /\ r \in ReadOf(KindOf(r))
    BY <1>0, <1>1, <2>1, ReadBy DEF ReadOf
  <2>. QED
    BY <2>1, <2>2, WrittenLinks
<1>2. CASE K = "club"
  <2>1. run.at \in {3, 11}
    BY <1>0, <1>2, StepKindIs
  <2>2. l \in ClubDoc(x).links
    BY <1>2, DocOfIs
  <2>3. PICK s \in ReadOf("site") : l = memory[s]
    BY <2>2 DEF ClubDoc, Uuid
  <2>4. s \in DOMAIN run.read /\ KindOf(s) = "site"
    BY <1>0, <2>3, ReadBy DEF ReadOf
  <2>5. 8 < run.at
    BY <2>4 DEF RunInv, ReadInOrder, QueryOf
  <2>6. First["site"] < run.at /\ "site" \in Documents
    BY <2>1, <2>5, FirstIs
  <2>. QED
    BY <2>3, <2>6, WrittenLinks
<1>3. CASE K \in {"entry", "site", "pilot"}
  <2>1. run.at \in {6, 10, 15}
    BY <1>0, <1>3, StepKindIs
  <2>2. l \in LinkIds(run.read[x].links, {"club"})
    BY <1>3, DocOfIs DEF EntryDoc, SiteDoc, PilotDoc
  <2>. QED
    BY <1>0, <1>1, <2>1, <2>2, FirstIs
<1>4. CASE K = "round"
  <2>1. run.at = 20
    BY <1>0, <1>4, StepKindIs
  <2>2. l \in LinkIds(NamedBy(x, run.read), {"club", "site", "pilot"})
    BY <1>4, DocOfIs DEF RoundDoc
  <2>. QED
    BY <1>0, <1>1, <2>1, <2>2, FirstIs
<1>5. K \in {"club", "entry", "site", "pilot", "round"}
  <2>1. K # "season"
    BY <1>0, StepKindIs
  <2>. QED
    BY <1>0, <2>1, StepKindIs, KindsAre
<1>. QED
  BY <1>2, <1>3, <1>4, <1>5

LEMMA WriteDocIs ==
  ASSUME RunInv, Stored, Wrote, NEW x, WriteDoc(x), run.mode # "dry"
  PROVE  /\ Running /\ run.at \in {3, 6, 10, 11, 15, 20} /\ run.at \in LoopSteps /\ run.row = {x}
         /\ Plan[run.at][1] \in Documents
         /\ x \in ReadOf(Plan[run.at][1]) /\ x \in Rows /\ memory[x] # 0 /\ memory = idMap
         /\ docs' = [k \in Documents |-> docs'[k]]
         /\ \A k \in Documents : k # Plan[run.at][1] => docs'[k] = docs[k]
         /\ DOMAIN docs'[Plan[run.at][1]] = DOMAIN docs[Plan[run.at][1]] \cup {memory[x]}
         /\ docs'[Plan[run.at][1]][memory[x]] = DocOf(Plan[run.at][1], x)
         /\ \A a \in DOMAIN docs[Plan[run.at][1]] : a # memory[x] =>
              docs'[Plan[run.at][1]][a] = docs[Plan[run.at][1]][a]
<1>. DEFINE K == Plan[run.at][1]
            up == Upload(docs[K], memory[x], DocOf(K, x))
<1>1. Running /\ run.at \in {3, 6, 10, 11, 15, 20} /\ x \in run.row /\ memory = idMap
  BY AtIs, TaskIs DEF WriteDoc, Saved
<1>2. run.at \in LoopSteps /\ run.at \in 1 .. 25
  BY <1>1 DEF LoopSteps
<1>3. run.row = {x} /\ x \in ReadOf(K) /\ x \in Rows /\ memory[x] # 0
  BY <1>1, <1>2, RowAt
<1>4. K \in Documents
  BY <1>1, <1>2, StepKindIs DEF Documents
<1>5. docs' = [docs EXCEPT ![K] = up]
  BY DEF WriteDoc, Step, Uuid
<1>6. docs = [k \in Documents |-> docs[k]]
  BY DEF Stored, DocTypes
<1>. HIDE DEF up
<1>7. docs' = [k \in Documents |-> docs'[k]] /\ docs'[K] = up /\ \A k \in Documents : k # K => docs'[k] = docs[k]
  BY <1>4, <1>5, <1>6
<1>8. /\ DOMAIN up = DOMAIN docs[K] \cup {memory[x]}
      /\ up[memory[x]] = DocOf(K, x)
      /\ \A a \in DOMAIN docs[K] : a # memory[x] => up[a] = docs[K][a]
  BY DEF up, Upload, Unchanged
<1>. QED
  BY <1>1, <1>2, <1>3, <1>4, <1>7, <1>8
LEMMA WriteDocStored ==
  ASSUME RunInv, Stored, Wrote, NEW x, WriteDoc(x), run.mode # "dry"
  PROVE  Stored'
<1>. DEFINE K == Plan[run.at][1]
<1>1. /\ Running /\ run.at \in {3, 6, 10, 11, 15, 20} /\ K \in Documents
      /\ x \in Rows /\ memory[x] # 0 /\ memory = idMap
      /\ docs' = [k \in Documents |-> docs'[k]]
      /\ \A k \in Documents : k # K => docs'[k] = docs[k]
      /\ DOMAIN docs'[K] = DOMAIN docs[K] \cup {memory[x]}
      /\ docs'[K][memory[x]] = DocOf(K, x)
      /\ \A a \in DOMAIN docs[K] : a # memory[x] => docs'[K][a] = docs[K][a]
  BY WriteDocIs
<1>2. UNCHANGED <<idMap, indexes, published, spent>>
  BY DEF WriteDoc
<1>3. DocOf(K, x).row = x
  BY <1>1, DocOfIs
<1>4. \A k \in Documents : DOMAIN docs[k] \subseteq DOMAIN docs'[k]
  BY <1>1
<1>5. DocTypes'
  <2>1. x \in RowsOf[K]
    BY WriteDocIs DEF ReadOf
  <2>. QED
    BY <1>1, <1>3, <2>1 DEF Stored, DocTypes
<1>6. DocsNamed'
  <2>. SUFFICES ASSUME spent.lost = 0, NEW k \in Documents, NEW a \in DOMAIN docs'[k]
                PROVE  a # 0 /\ idMap[docs'[k][a].row] = a
    BY <1>2 DEF DocsNamed
  <2>1. CASE k = K /\ a = memory[x]
    BY <1>1, <1>3, <2>1
  <2>2. CASE ~(k = K /\ a = memory[x])
    <3>1. a \in DOMAIN docs[k] /\ docs'[k][a] = docs[k][a]
      BY <1>1, <2>2
    <3>. QED
      BY <3>1 DEF Stored, DocsNamed
  <2>. QED
    BY <2>1, <2>2
<1>7. DocsLinked'
  <2>. SUFFICES ASSUME NEW k \in Documents, NEW a \in DOMAIN docs'[k], NEW l \in docs'[k][a].links
                PROVE  \E j \in Documents : l \in DOMAIN docs[j]
    BY <1>4 DEF DocsLinked
  <2>1. CASE k = K /\ a = memory[x]
    <3>1. Documented
      BY <1>1 DEF Wrote
    <3>2. l \in DocOf(K, x).links
      BY <1>1, <2>1
    <3>. QED
      BY <1>1, <3>1, <3>2, DocLinks
  <2>2. CASE ~(k = K /\ a = memory[x])
    <3>1. a \in DOMAIN docs[k] /\ docs'[k][a] = docs[k][a]
      BY <1>1, <2>2
    <3>. QED
      BY <3>1 DEF Stored, DocsLinked
  <2>. QED
    BY <2>1, <2>2
<1>8. SeasonsLinked'
  BY <1>2, <1>4, FirstIs DEF Stored, SeasonsLinked
<1>9. EntriesLinked'
  BY <1>2, <1>4, FirstIs DEF Stored, EntriesLinked, Listed
<1>. QED
  BY <1>5, <1>6, <1>7, <1>8, <1>9 DEF Stored

LEMMA WriteDocWrote ==
  ASSUME RunInv, Stored, Wrote, NEW x, WriteDoc(x), run.mode # "dry", Moves
  PROVE  Wrote'
<1>. DEFINE K == Plan[run.at][1]
<1>1. /\ Running /\ run.at \in {3, 6, 10, 11, 15, 20} /\ run.at \in LoopSteps /\ K \in Documents
      /\ run.row = {x} /\ x \in Rows /\ memory[x] # 0
      /\ \A k \in Documents : k # K => docs'[k] = docs[k]
      /\ DOMAIN docs'[K] = DOMAIN docs[K] \cup {memory[x]}
      /\ docs'[K][memory[x]] = DocOf(K, x)
      /\ \A a \in DOMAIN docs[K] : a # memory[x] => docs'[K][a] = docs[K][a]
  BY WriteDocIs
<1>2. Documented /\ IndexesWritten /\ BriefsWritten /\ SeasonsWritten
  BY <1>1 DEF Wrote
<1>3. UNCHANGED <<briefs, indexes, published>>
  BY DEF WriteDoc
<1>4. run.at \in 1 .. 25 /\ Plan[run.at][2] # "index" /\ run.at \notin {23, 24, 25}
  BY <1>1, TaskIs
<1>5. Documented'
  <2>. SUFFICES ASSUME NEW k \in Documents, NEW row \in ReadOf(k)
                PROVE  /\ Passed(First[k], row)' => memory[row] \in DOMAIN docs'[k]
                       /\ Passed(Last[k], row)' => docs'[k][memory[row]] = DocOf(k, row)
    BY MovesSame DEF Documented
  <2>1. First[k] \in LoopSteps /\ Last[k] \in LoopSteps /\ Plan[First[k]][1] = k /\ Plan[Last[k]][1] = k
    BY LoopStepIs, FirstIs
  <2>2. ASSUME NEW p \in {First[k], Last[k]}, Passed(p, row)'
        PROVE  Passed(p, row) \/ (k = K /\ row = x)
    BY <1>1, <2>1, <2>2, MovesSame
  <2>3. ASSUME Passed(First[k], row)' PROVE memory[row] \in DOMAIN docs'[k]
    <3>1. CASE Passed(First[k], row)
      BY <1>1, <1>2, <3>1 DEF Documented
    <3>2. CASE k = K /\ row = x
      BY <1>1, <3>2
    <3>. QED
      BY <2>2, <2>3, <3>1, <3>2
  <2>4. ASSUME Passed(Last[k], row)' PROVE docs'[k][memory[row]] = DocOf(k, row)
    <3>1. CASE k = K /\ row = x
      BY <1>1, <3>1
    <3>2. CASE k # K /\ Passed(Last[k], row)
      BY <1>1, <1>2, <3>2 DEF Documented
    <3>3. CASE k = K /\ row # x /\ Passed(Last[k], row)
      <4>1. Passed(First[k], row)
        BY <1>1, <3>3, LastFirst
      <4>2. memory[row] \in DOMAIN docs[k] /\ docs[k][memory[row]] = DocOf(k, row)
        BY <1>2, <3>3, <4>1 DEF Documented
      <4>3. memory[row] # memory[x]
        BY <1>1, <3>3, <4>1, PassedHasId, SameId
      <4>. QED
        BY <1>1, <3>3, <4>2, <4>3
    <3>. QED
      BY <2>2, <2>4, <3>1, <3>2, <3>3
  <2>. QED
    BY <2>3, <2>4
<1>6. IndexesWritten' /\ BriefsWritten' /\ SeasonsWritten'
  BY <1>2, <1>3, <1>4, IndexesMove, BriefsMove, SeasonsMove
<1>. QED
  BY <1>5, <1>6 DEF Wrote

LEMMA IndexAtIs ==
  /\ \A k \in Kinds : IndexAt[k] \in 1 .. 25 /\ Plan[IndexAt[k]][2] = "index" /\ Plan[IndexAt[k]][1] = k
  /\ \A n \in 1 .. 25 : Plan[n][2] = "index" => n = IndexAt[Plan[n][1]] /\ Plan[n][1] \in Kinds
  /\ \A k \in Drawn : First[k] < IndexAt[k]
<1>1. IndexAt = [club |-> 2, entry |-> 7, site |-> 9, season |-> 13, pilot |-> 16, round |-> 21]
  BY DEF IndexAt
<1>. QED
  BY <1>1, KindsAre, PlanIs, FirstIs DEF Drawn

LEMMA WriteIndexKeeps ==
  ASSUME RunInv, Stored, Wrote, WriteIndex, run.mode # "dry", Moves
  PROVE  Stored' /\ Wrote'
<1>. DEFINE K == Step[1]
<1>1. Running /\ run.at \in 1 .. 25 /\ Plan[run.at][2] = "index" /\ K = Plan[run.at][1]
  BY AtIs DEF WriteIndex, Step
<1>2. run.at = IndexAt[K] /\ K \in Kinds
  BY <1>1, IndexAtIs
<1>3. indexes' = Upload(indexes, K, IndexOf(K)) /\ UNCHANGED <<docs, briefs, published, idMap, spent>>
  BY DEF WriteIndex
<1>4. /\ Holds(indexes', K, IndexOf(K))
      /\ \A k, c : Holds(indexes, k, c) /\ k # K => Holds(indexes', k, c)
  BY <1>3, UploadHolds
<1>5. \A k : k # K => Listed(k)' = Listed(k)
  BY <1>3 DEF Upload, Listed
<1>6. Documented /\ IndexesWritten /\ BriefsWritten /\ SeasonsWritten
  BY <1>1 DEF Wrote
<1>7. Stored'
  <2>1. EntriesLinked'
    <3>. SUFFICES ASSUME NEW k \in Drawn, NEW e \in Listed(k)' PROVE e.id \in DOMAIN docs[k]
      BY <1>3 DEF EntriesLinked
    <3>1. CASE k # K
      BY <1>5, <3>1 DEF Stored, EntriesLinked
    <3>2. CASE k = K
      <4>1. e \in IndexOf(k)
        BY <1>4, <3>2 DEF Listed, Holds
      <4>2. PICK row \in ReadOf(k) : e = [id |-> memory[row], data |-> run.read[row].data]
        BY <4>1 DEF IndexOf, Uuid
      <4>3. k \in Documents /\ First[k] < run.at
        BY <1>2, <3>2, IndexAtIs, FirstIs
      <4>4. memory[row] \in DOMAIN docs[k]
        BY <1>1, <1>6, <4>3, WrittenLinks
      <4>. QED
        BY <4>2, <4>4
    <3>. QED
      BY <3>1, <3>2
  <2>. QED
    BY <1>3, <2>1 DEF Stored, DocTypes, DocsNamed, DocsLinked, SeasonsLinked
<1>8. IndexesWritten'
  <2>. SUFFICES ASSUME NEW k \in Kinds, run'.at > IndexAt[k] PROVE Holds(indexes', k, IndexOf(k))
    BY MovesSame DEF IndexesWritten, Holds
  <2>1. CASE k = K
    BY <1>4, <2>1
  <2>2. CASE k # K
    <3>1. IndexAt[k] # run.at /\ IndexAt[k] \in 1 .. 25
      BY <1>1, <2>2, IndexAtIs
    <3>2. run.at > IndexAt[k]
      BY <1>1, <3>1, MovesSame
    <3>. QED
      BY <1>4, <1>6, <2>2, <3>2 DEF IndexesWritten
  <2>. QED
    BY <2>1, <2>2
<1>9. run.at \notin {23, 24, 25} /\ Plan[run.at][2] # "docs"
  BY <1>1, TaskIs
<1>10. Documented' /\ BriefsWritten' /\ SeasonsWritten'
  BY <1>3, <1>6, <1>9, DocumentedMoves, BriefsMove, SeasonsMove
<1>. QED
  BY <1>7, <1>8, <1>10 DEF Wrote

LEMMA NoWriteKeeps ==
  ASSUME RunInv, Stored, Wrote, NoRows \/ WriteManifest, run.mode # "dry", Moves
  PROVE  Stored' /\ Wrote'
<1>1. UNCHANGED <<docs, briefs, indexes, published, idMap, spent>>
  BY DEF NoRows, WriteManifest, blobs
<1>2. Running /\ run.at \in 1 .. 25
  BY DEF Moves
<1>3. Documented /\ IndexesWritten /\ BriefsWritten /\ SeasonsWritten
  BY <1>2 DEF Wrote
<1>4. CASE NoRows
  <2>1. run.row = {} /\ Plan[run.at][2] # "index"
    BY <1>2, <1>4, TaskIs DEF NoRows, At, Step
  <2>. QED
    BY <1>1, <1>3, <2>1, DocumentedMoves, IndexesMove, BriefsMove, SeasonsMove
       DEF Wrote, Stored, DocTypes, DocsNamed, DocsLinked, SeasonsLinked, EntriesLinked, Listed
<1>5. CASE WriteManifest
  <2>1. Plan[run.at][2] = "manifest"
    BY <1>5 DEF WriteManifest, At, Step
  <2>2. run.at = 22
    BY <1>2, <2>1, TaskIs
  <2>. QED
    BY <1>1, <1>3, <2>1, <2>2, DocumentedMoves, IndexesMove, BriefsMove, SeasonsMove
       DEF Wrote, Stored, DocTypes, DocsNamed, DocsLinked, SeasonsLinked, EntriesLinked, Listed
<1>. QED
  BY <1>4, <1>5
LEMMA WriteBriefKeeps ==
  ASSUME RunInv, Stored, Wrote, NEW x, WriteBrief(x), run.mode # "dry", Moves
  PROVE  Stored' /\ Wrote'
<1>1. At("briefs") /\ x \in run.row /\ UNCHANGED <<docs, indexes, published, idMap, spent>>
      /\ briefs' = Upload(briefs, memory[x], RoundDoc(x))
  BY DEF WriteBrief, Uuid
<1>2. /\ Running /\ run.at = 23 /\ run.row = {x} /\ x \in ReadOf("round") /\ x \in Rows
      /\ memory[x] # 0 /\ Plan[run.at][2] # "docs" /\ Plan[run.at][2] # "index"
  <2>1. Running /\ Plan[run.at][2] = "briefs" /\ run.at \in 1 .. 25
    BY <1>1, AtIs
  <2>2. run.at = 23
    BY <2>1, TaskIs
  <2>3. run.at \in LoopSteps /\ Plan[23][1] = "round"
    BY <2>2, PlanIs DEF LoopSteps
  <2>. QED
    BY <1>1, <2>1, <2>2, <2>3, RowAt
<1>3. Documented /\ IndexesWritten /\ BriefsWritten /\ SeasonsWritten
  BY <1>2 DEF Wrote
<1>4. /\ Holds(briefs', memory[x], RoundDoc(x))
      /\ \A p, c : Holds(briefs, p, c) /\ p # memory[x] => Holds(briefs', p, c)
  BY <1>1, UploadHolds
<1>5. BriefsWritten'
  <2>. SUFFICES ASSUME NEW row \in ReadOf("round"), Passed(23, row)'
                PROVE  Holds(briefs', memory[row], RoundDoc(row))
    BY MovesSame DEF BriefsWritten, Holds
  <2>1. 23 \in LoopSteps /\ Plan[23][1] = "round"
    BY PlanIs DEF LoopSteps
  <2>2. CASE row = x
    BY <1>4, <2>2
  <2>3. CASE row # x
    <3>1. Passed(23, row)
      BY <1>2, <2>1, <2>3, MovesSame
    <3>2. row \in Rows
      BY <1>2, KindsAre, ReadBy DEF ReadOf
    <3>3. memory[row] # memory[x]
      BY <1>2, <2>3, <3>2, SameId
    <3>. QED
      BY <1>3, <1>4, <3>1, <3>3 DEF BriefsWritten
  <2>. QED
    BY <2>2, <2>3
<1>6. Documented' /\ IndexesWritten' /\ SeasonsWritten'
  BY <1>1, <1>2, <1>3, DocumentedMoves, IndexesMove, SeasonsMove
<1>7. Stored'
  BY <1>1 DEF Stored, DocTypes, DocsNamed, DocsLinked, SeasonsLinked, EntriesLinked, Listed
<1>. QED
  BY <1>5, <1>6, <1>7 DEF Wrote

LEMMA WriteSeasonKeeps ==
  ASSUME RunInv, Stored, Wrote, NEW x \in Rows, WriteLeague(x) \/ WriteResults(x), run.mode # "dry"
  PROVE  Stored' /\ Wrote'
<1>1. /\ WriteLeague(x) => published' = Upload(published, <<"seasons", x>>, LeagueOf(x))
      /\ WriteResults(x) => published' = Upload(published, <<"results", x>>, Results(x))
  BY DEF WriteLeague, WriteResults, LeagueOf
<1>2. /\ Running /\ run.at \in {24, 25} /\ run'.at \in {24, 25, 26} /\ run.row = {x}
      /\ memory' = memory /\ run'.read = run.read
      /\ UNCHANGED <<docs, briefs, indexes, idMap, spent>>
      /\ WriteLeague(x) => run.at = 24 /\ run'.at = 25 /\ run'.row = {x} /\ run'.todo = run.todo
      /\ WriteResults(x) => /\ run.at = 25 /\ run'.row = {} /\ run'.at \in {24, 26}
                            /\ run'.at = 24 => run'.todo = run.todo
                            /\ run'.at = 26 => run.todo = {}
  <2>1. WriteLeague(x) => run.at = 24 /\ run'.at = 25 /\ run'.row = {x} /\ run'.todo = run.todo
    BY SeasonRun
  <2>2. WriteResults(x) => /\ run.at = 25 /\ run'.row = {} /\ run'.at \in {24, 26}
                           /\ run'.at = 24 => run'.todo = run.todo
                           /\ run'.at = 26 => run.todo = {}
    BY SeasonRun
  <2>. QED
    BY <2>1, <2>2, SeasonRun
<1>3. Documented /\ IndexesWritten /\ BriefsWritten /\ SeasonsWritten
  BY <1>2 DEF Wrote
<1>4. ASSUME WriteLeague(x)
      PROVE  /\ Holds(published', <<"seasons", x>>, LeagueOf(x))
             /\ \A p, c : Holds(published, p, c) /\ p # <<"seasons", x>> => Holds(published', p, c)
             /\ \A p : p # <<"seasons", x>> /\ p \in DOMAIN published' =>
                  p \in DOMAIN published /\ published'[p] = published[p]
  <2>1. published' = Upload(published, <<"seasons", x>>, LeagueOf(x))
    BY <1>1, <1>4
  <2>2. \A p : p # <<"seasons", x>> /\ p \in DOMAIN published' =>
          p \in DOMAIN published /\ published'[p] = published[p]
    BY <2>1 DEF Upload
  <2>. QED
    BY <2>1, <2>2, UploadHolds
<1>5. ASSUME WriteResults(x)
      PROVE  /\ Holds(published', <<"results", x>>, Results(x))
             /\ \A p, c : Holds(published, p, c) /\ p # <<"results", x>> => Holds(published', p, c)
             /\ \A p : p # <<"results", x>> /\ p \in DOMAIN published' =>
                  p \in DOMAIN published /\ published'[p] = published[p]
  <2>1. published' = Upload(published, <<"results", x>>, Results(x))
    BY <1>1, <1>5
  <2>2. \A p : p # <<"results", x>> /\ p \in DOMAIN published' =>
          p \in DOMAIN published /\ published'[p] = published[p]
    BY <2>1 DEF Upload
  <2>. QED
    BY <2>1, <2>2, UploadHolds
<1>6. \A a, b : <<"seasons", a>> # <<"results", b>> /\ (<<"seasons", a>> = <<"seasons", b>> => a = b)
                /\ (<<"results", a>> = <<"results", b>> => a = b)
  OBVIOUS
<1>7. /\ \A k : ReadOf(k)' = ReadOf(k) /\ IndexOf(k)' = IndexOf(k)
      /\ \A k \in Documents : \A row : DocOf(k, row)' = DocOf(k, row)
      /\ \A row : /\ RoundDoc(row)' = RoundDoc(row) /\ LeagueOf(row)' = LeagueOf(row)
                  /\ Results(row)' = Results(row)
  BY <1>2, SameContents
<1>8. SeasonsWritten'
  <2>. SUFFICES ASSUME NEW row \in ReadOf("season")
                PROVE  /\ LeagueDone(row)' => Holds(published', <<"seasons", row>>, LeagueOf(row))
                       /\ SeasonDone(row)' => Holds(published', <<"results", row>>, Results(row))
    <3>1. ReadOf("season")' = ReadOf("season")
          /\ \A row : LeagueOf(row)' = LeagueOf(row) /\ Results(row)' = Results(row)
      BY <1>7
    <3>. QED
      BY <3>1 DEF SeasonsWritten, Holds
  <2>1. /\ LeagueDone(row) => Holds(published, <<"seasons", row>>, LeagueOf(row))
        /\ SeasonDone(row) => Holds(published, <<"results", row>>, Results(row))
    BY <1>3 DEF SeasonsWritten
  <2>2. CASE WriteLeague(x)
    <3>1. SeasonDone(row)' => SeasonDone(row) /\ LeagueDone(row) /\ row # x
      BY <1>2, <2>2 DEF SeasonDone, LeagueDone
    <3>2. LeagueDone(row)' => SeasonDone(row)' \/ row = x
      BY <1>2, <2>2 DEF LeagueDone
    <3>. QED
      BY <1>4, <1>6, <2>1, <2>2, <3>1, <3>2
  <2>3. CASE WriteResults(x)
    <3>1. LeagueDone(row)' => SeasonDone(row)'
      BY <1>2, <2>3 DEF LeagueDone
    <3>2. SeasonDone(row)' /\ row # x => SeasonDone(row)
      BY <1>2, <2>3 DEF SeasonDone
    <3>3. row = x \/ SeasonDone(row) => LeagueDone(row)
      BY <1>2, <2>3 DEF LeagueDone
    <3>4. LeagueDone(row)' => Holds(published', <<"seasons", row>>, LeagueOf(row))
      BY <1>5, <1>6, <2>1, <2>3, <3>1, <3>2, <3>3
    <3>5. SeasonDone(row)' => Holds(published', <<"results", row>>, Results(row))
      BY <1>5, <1>6, <2>1, <2>3, <3>2
    <3>. QED
      BY <3>4, <3>5
  <2>. QED
    BY <2>2, <2>3, SeasonRun
<1>9. Documented' /\ IndexesWritten' /\ BriefsWritten'
  <2>1. \A row : \A p \in 1 .. 23 : Passed(p, row)
    BY <1>2 DEF Passed
  <2>2. \A k \in Documents : First[k] \in 1 .. 20 /\ Last[k] \in 1 .. 20
    BY FirstIs
  <2>3. \A k \in Kinds : run.at > IndexAt[k]
    <3>1. \A k \in Kinds : IndexAt[k] \in {2, 7, 9, 13, 16, 21}
      BY KindsAre DEF IndexAt
    <3>. QED
      BY <1>2, <3>1
  <2>4. Documented'
    BY <1>2, <1>3, <1>7, <2>1, <2>2 DEF Documented
  <2>5. IndexesWritten'
    BY <1>2, <1>3, <1>7, <2>3 DEF IndexesWritten, Holds
  <2>6. BriefsWritten'
    BY <1>2, <1>3, <1>7, <2>1 DEF BriefsWritten, Holds
  <2>. QED
    BY <2>4, <2>5, <2>6
<1>10. SeasonsLinked'
  <2>. SUFFICES ASSUME NEW row \in SeasonRows, <<"seasons", row>> \in DOMAIN published'
                PROVE  published'[<<"seasons", row>>].rounds \subseteq DOMAIN docs["round"]
    BY <1>2 DEF SeasonsLinked
  <2>1. CASE WriteLeague(x) /\ row = x
    <3>1. published'[<<"seasons", row>>] = LeagueOf(x)
      BY <1>4, <2>1 DEF Holds
    <3>2. \A r \in ReadOf("round") : memory[r] \in DOMAIN docs["round"]
      BY <1>2, <1>3, FirstIs, WrittenLinks
    <3>3. LeagueOf(x).rounds \subseteq DOMAIN docs["round"]
      BY <3>2 DEF LeagueOf, RoundsOfSeason, Uuid
    <3>. QED
      BY <3>1, <3>3
  <2>2. CASE ~(WriteLeague(x) /\ row = x)
    <3>1. <<"seasons", row>> \in DOMAIN published /\ published'[<<"seasons", row>>] = published[<<"seasons", row>>]
      BY <1>4, <1>5, <1>6, <2>2
    <3>. QED
      BY <3>1 DEF Stored, SeasonsLinked
  <2>. QED
    BY <2>1, <2>2
<1>11. Stored'
  BY <1>2, <1>10 DEF Stored, DocTypes, DocsNamed, DocsLinked, EntriesLinked, Listed
<1>. QED
  BY <1>8, <1>9, <1>11 DEF Wrote

LEMMA SeasonsKeep == ASSUME RunInv, Stored, Wrote, Seasonal PROVE Stored' /\ Wrote'
<1>1. PICK x \in Rows : WriteLeague(x) \/ WriteResults(x)
  BY DEF Seasonal
<1>2. CASE run.mode = "dry"
  <2>1. published' = published
    BY <1>1, <1>2, UploadDry DEF WriteLeague, WriteResults
  <2>2. UNCHANGED blobs /\ UNCHANGED <<idMap, spent>> /\ run'.mode = "dry"
    BY <1>1, <1>2, <2>1, SeasonRun DEF blobs
  <2>. QED
    BY <2>2, StoresSame DEF Wrote
<1>3. CASE run.mode # "dry"
  BY <1>1, <1>3, WriteSeasonKeeps
<1>. QED
  BY <1>2, <1>3

(* Passing over entries touches nothing that was written.                  *)
LEMMA SkipKeeps == ASSUME RunInv, Stored, Wrote, SkipEntries PROVE Stored' /\ Wrote'
<1>1. /\ Running /\ run.at = 5 /\ run'.at = 6 /\ run'.mode = run.mode /\ memory' = memory
      /\ run'.row = {} /\ run'.todo = LoopOf(6, run'.read) /\ RunTypes
      /\ UNCHANGED <<docs, briefs, indexes, published, idMap, spent>> /\ UNCHANGED blobs
      /\ DOMAIN run'.read \subseteq DOMAIN run.read
      /\ \A row \in DOMAIN run'.read : run'.read[row] = run.read[row]
      /\ \A row \in DOMAIN run.read : row \notin Entries => row \in DOMAIN run'.read
  BY SkipRun DEF blobs
<1>2. Stored'
  BY <1>1, StoresSame
<1>3. \A row \in Clubs : row \notin Entries
  <2>1. RowsOf["club"] = Clubs /\ RowsOf["entry"] = Entries /\ {"club", "entry"} \subseteq Tables
    BY TablesAre DEF RowsOf
  <2>. QED
    BY <2>1, MigrationAssumption
<1>4. ReadOf("club")' = ReadOf("club") /\ ReadOf("club") \subseteq DOMAIN run'.read
  BY <1>1, <1>3 DEF ReadOf, RowsOf
<1>5. IndexOf("club")' = IndexOf("club")
  <2>1. \A row \in ReadOf("club") : run'.read[row] = run.read[row]
    BY <1>1, <1>4
  <2>2. {[id |-> memory'[row], data |-> run'.read[row].data] : row \in ReadOf("club")} =
        {[id |-> memory[row], data |-> run.read[row].data] : row \in ReadOf("club")}
    BY <1>1, <2>1
  <2>. QED
    BY <1>4, <2>2 DEF IndexOf, Uuid
<1>. SUFFICES ASSUME run.mode # "dry"
              PROVE  Documented' /\ IndexesWritten' /\ BriefsWritten' /\ SeasonsWritten'
  BY <1>1, <1>2 DEF Wrote
<1>6. Documented /\ IndexesWritten
  BY <1>1 DEF Wrote
<1>7. Documented'
  <2>. SUFFICES ASSUME NEW k \in Documents, NEW row \in ReadOf(k)'
                PROVE  /\ Passed(First[k], row)' => memory[row] \in DOMAIN docs[k]
                       /\ ~Passed(Last[k], row)'
    BY <1>1 DEF Documented
  <2>1. k = "club" \/ First[k] > 6 \/ k = "entry"
    BY FirstIs
  <2>2. Last[k] >= 6 /\ (Last[k] = 6 => k = "entry")
    BY FirstIs
  <2>3. k = "entry" => row \in run'.todo
    BY <1>1, LoopIs, PlanIs DEF ReadOf
  <2>4. ~Passed(Last[k], row)'
    BY <1>1, <2>2, <2>3, FirstIs DEF Passed
  <2>5. CASE k = "club"
    <3>1. Passed(First[k], row)
      BY <1>1, <2>5, FirstIs DEF Passed
    <3>. QED
      BY <1>4, <1>6, <2>4, <2>5, <3>1 DEF Documented
  <2>6. CASE k # "club"
    <3>1. ~Passed(First[k], row)'
      BY <1>1, <2>1, <2>3, <2>6, FirstIs DEF Passed
    <3>. QED
      BY <2>4, <3>1
  <2>. QED
    BY <2>5, <2>6
<1>8. IndexesWritten'
  <2>1. \A k \in Kinds : 6 > IndexAt[k] => k = "club"
    BY KindsAre DEF IndexAt
  <2>2. "club" \in Kinds /\ 5 > IndexAt["club"]
    BY KindsAre DEF IndexAt
  <2>3. Holds(indexes, "club", IndexOf("club"))
    BY <1>1, <1>6, <2>2 DEF IndexesWritten
  <2>. QED
    BY <1>1, <1>5, <2>1, <2>3 DEF IndexesWritten, Holds
<1>9. BriefsWritten' /\ SeasonsWritten'
  BY <1>1 DEF BriefsWritten, SeasonsWritten, Passed, SeasonDone, LeagueDone
<1>. QED
  BY <1>7, <1>8, <1>9

LEMMA UploadsKeep == ASSUME RunInv, Stored, Wrote, Uploads PROVE Stored' /\ Wrote'
<1>1. Moves
  BY UploadsMove
<1>2. CASE run.mode = "dry"
  <2>1. UNCHANGED blobs /\ UNCHANGED <<idMap, spent>>
    BY <1>1, <1>2, DryUploads DEF Moves, Stored
  <2>2. run'.mode = "dry"
    BY <1>1, <1>2, MovesRun
  <2>. QED
    BY <2>1, <2>2, StoresSame DEF Wrote
<1>3. CASE run.mode # "dry"
  BY <1>1, <1>3, WriteDocStored, WriteDocWrote, WriteIndexKeeps, NoWriteKeeps, WriteBriefKeeps
     DEF Uploads
<1>. QED
  BY <1>2, <1>3
-----------------------------------------------------------------------------
(* The invariant.                                                          *)

LEMMA WroteSame ==
  ASSUME Wrote, memory' = memory, UNCHANGED blobs, Running' => Running,
         Running' => /\ run'.at = run.at /\ run'.mode = run.mode /\ run'.row = run.row
                     /\ run'.todo = run.todo /\ run'.read = run.read
  PROVE  Wrote'
<1>. SUFFICES ASSUME Running', run'.mode # "dry"
              PROVE  Documented' /\ IndexesWritten' /\ BriefsWritten' /\ SeasonsWritten'
  BY DEF Wrote
<1>1. Documented /\ IndexesWritten /\ BriefsWritten /\ SeasonsWritten
  BY DEF Wrote
<1>2. run'.at = run.at /\ run'.row = run.row /\ run'.todo = run.todo /\ run'.read = run.read
      /\ UNCHANGED <<docs, briefs, indexes, published>>
  BY DEF blobs
<1>3. /\ \A p, row : Passed(p, row)' <=> Passed(p, row)
      /\ \A row : (SeasonDone(row)' <=> SeasonDone(row)) /\ (LeagueDone(row)' <=> LeagueDone(row))
  BY <1>2 DEF Passed, SeasonDone, LeagueDone
<1>. QED
  BY <1>1, <1>2, <1>3, SameContents
     DEF Documented, IndexesWritten, BriefsWritten, SeasonsWritten, Holds

LEMMA StartWrote == ASSUME RunInv, NEW mode, Start(mode) PROVE Wrote'
<1>1. run' = [at |-> 1, mode |-> mode, row |-> {}, todo |-> {}, read |-> <<>>, steady |-> TRUE]
  BY DEF Start
<1>2. DOMAIN run'.read = {} /\ run'.at = 1
  BY <1>1
<1>3. \A k : ReadOf(k)' = {}
  BY <1>2 DEF ReadOf
<1>4. \A k \in Kinds : ~(run'.at > IndexAt[k])
  BY <1>2, IndexAtIs
<1>. QED
  BY <1>3, <1>4 DEF Wrote, Documented, IndexesWritten, BriefsWritten, SeasonsWritten

LEMMA BlobsKeep == ASSUME RunInv, Stored, Wrote, [Next]_vars PROVE Stored' /\ Wrote'
<1>0. Ids
  BY DEF RunInv
<1>1. CASE \E mode \in {"real", "resume", "dry"} : Start(mode)
  <2>1. UNCHANGED <<blobs, idMap>> /\ spent'.lost = spent.lost
    BY <1>1 DEF Start, RunInv, Spent
  <2>. QED
    BY <1>1, <2>1, StoresSame, StartWrote
<1>2. CASE SaveIdMap
  <2>1. UNCHANGED <<blobs, spent, memory, run>> /\ idMap' = memory /\ (Running' <=> Running)
    BY <1>2 DEF SaveIdMap, Running
  <2>2. \A row \in Rows : idMap[row] # 0 => idMap'[row] = idMap[row]
    BY <1>0, <2>1 DEF Ids
  <2>. QED
    BY <2>1, <2>2, StoresSame, WroteSame
<1>3. CASE Query \/ \E row \in Rows : NextRow(row)
  <2>1. UNCHANGED <<blobs, idMap, spent>>
    BY <1>3, ReadsAre DEF Reads
  <2>. QED
    BY <1>3, <2>1, StoresSame, WroteReads DEF Reads
<1>4. CASE Exit \/ Crash
  <2>1. UNCHANGED <<blobs, idMap, spent>> /\ ~Running'
    BY <1>4 DEF Exit, Crash, Running
  <2>. QED
    BY <2>1, StoresSame DEF Wrote
<1>5. CASE EditSource
  <2>1. UNCHANGED <<blobs, idMap, memory>> /\ spent'.lost = spent.lost
    BY <1>5 DEF EditSource, RunInv, Spent
  <2>2. Running' => Running /\ run'.at = run.at /\ run'.mode = run.mode /\ run'.row = run.row
                    /\ run'.todo = run.todo /\ run'.read = run.read
    <3>1. CASE Running
      <4>1. RunTypes
        BY <3>1 DEF RunInv
      <4>2. run' = [at |-> run.at, mode |-> run.mode, row |-> run.row, todo |-> run.todo,
                    read |-> run.read, steady |-> FALSE]
        BY <1>5, <3>1, <4>1 DEF EditSource, RunTypes
      <4>. QED
        BY <3>1, <4>2
    <3>2. CASE ~Running
      BY <1>5, <3>2 DEF EditSource, Running
    <3>. QED
      BY <3>1, <3>2
  <2>. QED
    BY <2>1, <2>2, StoresSame, WroteSame
<1>6. CASE LoseMap
  <2>1. UNCHANGED blobs /\ ~Running' /\ spent'.lost # 0
    BY <1>6 DEF LoseMap, Running, RunInv, Spent
  <2>. QED
    BY <2>1, StoresSame DEF Wrote
<1>7. CASE UNCHANGED vars
  <2>1. UNCHANGED <<blobs, idMap, spent, memory, run>> /\ (Running' <=> Running)
    BY <1>7 DEF vars, blobs, Running
  <2>. QED
    BY <2>1, StoresSame, WroteSame
<1>8. CASE Uploads
  BY <1>8, UploadsKeep
<1>9. CASE Seasonal \/ SkipEntries
  BY <1>9, SeasonsKeep, SkipKeeps
<1>. QED
  BY <1>1, <1>2, <1>3, <1>4, <1>5, <1>6, <1>7, <1>8, <1>9, NextIs

(* The manifest and the counts of a dry run.                               *)
LEMMA ManifestNext == ASSUME RunInv, ManifestKept, [Next]_vars PROVE ManifestKept'
<1>1. ASSUME UNCHANGED manifest PROVE ManifestKept'
  BY <1>1 DEF ManifestKept
<1>2. CASE LoseMap
  BY <1>2 DEF LoseMap, ManifestKept
<1>3. CASE WriteManifest
  <2>1. Running /\ run.at = 22 /\ ReadInOrder
    BY <1>3, AtIs, TaskIs DEF WriteManifest, RunInv
  <2>2. 22 > QueryOf["team"] /\ 22 > QueryOf["place"]
    BY QueryOfIs
  <2>3. PICK s \in Sources : \A t \in ReadOf("team") : t \in DOMAIN s /\ run.read[t] = s[t]
    BY <2>1, <2>2 DEF ReadInOrder
  <2>4. PICK u \in Sources : \A p \in ReadOf("place") : p \in DOMAIN u /\ run.read[p] = u[p]
    BY <2>1, <2>2 DEF ReadInOrder
  <2>5. PICK m : m = ScoresKept
    OBVIOUS
  <2>6. \A row \in DOMAIN m : m[row] = TeamDocs(row, run.read)
    BY <2>5 DEF ScoresKept
  <2>7. \A row : \A t \in DOMAIN TeamDocs(row, run.read) :
          /\ t \in ReadOf("team") /\ TeamDocs(row, run.read)[t].score = run.read[t].data
          /\ \A p \in DOMAIN TeamDocs(row, run.read)[t].slots :
               p \in ReadOf("place") /\ TeamDocs(row, run.read)[t].slots[p] = run.read[p].data
    BY DEF TeamDocs, TeamsOf, PlacesOf, ReadOf, RowsOf
  <2>8. ScoresOf(m, s) /\ PointsOf(m, u)
    BY <2>3, <2>4, <2>6, <2>7 DEF ScoresOf, PointsOf
  <2>9. manifest' = {m}
    BY <1>3, <2>5 DEF WriteManifest
  <2>. QED
    BY <2>8, <2>9 DEF ManifestKept
<1>4. Uploads => WriteManifest \/ UNCHANGED manifest
  BY DEF Uploads, WriteIndex, NoRows, WriteDoc, WriteBrief, WriteLeague, WriteResults
<1>5. CASE (\E mode \in {"real", "resume", "dry"} : Start(mode)) \/ SaveIdMap \/ Query
           \/ (\E row \in Rows : NextRow(row)) \/ Exit \/ Crash \/ EditSource \/ UNCHANGED vars
           \/ Seasonal \/ SkipEntries
  BY <1>1, <1>5 DEF Start, SaveIdMap, Query, NextRow, Exit, Crash, EditSource, vars, Seasonal, WriteLeague,
     WriteResults, SkipEntries
<1>. QED
  BY <1>1, <1>2, <1>3, <1>4, <1>5, NextIs

LEMMA CountedNext == ASSUME RunInv, CountedRows, [Next]_vars PROVE CountedRows'
<1>0. Ids /\ Spent
  BY DEF RunInv
<1>1. ASSUME UNCHANGED counted, spent'.lost = spent.lost,
             \A row \in Rows : idMap[row] # 0 => idMap'[row] = idMap[row]
      PROVE  CountedRows'
  <2>. SUFFICES ASSUME spent.lost = 0, NEW rows \in counted
                PROVE  /\ rows \subseteq Rows
                       /\ \A row \in rows : KindOf(row) \in Kinds => idMap'[row] # 0
    BY <1>1 DEF CountedRows
  <2>1. rows \subseteq Rows /\ \A row \in rows : KindOf(row) \in Kinds => idMap[row] # 0
    BY DEF CountedRows
  <2>. QED
    BY <1>1, <2>1
<1>2. CASE (\E mode \in {"real", "resume", "dry"} : Start(mode)) \/ Query \/ Uploads \/ Seasonal \/ SkipEntries
           \/ (\E row \in Rows : NextRow(row)) \/ Crash \/ EditSource \/ UNCHANGED vars
  <2>1. UNCHANGED <<counted, idMap>> /\ spent'.lost = spent.lost
    BY <1>0, <1>2 DEF Start, Query, NextRow, Crash, EditSource, vars, Spent, Uploads, WriteIndex,
       NoRows, WriteManifest, WriteDoc, WriteBrief, Seasonal, WriteLeague, WriteResults, SkipEntries
  <2>. QED
    BY <1>1, <2>1
<1>3. CASE SaveIdMap
  BY <1>0, <1>1, <1>3 DEF SaveIdMap, Ids
<1>4. CASE LoseMap
  <2>1. spent'.lost # 0
    BY <1>0, <1>4 DEF LoseMap, Spent
  <2>. QED
    BY <2>1 DEF CountedRows
<1>5. CASE Exit
  <2>1. Running /\ run.at = 26 /\ memory = idMap /\ UNCHANGED <<idMap, spent>>
    BY <1>5, PlanIs DEF Exit, Done, Saved, RunInv, RunTypes
  <2>2. \A row \in DOMAIN run.read : row \in Rows /\ (KindOf(row) \in Kinds => idMap[row] # 0)
    BY <2>1, HasItsId, FirstIs DEF Drawn, RunInv, ReadInOrder
  <2>3. counted' = {DOMAIN run.read} \/ counted' = counted
    BY <1>5 DEF Exit
  <2>. QED
    BY <2>1, <2>2, <2>3 DEF CountedRows
<1>. QED
  BY <1>2, <1>3, <1>4, <1>5, NextIs

LEMMA MigrationInit == Init => MigrationInv
<1>. SUFFICES ASSUME Init PROVE MigrationInv
  OBVIOUS
<1>1. ~Running /\ docs = [k \in Documents |-> None] /\ \A k : DOMAIN None = {}
  BY DEF Init, Running, Documents, None
<1>2. published = None /\ indexes = None /\ manifest = {} /\ counted = {}
  BY DEF Init, Absent
<1>3. Stored
  <2>1. \A k \in Documents : DOMAIN docs[k] = {}
    BY <1>1
  <2>2. docs = [k \in Documents |-> docs[k]]
    BY <1>1
  <2>3. \A k : Listed(k) = {}
    BY <1>1, <1>2 DEF Listed
  <2>4. \A p : p \notin DOMAIN published
    BY <1>1, <1>2
  <2>. QED
    BY <2>1, <2>2, <2>3, <2>4 DEF Stored, DocTypes, DocsNamed, DocsLinked, SeasonsLinked,
       EntriesLinked
<1>. QED
  BY <1>1, <1>2, <1>3, RunInit DEF MigrationInv, Wrote, Kept, ManifestKept, CountedRows, Absent

LEMMA MigrationStep == MigrationInv /\ [Next]_vars => MigrationInv'
BY RunNext, BlobsKeep, ManifestNext, CountedNext DEF MigrationInv, Kept

LEMMA MigrationHolds == Spec => []MigrationInv
BY MigrationInit, MigrationStep, PTL DEF Spec
-----------------------------------------------------------------------------
(* What the run and the audits promise.                                    *)

LEMMA Anchored == MigrationInv => DocsAreAnchored
<1>. SUFFICES ASSUME MigrationInv PROVE DocsAreAnchored
  OBVIOUS
<1>1. DOMAIN docs = Documents /\ Drawn = {"entry", "pilot", "round"}
  BY DEF MigrationInv, Stored, DocTypes, Drawn
<1>2. spent.lost = 0 => \A k \in Documents : \A a, b \in DOMAIN docs[k] :
        docs[k][a].row = docs[k][b].row => a = b
  BY DEF MigrationInv, Stored, DocsNamed
<1>3. DocsLinked /\ SeasonsLinked /\ EntriesLinked
  BY DEF MigrationInv, Stored
<1>. QED
  BY <1>1, <1>2, <1>3 DEF DocsAreAnchored, DocsLinked, SeasonsLinked, EntriesLinked

(* A run that has come to its end has read the source as it is.            *)
LEMMA DoneIs ==
  ASSUME RunInv, Done, run.steady
  PROVE  /\ Running /\ run.at = 26 /\ memory = idMap
         /\ DOMAIN run.read = DOMAIN source /\ DOMAIN source \subseteq Rows
         /\ \A row \in DOMAIN source : run.read[row] = source[row]
<1>1. Running /\ run.at = 26 /\ RunTypes /\ ReadInOrder /\ ReadAsIs
  BY PlanIs DEF Done, RunInv, RunTypes
<1>2. memory = idMap
  BY <1>1 DEF RunInv, Unsaved
<1>3. DOMAIN source \subseteq Rows /\ DOMAIN run.read \subseteq Rows
  BY <1>1, MigrationAssumption DEF RunInv, ReadInOrder
<1>4. \A row \in Rows : QueryOf[KindOf(row)] < 26
  BY KindIs, QueryOfIs
<1>. QED
  BY <1>1, <1>2, <1>3, <1>4 DEF ReadAsIs

(* The links of a document are all that the row names.                     *)
LEMMA DoneLinks ==
  ASSUME RunInv, Done, run.steady, NEW kinds, NEW links, links \subseteq DOMAIN source,
         kinds \subseteq {"club", "site", "pilot"},
         \A l \in links : KindOf(l) \in {"club", "site", "pilot"} => KindOf(l) \in kinds
  PROVE  LinkIds(links, kinds) =
           {idMap[l] : l \in {l \in links : KindOf(l) \in {"club", "site", "pilot"}}}
<1>1. {l \in links \cap DOMAIN run.read : KindOf(l) \in kinds} =
      {l \in links : KindOf(l) \in {"club", "site", "pilot"}}
  BY DoneIs
<1>. QED
  BY <1>1, DoneIs DEF LinkIds, Uuid

(* What rows say of the teams of a round depends on the rows alone.        *)
LEMMA SameTeams ==
  ASSUME NEW read, NEW rows, DOMAIN read = DOMAIN rows, \A x \in DOMAIN rows : read[x] = rows[x],
         NEW row \in DOMAIN rows
  PROVE  /\ TeamsOf(row, read) = TeamsOf(row, rows) /\ TeamsOf(row, rows) \subseteq DOMAIN rows
         /\ TeamDocs(row, read) = TeamDocs(row, rows)
         /\ NamedBy(row, read) = NamedBy(row, rows)
<1>1. TeamsOf(row, read) = TeamsOf(row, rows) /\ TeamsOf(row, rows) \subseteq DOMAIN rows
  BY DEF TeamsOf
<1>2. \A t \in DOMAIN rows : PlacesOf(t, read) = PlacesOf(t, rows) /\ PlacesOf(t, rows) \subseteq DOMAIN rows
  BY DEF PlacesOf
<1>3. \A t \in DOMAIN rows : [p \in PlacesOf(t, read) |-> read[p].data] = [p \in PlacesOf(t, rows) |-> rows[p].data]
  BY <1>2
<1>4. TeamDocs(row, read) = TeamDocs(row, rows)
  <2>. DEFINE doc(t, of) == [score |-> of[t].data, slots |-> [p \in PlacesOf(t, of) |-> of[p].data]]
  <2>1. \A t \in TeamsOf(row, rows) : doc(t, read) = doc(t, rows)
    BY <1>1, <1>3
  <2>. HIDE DEF doc
  <2>2. [t \in TeamsOf(row, read) |-> doc(t, read)] = [t \in TeamsOf(row, rows) |-> doc(t, rows)]
    BY <1>1, <2>1
  <2>. QED
    BY <2>2 DEF TeamDocs, doc
<1>5. NamedBy(row, read) = NamedBy(row, rows)
  <2>. DEFINE parts == TeamsOf(row, rows) \cup UNION {PlacesOf(t, rows) : t \in TeamsOf(row, rows)}
  <2>1. TeamsOf(row, read) \cup UNION {PlacesOf(t, read) : t \in TeamsOf(row, read)} = parts
    BY <1>1, <1>2
  <2>2. \A x \in parts : read[x].links = rows[x].links
    BY <1>1, <1>2
  <2>. HIDE DEF parts
  <2>3. UNION {read[x].links : x \in parts} = UNION {rows[x].links : x \in parts}
    BY <2>2
  <2>. QED
    BY <2>1, <2>3 DEF NamedBy, parts
<1>. QED
  BY <1>1, <1>4, <1>5

LEMMA NamedRows ==
  ASSUME source \in Sources, NEW row \in DOMAIN source
  PROVE  NamedBy(row, source) \subseteq DOMAIN source /\ source[row].links \subseteq DOMAIN source
<1>1. \A x \in DOMAIN source : source[x].links \subseteq DOMAIN source
  BY MigrationAssumption
<1>. QED
  BY <1>1 DEF NamedBy, TeamsOf, PlacesOf

LEMMA Exact == MigrationInv => ImageIsExact
<1>. DEFINE of(kind) == {row \in DOMAIN source : row \in RowsOf[kind]}
            all == {"club", "site", "pilot"}
            ids(links) == {idMap[l] : l \in {l \in links : KindOf(l) \in all}}
            complete(season) ==
              {r \in of("round") : season \in source[r].links /\ source[r].data \in CompleteData}
            league(season) ==
              UNION {{[round |-> idMap[r], team |-> t, score |-> source[t].data] :
                        t \in TeamsOf(r, source)} : r \in complete(season)}
            results(season) == {[round |-> idMap[r], teams |-> TeamDocs(r, source)] : r \in complete(season)}
            round(row) == [row |-> row, data |-> source[row].data, teams |-> TeamDocs(row, source),
                           links |-> ids(NamedBy(row, source))]
<1>. SUFFICES ASSUME MigrationInv, Done, run.steady, run.mode # "dry"
     PROVE  /\ \A kind \in {"entry", "site", "pilot"} : \A row \in of(kind) :
                 docs[kind][idMap[row]] =
                   [row |-> row, data |-> source[row].data, links |-> ids(source[row].links)]
            /\ \A row \in of("round") :
                 docs["round"][idMap[row]] = round(row) /\ briefs[idMap[row]] = docs["round"][idMap[row]]
            /\ \A row \in of("club") :
                 docs["club"][idMap[row]].links = {idMap[s] : s \in {s \in of("site") : row \in source[s].links}}
            /\ \A kind \in Kinds :
                 indexes[kind] = {[id |-> idMap[row], data |-> source[row].data] : row \in of(kind)}
            /\ \A row \in of("season") :
                 /\ published[<<"seasons", row>>].league = league(row)
                 /\ published[<<"results", row>>] = results(row)
  BY DEF ImageIsExact
<1>1. RunInv /\ Wrote /\ source \in Sources
  BY DEF MigrationInv, RunInv
<1>2. /\ Running /\ run.at = 26 /\ memory = idMap
      /\ DOMAIN run.read = DOMAIN source /\ DOMAIN source \subseteq Rows
      /\ \A row \in DOMAIN source : run.read[row] = source[row]
  BY <1>1, DoneIs
<1>3. Documented /\ IndexesWritten /\ BriefsWritten /\ SeasonsWritten
  BY <1>1, <1>2 DEF Wrote
<1>4. \A k : ReadOf(k) = of(k)
  BY <1>2 DEF ReadOf
<1>5. \A p \in 1 .. 25 : \A row : Passed(p, row)
  BY <1>2 DEF Passed
<1>6. \A k \in Documents : \A row \in of(k) : docs[k][idMap[row]] = DocOf(k, row)
  BY <1>2, <1>3, <1>4, <1>5, FirstIs DEF Documented
<1>7. ASSUME NEW kind \in {"entry", "site", "pilot"}, NEW row \in of(kind)
      PROVE  docs[kind][idMap[row]] =
               [row |-> row, data |-> source[row].data, links |-> ids(source[row].links)]
  <2>1. kind \in Documents /\ kind \in Tables /\ row \in DOMAIN source /\ row \in Rows
    BY <1>2, FirstIs, TablesAre
  <2>2. KindOf(row) = kind
    BY <2>1, KindIs
  <2>3. LinksOf["entry"] = {"club", "season"} /\ LinksOf["site"] = {"club"} /\ LinksOf["pilot"] = {"club"}
    BY DEF LinksOf
  <2>4. \A l \in source[row].links : l \in DOMAIN source /\ KindOf(l) \in {"club", "season"}
    BY <1>1, <2>1, <2>2, <2>3, MigrationAssumption
  <2>5. LinkIds(source[row].links, {"club"}) = ids(source[row].links)
    BY <1>1, <2>4, DoneLinks
  <2>6. DocOf(kind, row) = [row |-> row, data |-> run.read[row].data,
                            links |-> LinkIds(run.read[row].links, {"club"})]
    <3>1. /\ kind = "entry" => DocOf(kind, row) = EntryDoc(row)
          /\ kind = "site" => DocOf(kind, row) = SiteDoc(row)
          /\ kind = "pilot" => DocOf(kind, row) = PilotDoc(row)
      BY DocOfIs
    <3>. QED
      BY <3>1 DEF EntryDoc, SiteDoc, PilotDoc
  <2>. QED
    BY <1>2, <1>6, <2>1, <2>5, <2>6
<1>8. ASSUME NEW row \in of("round")
      PROVE  docs["round"][idMap[row]] = round(row) /\ briefs[idMap[row]] = docs["round"][idMap[row]]
  <2>1. docs["round"][idMap[row]] = RoundDoc(row)
    BY <1>6, FirstIs, DocOfIs
  <2>2. briefs[idMap[row]] = RoundDoc(row)
    BY <1>2, <1>3, <1>4, <1>5 DEF BriefsWritten, Holds
  <2>3. TeamDocs(row, run.read) = TeamDocs(row, source) /\ NamedBy(row, run.read) = NamedBy(row, source)
    BY <1>2, SameTeams
  <2>4. NamedBy(row, source) \subseteq DOMAIN source
    BY <1>1, NamedRows
  <2>5. LinkIds(NamedBy(row, source), all) = ids(NamedBy(row, source))
    BY <1>1, <2>4, DoneLinks
  <2>. QED
    BY <1>2, <2>1, <2>2, <2>3, <2>5 DEF RoundDoc
<1>9. ASSUME NEW row \in of("club")
      PROVE  docs["club"][idMap[row]].links = {idMap[s] : s \in {s \in of("site") : row \in source[s].links}}
  <2>1. docs["club"][idMap[row]] = ClubDoc(row)
    BY <1>6, FirstIs, DocOfIs
  <2>2. {s \in ReadOf("site") : row \in run.read[s].links} = {s \in of("site") : row \in source[s].links}
    BY <1>2, <1>4
  <2>. QED
    BY <1>2, <2>1, <2>2 DEF ClubDoc, Uuid
<1>10. ASSUME NEW kind \in Kinds
       PROVE  indexes[kind] = {[id |-> idMap[row], data |-> source[row].data] : row \in of(kind)}
  <2>1. indexes[kind] = IndexOf(kind)
    BY <1>2, <1>3, IndexAtIs DEF IndexesWritten, Holds
  <2>2. IndexOf(kind) = {[id |-> idMap[row], data |-> source[row].data] : row \in of(kind)}
    BY <1>2, <1>4 DEF IndexOf, Uuid
  <2>. QED
    BY <2>1, <2>2
<1>11. ASSUME NEW row \in of("season")
       PROVE  /\ published[<<"seasons", row>>].league = league(row)
              /\ published[<<"results", row>>] = results(row)
  <2>1. published[<<"seasons", row>>] = LeagueOf(row) /\ published[<<"results", row>>] = Results(row)
    BY <1>2, <1>3, <1>4 DEF SeasonsWritten, SeasonDone, LeagueDone, Holds
  <2>2. CompleteOf(row) = complete(row)
    BY <1>2, <1>4 DEF CompleteOf, RoundsOfSeason, IsComplete
  <2>3. \A r \in complete(row) : /\ TeamDocs(r, run.read) = TeamDocs(r, source)
                                 /\ TeamsOf(r, run.read) = TeamsOf(r, source)
                                 /\ TeamsOf(r, source) \subseteq DOMAIN source
    BY <1>2, SameTeams
  <2>4. Results(row) = results(row)
    BY <1>2, <2>2, <2>3 DEF Results, Uuid
  <2>5. League(row) = league(row)
    <3>. DEFINE was(r) == {[round |-> memory[r], team |-> t, score |-> run.read[t].data] : t \in TeamsOf(r, run.read)}
                is(r) == {[round |-> idMap[r], team |-> t, score |-> source[t].data] : t \in TeamsOf(r, source)}
    <3>1. \A r \in complete(row) : was(r) = is(r)
      BY <1>2, <2>3
    <3>. HIDE DEF was, is
    <3>2. UNION {was(r) : r \in CompleteOf(row)} = UNION {is(r) : r \in complete(row)}
      BY <2>2, <3>1
    <3>. QED
      BY <3>2 DEF League, Uuid, was, is
  <2>. QED
    BY <2>1, <2>4, <2>5 DEF LeagueOf
<1>. QED
  BY <1>7, <1>8, <1>9, <1>10, <1>11

LEMMA Audited == MigrationInv => AuditsCatchMixtures
<1>. DEFINE scored == {docs["round"][e.id].teams : e \in {e \in Listed("round") : e.data \in CompleteData}}
<1>1. ASSUME MigrationInv, Passes, manifest # Absent
      PROVE  /\ \E s \in Sources : \A teams \in scored : \A t \in DOMAIN teams :
                  t \in DOMAIN s /\ teams[t].score = s[t].data
             /\ \E s \in Sources : \A teams \in scored : \A t \in DOMAIN teams :
                  \A p \in DOMAIN teams[t].slots : p \in DOMAIN s /\ teams[t].slots[p] = s[p].data
  <2>1. PICK m : manifest = {m} /\ (\E s \in Sources : ScoresOf(m, s)) /\ \E s \in Sources : PointsOf(m, s)
    BY <1>1 DEF MigrationInv, Kept, ManifestKept
  <2>2. \A teams \in scored : \E row \in DOMAIN m : \A t \in DOMAIN teams :
          /\ t \in DOMAIN m[row] /\ teams[t].score = m[row][t].score
          /\ \A p \in DOMAIN teams[t].slots :
               p \in DOMAIN m[row][t].slots /\ teams[t].slots[p] = m[row][t].slots[p]
    BY <1>1, <2>1 DEF Passes, ScoresMatch
  <2>3. ASSUME NEW s \in Sources, ScoresOf(m, s), NEW teams \in scored, NEW t \in DOMAIN teams
        PROVE  t \in DOMAIN s /\ teams[t].score = s[t].data
    BY <2>2, <2>3 DEF ScoresOf
  <2>4. ASSUME NEW s \in Sources, PointsOf(m, s), NEW teams \in scored, NEW t \in DOMAIN teams,
               NEW p \in DOMAIN teams[t].slots
        PROVE  p \in DOMAIN s /\ teams[t].slots[p] = s[p].data
    BY <2>2, <2>4 DEF PointsOf
  <2>. HIDE DEF scored
  <2>. QED
    BY <2>1, <2>3, <2>4
<1>2. ASSUME MigrationInv, spent.lost = 0, NEW rows \in counted, Reconciles(rows),
             NEW k \in CountedKinds \cap DOMAIN docs, NEW id \in DOMAIN docs[k]
      PROVE  docs[k][id].row \in rows
  <2>. DEFINE r == docs[k][id].row
              named == {row \in RowsOf[k] : idMap[row] # 0}
              found == rows \cap RowsOf[k]
  <2>1. DOMAIN docs = Documents /\ k \in Kinds /\ k \in Tables
    BY <1>2, TablesAre, FirstIs DEF MigrationInv, Stored, DocTypes
  <2>2. r \in RowsOf[k] /\ idMap[r] # 0
    BY <1>2, <2>1 DEF MigrationInv, Stored, DocTypes, DocsNamed
  <2>3. RowsOf[k] \subseteq Rows
    BY <2>1, KindIs
  <2>4. found \subseteq named
    BY <1>2, <2>1, <2>3, KindIs DEF MigrationInv, Kept, CountedRows
  <2>5. IsFiniteSet(named)
    BY <2>3, MigrationAssumption, FS_Subset
  <2>6. Cardinality(named) = Cardinality(found)
    BY <1>2 DEF Reconciles
  <2>7. found = named
    BY <2>4, <2>5, <2>6, FS_Subset
  <2>. QED
    BY <2>2, <2>7
<1>. QED
  BY <1>1, <1>2 DEF AuditsCatchMixtures

(* Whatever earlier runs were stopped in, a run of migrate.mjs (main) that *)
(* comes to its end while the database is left alone leaves an exact image *)
(* of it, and at every moment each row has one document, each UUID that a  *)
(* document or a season names has its own, and the indexes of entries,     *)
(* pilots and rounds list nothing that is not there.                       *)
THEOREM ImageStaysSound == Spec => []ImageIsSound
<1>1. MigrationInv => ImageIsSound
  BY Anchored, Exact DEF ImageIsSound
<1>. QED
  BY <1>1, MigrationHolds, PTL

(* When validate.mjs passes, the scores that all documents of Complete     *)
(* rounds give to their teams are of one state of the legacy database, and *)
(* so are the points of the pilots (crossCheckLegacyScores); when          *)
(* reconcile.mjs finds no anomaly, no document of the kinds it has counts  *)
(* of is left of a row that the dry run no longer found.                   *)
THEOREM AuditsStaySound == Spec => []AuditsCatchMixtures
BY Audited, MigrationHolds, PTL
=============================================================================
