-------------------------- MODULE MigrationsProofs --------------------------
(* What Up and Down keep of the schema and of schema_migrations, for any     *)
(* files that satisfy FilesAssumption, any number of processes and of faults.*)
EXTENDS MCMigrations, TLAPS, FiniteSetTheorems

\* No Up beside a Down.
Apart == Doing("up") = {} \/ Doing("down") = {}

\* What an Up knows at each place of its loop.
UpPlaces ==
  \A r \in Runner : run[r].op = "up" =>
    /\ run[r].at \in {"check", "execute", "record"} =>
         1 .. run[r].version - 1 \subseteq recorded
    /\ run[r].at = "execute" => run[r].version \notin halfDown
    /\ run[r].at = "record" => Names(run[r].version) \subseteq objects

\* What a Down knows: its version is the last one recorded; after the DROPs
\* nothing is left of it.
DownPlaces ==
  \A r \in Runner : run[r].op = "down" =>
    /\ run[r].at \in {"execute", "remove"} => recorded \subseteq 1 .. run[r].version
    /\ run[r].at = "remove" => Makes(run[r].version) \cap objects = {}

HalfDownGone ==
  \A v \in halfDown : v \in recorded /\ Names(v) \cap objects = {}

InOrder == \A v \in recorded : 1 .. v \subseteq recorded

AreThere ==
  \A v \in recorded \ (halfDown \cup BeingRemoved) : Names(v) \subseteq objects

HaveKeys ==
  /\ \A s \in severed : s.name \in objects
  /\ \A v \in Version : \A s \in UpFile[v] :
       s.name \in objects => (s.makes \subseteq objects <=> s \notin severed)

Safe == /\ Apart /\ UpPlaces /\ DownPlaces /\ HalfDownGone
        /\ InOrder /\ AreThere /\ HaveKeys

IInv == TypeOK /\ (crossed \/ Safe)

-----------------------------------------------------------------------------
\* Two files make nothing in common, and a statement makes what it names.
LEMMA FilesApart ==
  ASSUME NEW v \in Version, NEW w \in Version, v # w
  PROVE  Makes(v) \cap Makes(w) = {}
<1>1. CASE w < v
  BY <1>1, FilesAssumption DEF FilesAssumption, Version
<1>2. CASE v < w
  BY <1>2, FilesAssumption DEF FilesAssumption, Version
<1>. QED  BY <1>1, <1>2, FilesAssumption DEF FilesAssumption, Version

LEMMA NamesMade ==
  ASSUME NEW v \in Version
  PROVE  /\ Names(v) \subseteq Makes(v)
         /\ \A s \in UpFile[v] : s.name \in Names(v) /\ s.makes \subseteq Makes(v)
         /\ Makes(v) \subseteq Object
<1>1. \A s \in UpFile[v] : s.name \in Names(v) /\ s.makes \subseteq Makes(v)
  BY DEF Names, Makes
<1>2. Names(v) \subseteq Makes(v)
  BY FilesAssumption DEF FilesAssumption, Names, Makes
<1>. QED  BY <1>1, <1>2 DEF Object

\* What an up file leaves behind.
LEMMA AppliedMakes ==
  ASSUME TypeOK, NEW v \in Version
  PROVE  /\ objects \subseteq Applied(v)
         /\ Names(v) \subseteq Applied(v)
         /\ \A o \in Applied(v) \ objects : o \in Makes(v)
         /\ \A s \in UpFile[v] : s.name \notin objects => s.makes \subseteq Applied(v)
         /\ Applied(v) \subseteq Object
<1>1. objects \subseteq Applied(v)
  BY DEF Applied
<1>2. \A s \in UpFile[v] : s.name \notin objects => s.makes \subseteq Applied(v)
  BY DEF Applied
<1>3. \A o \in Applied(v) \ objects : o \in Makes(v)
  BY DEF Applied, Makes
<1>4. Names(v) \subseteq Applied(v)
  BY <1>1, <1>2, FilesAssumption DEF FilesAssumption, Names
<1>. QED  BY <1>1, <1>2, <1>3, <1>4, NamesMade DEF TypeOK

-----------------------------------------------------------------------------
(* The places of a call.                                                     *)

LEMMA CallTypes ==
  /\ Idle \in Call /\ At("up", "create", 0) \in Call /\ At("down", "list", 0) \in Call
  /\ \A v \in 1 .. Last + 1 : At("up", "check", v) \in Call
  /\ \A v \in Version :
       /\ At("up", "execute", v) \in Call /\ At("up", "record", v) \in Call
       /\ At("down", "execute", v) \in Call /\ At("down", "remove", v) \in Call
BY DEF Call

LEMMA CallShape ==
  \A c \in Call :
    /\ c = At(c.op, c.at, c.version)
    /\ c.op = "up" /\ c.at = "check" => c.version \in 1 .. Last + 1
    /\ c.op = "up" /\ c.at \in {"execute", "record"} => c.version \in Version
    /\ c.op = "down" /\ c.at \in {"execute", "remove"} => c.version \in Version
    /\ c = Idle <=> c.op = "none"
    /\ c.op \in {"none", "up", "down"}
BY DEF Call, At, Idle

LEMMA AtParts ==
  \A op, step, v : /\ At(op, step, v).op = op
                   /\ At(op, step, v).at = step
                   /\ At(op, step, v).version = v
BY DEF At

\* A set of versions that is not empty has a greatest one: above the one with
\* the fewest above it there is none.
LEMMA LastVersionIsLast ==
  ASSUME TypeOK, recorded # {}
  PROVE  LastVersion \in recorded /\ recorded \subseteq 1 .. LastVersion
<1>. DEFINE Above(v) == {w \in recorded : w > v}
            Aboves == {Above(v) : v \in recorded}
<1>1. Last \in Nat /\ recorded \in SUBSET (1 .. Last)
  BY FilesAssumption DEF FilesAssumption, TypeOK, Version
<1>2. IsFiniteSet(1 .. Last)
  BY <1>1, FS_Interval
<1>3. recorded \subseteq Nat /\ IsFiniteSet(recorded)
  <2>1. IsFiniteSet(recorded)
    BY <1>1, <1>2, FS_Subset
  <2>. QED  BY <1>1, <2>1
<1>4. IsWellFoundedOn(StrictSubsetOrdering(recorded), SUBSET recorded)
  BY <1>3, FS_StrictSubsetOrderingWellFounded, FS_FiniteSubsetsOfFinite
<1>5. Aboves \subseteq SUBSET recorded /\ Aboves # {}
  OBVIOUS
<1>6. \E U \in Aboves : \A V \in Aboves : <<V, U>> \notin StrictSubsetOrdering(recorded)
  <2>. DEFINE R == StrictSubsetOrdering(recorded)
              S == SUBSET recorded
  <2>1. IsWellFoundedOn(R, S) /\ Aboves \subseteq S /\ Aboves # {}
    BY <1>4, <1>5
  <2>2. \E U \in Aboves : \A V \in Aboves : ~ (<<V, U>> \in R)
    <3>. HIDE DEF Aboves, R, S
    <3>. QED  BY <2>1, WFMin
  <2>. QED  BY <2>2
<1>7. PICK v \in recorded :
        \A w \in recorded : <<Above(w), Above(v)>> \notin StrictSubsetOrdering(recorded)
  BY <1>6
<1>8. \A w \in recorded : w > v => FALSE
  <2>. SUFFICES ASSUME NEW w \in recorded, w > v  PROVE FALSE
    OBVIOUS
  <2>1. Above(w) \subseteq Above(v) /\ w \in Above(v) /\ w \notin Above(w)
    <3>1. \A u \in recorded : u > w => u > v
      BY <1>3
    <3>2. ~ (w > w)
      BY <1>3
    <3>. QED  BY <3>1, <3>2
  <2>. QED  BY <1>7, <2>1 DEF StrictSubsetOrdering
<1>9. \A w \in recorded : v >= w
  BY <1>3, <1>8
<1>10. LastVersion \in recorded /\ \A w \in recorded : LastVersion >= w
  BY <1>9 DEF LastVersion, Max
<1>. QED  BY <1>1, <1>10

-----------------------------------------------------------------------------
(* What a step can be.                                                       *)

\* The call of process r goes on at the place call.
Moves(r, call) == call \in Call /\ run' = [run EXCEPT ![r] = call]

\* A step that leaves the schema and its records alone.
QuietTo(r, call) ==
  /\ UNCHANGED <<recorded, objects>>
  /\ run[r].at = "remove" => call = Idle
  /\ \/ call \in {Idle, At("up", "create", 0), At("down", "list", 0), At("up", "check", 1)}
     \/ \E v \in Version : /\ run[r] = At("up", "check", v) /\ v \in recorded
                           /\ call = At("up", "check", v + 1)
     \/ \E v \in Version : /\ run[r] = At("up", "check", v) /\ v \notin recorded
                           /\ call = At("up", "execute", v)
     \/ \E v \in Version : /\ recorded \subseteq 1 .. v
                           /\ call = At("down", "execute", v)

UpExecutes(r, v, call) ==
  /\ run[r] = At("up", "execute", v)
  /\ objects' = Applied(v) /\ UNCHANGED recorded
  /\ call \in {Idle, At("up", "record", v)}

Records(r, v, call) ==
  /\ run[r] = At("up", "record", v)
  /\ recorded' = recorded \cup {v} /\ UNCHANGED objects
  /\ call \in {Idle, At("up", "check", v + 1)}

DownExecutes(r, v, call) ==
  /\ DownExecute(r)
  /\ run[r] = At("down", "execute", v)
  /\ objects' = objects \ Drops[v] /\ UNCHANGED recorded
  /\ call \in {Idle, At("down", "remove", v)}
  /\ call = Idle => objects' # objects

Removes(r, v, call) ==
  /\ run[r] = At("down", "remove", v)
  /\ recorded' = recorded \ {v} /\ UNCHANGED objects
  /\ call = Idle

Effect(r, call) ==
  \/ QuietTo(r, call)
  \/ \E v \in Version : \/ UpExecutes(r, v, call) \/ Records(r, v, call)
                        \/ DownExecutes(r, v, call) \/ Removes(r, v, call)

\* Every action is one of these, for the process it is of.
LEMMA StepEffect ==
  ASSUME TypeOK, NEW r \in Runner,
         \/ UpBegins(r) \/ DownBegins(r) \/ Stop(r) \/ UpStep(r) \/ DownStep(r)
  PROVE  \E call : Moves(r, call) /\ Effect(r, call)
<1>. DEFINE v == run[r].version
<1>1. run[r] \in Call /\ run[r] = At(run[r].op, run[r].at, v)
  BY CallShape DEF TypeOK
<1>2. Idle \in Call /\ Idle.at = "none"
  BY CallTypes DEF Idle, At
<1>3. CASE UpBegins(r)
  <2>1. run[r].at # "remove"
    BY <1>2, <1>3 DEF UpBegins, Begins
  <2>. QED  BY <1>3, <2>1, CallTypes DEF UpBegins, Begins, Goes, Moves, Effect, QuietTo
<1>4. CASE DownBegins(r)
  <2>1. run[r].at # "remove"
    BY <1>2, <1>4 DEF DownBegins, Begins
  <2>. QED  BY <1>4, <2>1, CallTypes DEF DownBegins, Begins, Goes, Moves, Effect, QuietTo
<1>5. CASE Stop(r)
  BY <1>2, <1>5 DEF Stop, Fails, Moves, Effect, QuietTo
<1>6. CASE CreateMigrationTable(r)
  <2>1. 1 \in 1 .. Last + 1 /\ run[r].at # "remove"
    BY <1>6, FilesAssumption DEF FilesAssumption, CreateMigrationTable, Is
  <2>2. UNCHANGED <<recorded, objects>>
    BY <1>6 DEF CreateMigrationTable
  <2>3. run' = [run EXCEPT ![r] = At("up", "check", 1)] \/ run' = [run EXCEPT ![r] = Idle]
    BY <1>6 DEF CreateMigrationTable, Goes, Fails
  <2>. QED  BY <1>2, <2>1, <2>2, <2>3, CallTypes DEF Moves, Effect, QuietTo
<1>7. CASE IsApplied(r)
  <2>1. v \in Version /\ v + 1 \in 1 .. Last + 1 /\ run[r].at # "remove"
    BY <1>7, FilesAssumption DEF FilesAssumption, IsApplied, Is, Version
  <2>2. UNCHANGED <<recorded, objects>> /\ run[r] = At("up", "check", v)
    BY <1>1, <1>7 DEF IsApplied, Is
  <2>3. \/ run' = [run EXCEPT ![r] = AfterCheck(v)]
        \/ run' = [run EXCEPT ![r] = Idle]
    BY <1>7 DEF IsApplied, Goes, Fails
  <2>4. CASE run' = [run EXCEPT ![r] = Idle]
    BY <1>2, <2>1, <2>2, <2>4 DEF Moves, Effect, QuietTo
  <2>5. CASE run' = [run EXCEPT ![r] = AfterCheck(v)] /\ v \in recorded
    <3>1. Moves(r, At("up", "check", v + 1))
      BY <2>1, <2>5, CallTypes DEF Moves, AfterCheck
    <3>. QED  BY <2>1, <2>2, <2>5, <3>1 DEF Effect, QuietTo
  <2>6. CASE run' = [run EXCEPT ![r] = AfterCheck(v)] /\ v \notin recorded
    <3>1. Moves(r, At("up", "execute", v))
      BY <2>1, <2>6, CallTypes DEF Moves, AfterCheck
    <3>. QED  BY <2>1, <2>2, <2>6, <3>1 DEF Effect, QuietTo
  <2>. QED  BY <2>3, <2>4, <2>5, <2>6
<1>8. CASE UpExecute(r)
  <2>1. v \in Version /\ run[r] = At("up", "execute", v) /\ run[r].at # "remove"
    BY <1>1, <1>8, CallShape DEF UpExecute, Is
  <2>2. UNCHANGED recorded
    BY <1>8 DEF UpExecute
  <2>3. \/ UNCHANGED objects /\ run' = [run EXCEPT ![r] = Idle]
        \/ /\ objects' = Applied(v)
           /\ run' = [run EXCEPT ![r] = Idle] \/ run' = [run EXCEPT ![r] = At("up", "record", v)]
    BY <1>8 DEF UpExecute, Returns, Goes, Fails
  <2>. QED  BY <1>2, <2>1, <2>2, <2>3, CallTypes DEF Moves, Effect, QuietTo, UpExecutes
<1>9. CASE RecordApplied(r)
  <2>1. v \in Version /\ v + 1 \in 1 .. Last + 1 /\ run[r] = At("up", "record", v)
    BY <1>1, <1>9, CallShape, FilesAssumption DEF FilesAssumption, RecordApplied, Is, Version
  <2>2. UNCHANGED objects /\ run[r].at # "remove"
    BY <1>9 DEF RecordApplied, Is
  <2>3. \/ UNCHANGED recorded /\ run' = [run EXCEPT ![r] = Idle]
        \/ /\ recorded' = recorded \cup {v}
           /\ \/ run' = [run EXCEPT ![r] = Idle]
              \/ run' = [run EXCEPT ![r] = At("up", "check", v + 1)]
    BY <1>9 DEF RecordApplied, Returns, Goes, Fails
  <2>. QED  BY <1>2, <2>1, <2>2, <2>3, CallTypes DEF Moves, Effect, QuietTo, Records
<1>10. CASE UpReturns(r)
  BY <1>2, <1>10 DEF UpReturns, Returns, Goes, Moves, Effect, QuietTo, Is
<1>11. CASE GetAppliedVersions(r)
  <2>1. UNCHANGED <<recorded, objects>> /\ run[r].at # "remove"
    BY <1>11 DEF GetAppliedVersions, Is
  <2>2. \/ run' = [run EXCEPT ![r] = Idle]
        \/ recorded # {} /\ run' = [run EXCEPT ![r] = At("down", "execute", LastVersion)]
    BY <1>11 DEF GetAppliedVersions, Returns, Goes, Fails
  <2>3. recorded # {} => LastVersion \in Version /\ recorded \subseteq 1 .. LastVersion
    BY LastVersionIsLast DEF TypeOK
  <2>. QED  BY <1>2, <2>1, <2>2, <2>3, CallTypes DEF Moves, Effect, QuietTo
<1>12. CASE DownExecute(r)
  <2>1. v \in Version /\ run[r] = At("down", "execute", v) /\ run[r].at # "remove"
    BY <1>1, <1>12, CallShape DEF DownExecute, Is
  <2>2. UNCHANGED recorded
    BY <1>12 DEF DownExecute
  <2>3. \/ UNCHANGED objects /\ run' = [run EXCEPT ![r] = Idle]
        \/ /\ objects' = objects \ Drops[v]
           /\ \/ run' = [run EXCEPT ![r] = Idle] /\ objects' # objects
              \/ run' = [run EXCEPT ![r] = At("down", "remove", v)]
    BY <1>12 DEF DownExecute, Goes, Fails
  <2>4. CASE UNCHANGED objects /\ run' = [run EXCEPT ![r] = Idle]
    BY <1>2, <2>1, <2>2, <2>4 DEF Moves, Effect, QuietTo
  <2>5. ASSUME NEW call \in {Idle, At("down", "remove", v)},
               call = Idle => objects' # objects,
               objects' = objects \ Drops[v], run' = [run EXCEPT ![r] = call]
        PROVE  Moves(r, call) /\ Effect(r, call)
    <3>1. DownExecutes(r, v, call)
      BY <1>12, <2>1, <2>2, <2>5 DEF DownExecutes
    <3>2. Moves(r, call)
      BY <2>1, <2>5, CallTypes DEF Moves
    <3>3. Effect(r, call)
      BY <2>1, <3>1 DEF Effect
    <3>. QED  BY <3>2, <3>3
  <2>. QED  BY <2>3, <2>4, <2>5
<1>13. CASE RemoveApplied(r)
  <2>1. v \in Version /\ run[r] = At("down", "remove", v)
    BY <1>1, <1>13, CallShape DEF RemoveApplied, Is
  <2>2. UNCHANGED objects /\ run' = [run EXCEPT ![r] = Idle]
    BY <1>13 DEF RemoveApplied, Returns, Goes, Fails
  <2>3. recorded' = recorded \/ recorded' = recorded \ {v}
    BY <1>13 DEF RemoveApplied
  <2>. QED  BY <1>2, <2>1, <2>2, <2>3 DEF Moves, Effect, QuietTo, Removes
<1>. QED  BY <1>3, <1>4, <1>5, <1>6, <1>7, <1>8, <1>9, <1>10, <1>11, <1>12, <1>13
          DEF UpStep, DownStep

LEMMA TypeKept == TypeOK /\ [MCNext]_mcVars => TypeOK'
<1>. SUFFICES ASSUME TypeOK, [MCNext]_mcVars  PROVE TypeOK'
  OBVIOUS
<1>1. CASE UNCHANGED mcVars
  BY <1>1 DEF mcVars, vars, TypeOK
<1>2. ASSUME NEW r \in Runner,
             \/ UpBegins(r) \/ DownBegins(r) \/ Stop(r) \/ UpStep(r) \/ DownStep(r)
      PROVE  TypeOK'
  <2>1. PICK call : Moves(r, call) /\ Effect(r, call)
    BY <1>2, StepEffect
  <2>2. tracked' \in BOOLEAN /\ faults' \in 0 .. MaxFaults
    <3>1. tracked' \in {tracked, TRUE}
      BY <1>2 DEF UpBegins, DownBegins, Stop, UpStep, DownStep, CreateMigrationTable,
         IsApplied, UpExecute, RecordApplied, UpReturns, GetAppliedVersions, DownExecute,
         RemoveApplied
    <3>2. faults' = faults \/ (faults < MaxFaults /\ faults' = faults + 1)
      BY <1>2 DEF UpBegins, DownBegins, Stop, UpStep, DownStep, CreateMigrationTable,
         IsApplied, UpExecute, RecordApplied, UpReturns, GetAppliedVersions, DownExecute,
         RemoveApplied, Begins, Returns, Goes, Fails
    <3>3. tracked' \in BOOLEAN
      BY <3>1 DEF TypeOK
    <3>4. faults' \in 0 .. MaxFaults
      BY <3>2, MaxFaultsAssumption DEF TypeOK
    <3>. QED  BY <3>3, <3>4
  <2>3. run' \in [Runner -> Call]
    BY <2>1 DEF Moves, TypeOK
  <2>4. recorded' \subseteq Version
    BY <2>1 DEF Effect, QuietTo, UpExecutes, Records, DownExecutes, Removes, TypeOK
  <2>5. objects' \subseteq Object
    BY <2>1, AppliedMakes DEF Effect, QuietTo, UpExecutes, Records, DownExecutes, Removes, TypeOK
  <2>. QED  BY <2>2, <2>3, <2>4, <2>5 DEF TypeOK
<1>. QED  BY <1>1, <1>2 DEF MCNext, Next

-----------------------------------------------------------------------------
(* A step of r that crosses nothing.                                         *)

SafeStep(r, call) ==
  /\ TypeOK /\ Safe /\ Apart'
  /\ Moves(r, call) /\ Effect(r, call)
  /\ halfDown' = (halfDown \cup CutShort) \cap recorded'
  /\ severed' = {s \in severed \cup CutOff : s.name \in objects'}

LEMMA Frame ==
  ASSUME NEW r \in Runner, NEW call, SafeStep(r, call)
  PROVE  /\ run'[r] = call /\ call \in Call
         /\ \A q \in Runner : q # r => run'[q] = run[q]
         /\ \A q \in Runner : run[q] \in Call /\ run'[q] \in Call
BY DEF SafeStep, Moves, TypeOK

\* The Down that a step of r cuts short is that of r.
CutsShort(r, call) ==
  /\ run[r].op = "down" /\ call = Idle
  /\ run[r].at = "remove" \/ objects' # objects

LEMMA HalfDownMoves ==
  ASSUME NEW r \in Runner, NEW call, SafeStep(r, call)
  PROVE  \A v : v \in halfDown' <=>
           /\ v \in recorded'
           /\ v \in halfDown \/ (CutsShort(r, call) /\ v = run[r].version)
<1>1. \A q \in Runner : run[q].op = "down" => run[q] # Idle
  BY Frame, CallShape
<1>2. \A v : v \in CutShort <=> (CutsShort(r, call) /\ v = run[r].version)
  BY <1>1, Frame DEF CutShort, CutsShort, Doing
<1>. QED  BY <1>2 DEF SafeStep

\* While an Up is under way no Down is, and the other way round.
LEMMA AloneUp ==
  ASSUME NEW r \in Runner, Apart, run[r].op = "up"
  PROVE  BeingRemoved = {} /\ \A q \in Runner : run[q].op # "down"
BY DEF Apart, Doing, BeingRemoved, Is

LEMMA AloneDown ==
  ASSUME NEW r \in Runner, Apart, run[r].op = "down"
  PROVE  \A q \in Runner : run[q].op # "up"
BY DEF Apart, Doing

\* Which kind of step it is.
LEMMA StepCases ==
  ASSUME NEW r \in Runner, NEW call, SafeStep(r, call)
  PROVE  \/ QuietTo(r, call)
         \/ \E v \in Version : \/ UpExecutes(r, v, call) \/ Records(r, v, call)
                               \/ DownExecutes(r, v, call) \/ Removes(r, v, call)
BY DEF SafeStep, Effect

LEMMA InOrderKept ==
  ASSUME NEW r \in Runner, NEW call, SafeStep(r, call)
  PROVE  InOrder'
<1>. USE DEF SafeStep, Safe
<1>1. CASE UNCHANGED recorded
  BY <1>1 DEF InOrder
<1>2. ASSUME NEW v \in Version, Records(r, v, call)  PROVE InOrder'
  <2>1. 1 .. v - 1 \subseteq recorded
    BY <1>2, AtParts DEF Records, UpPlaces
  <2>2. \A i \in 1 .. v : i = v \/ i \in 1 .. v - 1
    BY FilesAssumption DEF FilesAssumption, Version
  <2>. QED  BY <1>2, <2>1, <2>2 DEF Records, InOrder
<1>3. ASSUME NEW v \in Version, Removes(r, v, call)  PROVE InOrder'
  <2>1. recorded \subseteq 1 .. v
    BY <1>3, AtParts DEF Removes, DownPlaces
  <2>2. \A w \in recorded' : v \notin 1 .. w
    BY <1>3, <2>1, FilesAssumption DEF Removes, FilesAssumption, Version
  <2>. QED  BY <1>3, <2>2 DEF Removes, InOrder
<1>. QED  BY <1>1, <1>2, <1>3, StepCases DEF QuietTo, UpExecutes, DownExecutes

LEMMA VersionsKept ==
  ASSUME NEW r \in Runner, NEW call, SafeStep(r, call)
  PROVE  recorded' \subseteq Version /\ halfDown' \subseteq recorded'
<1>1. recorded' \subseteq Version
  BY StepCases DEF SafeStep, TypeOK, QuietTo, UpExecutes, Records, DownExecutes, Removes
<1>. QED  BY <1>1, HalfDownMoves

LEMMA HalfDownGoneKept ==
  ASSUME NEW r \in Runner, NEW call, SafeStep(r, call)
  PROVE  HalfDownGone'
<1>. SUFFICES ASSUME NEW v \in halfDown'  PROVE v \in recorded' /\ Names(v) \cap objects' = {}
  BY DEF HalfDownGone
<1>. USE DEF SafeStep, Safe
<1>1. v \in recorded' /\ v \in Version
  BY VersionsKept
<1>2. CASE v \in halfDown
  <2>1. Names(v) \cap objects = {}
    BY <1>2 DEF HalfDownGone
  <2>2. CASE objects' \subseteq objects
    BY <1>1, <2>1, <2>2
  <2>3. ASSUME NEW u \in Version, UpExecutes(r, u, call)  PROVE Names(v) \cap objects' = {}
    <3>1. u # v
      BY <1>2, <2>3, AtParts DEF UpExecutes, UpPlaces
    <3>2. Names(v) \cap Makes(u) = {}
      BY <1>1, <3>1, FilesApart, NamesMade
    <3>. QED  BY <2>1, <2>3, <3>2, AppliedMakes DEF UpExecutes
  <2>. QED  BY <1>1, <2>2, <2>3, StepCases DEF QuietTo, Records, DownExecutes, Removes
<1>3. CASE CutsShort(r, call) /\ v = run[r].version
  <2>1. CASE QuietTo(r, call)
    <3>1. Makes(v) \cap objects = {}
      BY <1>3, <2>1 DEF CutsShort, QuietTo, DownPlaces
    <3>. QED  BY <1>1, <2>1, <3>1, NamesMade DEF QuietTo
  <2>2. ASSUME NEW u \in Version, DownExecutes(r, u, call)  PROVE Names(v) \cap objects' = {}
    <3>1. u = v
      BY <1>3, <2>2, AtParts DEF DownExecutes
    <3>2. Names(v) \subseteq Drops[v]
      BY <1>1, NamesMade, FilesAssumption DEF FilesAssumption
    <3>. QED  BY <2>2, <3>1, <3>2 DEF DownExecutes
  <2>3. ASSUME NEW u \in Version, Removes(r, u, call)  PROVE FALSE
    BY <1>1, <1>3, <2>3, AtParts DEF Removes
  <2>4. ASSUME NEW u \in Version, UpExecutes(r, u, call) \/ Records(r, u, call)  PROVE FALSE
    BY <1>3, <2>4, AtParts DEF UpExecutes, Records, CutsShort
  <2>. QED  BY <1>1, <2>1, <2>2, <2>3, <2>4, StepCases
<1>. QED  BY <1>2, <1>3, HalfDownMoves

LEMMA UpPlacesKept ==
  ASSUME NEW r \in Runner, NEW call, SafeStep(r, call)
  PROVE  UpPlaces'
<1>. SUFFICES ASSUME NEW q \in Runner, run'[q].op = "up"
              PROVE  /\ run'[q].at \in {"check", "execute", "record"} =>
                          1 .. run'[q].version - 1 \subseteq recorded'
                     /\ run'[q].at = "execute" => run'[q].version \notin halfDown'
                     /\ run'[q].at = "record" => Names(run'[q].version) \subseteq objects'
  BY DEF UpPlaces
<1>. USE DEF SafeStep, Safe
<1>1. CASE q # r
  <2>1. run'[q] = run[q] /\ run[q].op = "up"
    BY <1>1, Frame
  <2>2. run[r].op # "down"
    BY <2>1, AloneUp
  <2>3. halfDown' \subseteq halfDown
    BY <2>2, HalfDownMoves DEF CutsShort
  <2>4. recorded \subseteq recorded' /\ objects \subseteq objects'
    BY <2>2, StepCases, AppliedMakes, AtParts
       DEF QuietTo, UpExecutes, Records, DownExecutes, Removes
  <2>. QED  BY <2>1, <2>3, <2>4 DEF UpPlaces
<1>2. CASE q = r
  <2>1. run'[q] = call
    BY <1>2, Frame
  <2>2. CASE QuietTo(r, call)
    <3>1. CASE call \in {Idle, At("up", "create", 0), At("down", "list", 0), At("up", "check", 1)}
      BY <2>1, <3>1, AtParts DEF Idle
    <3>2. ASSUME NEW v \in Version, run[r] = At("up", "check", v), v \in recorded,
                 call = At("up", "check", v + 1)
          PROVE  1 .. run'[q].version - 1 \subseteq recorded'
      <4>1. 1 .. v - 1 \subseteq recorded
        BY <3>2, AtParts DEF UpPlaces
      <4>2. \A i \in 1 .. v : i = v \/ i \in 1 .. v - 1
        BY FilesAssumption DEF FilesAssumption, Version
      <4>3. run'[q].version - 1 = v
        BY <2>1, <3>2, AtParts, FilesAssumption DEF FilesAssumption, Version
      <4>. QED  BY <2>2, <3>2, <4>1, <4>2, <4>3 DEF QuietTo
    <3>3. ASSUME NEW v \in Version, run[r] = At("up", "check", v), v \notin recorded,
                 call = At("up", "execute", v)
          PROVE  /\ 1 .. run'[q].version - 1 \subseteq recorded'
                 /\ run'[q].version \notin halfDown'
      <4>1. 1 .. v - 1 \subseteq recorded
        BY <3>3, AtParts DEF UpPlaces
      <4>. QED  BY <2>1, <2>2, <3>3, <4>1, AtParts, VersionsKept DEF QuietTo
    <3>. QED  BY <2>1, <2>2, <3>1, <3>2, <3>3, AtParts DEF QuietTo
  <2>3. ASSUME NEW v \in Version, UpExecutes(r, v, call)
        PROVE  /\ run'[q].at = "record"
               /\ 1 .. run'[q].version - 1 \subseteq recorded'
               /\ Names(run'[q].version) \subseteq objects'
    <3>1. call = At("up", "record", v)
      BY <2>1, <2>3, AtParts DEF UpExecutes, Idle
    <3>2. 1 .. v - 1 \subseteq recorded
      BY <2>3, AtParts DEF UpExecutes, UpPlaces
    <3>. QED  BY <2>1, <2>3, <3>1, <3>2, AtParts, AppliedMakes DEF UpExecutes
  <2>4. ASSUME NEW v \in Version, Records(r, v, call)
        PROVE  run'[q].at = "check" /\ 1 .. run'[q].version - 1 \subseteq recorded'
    <3>1. call = At("up", "check", v + 1)
      BY <2>1, <2>4, AtParts DEF Records, Idle
    <3>2. 1 .. v - 1 \subseteq recorded
      BY <2>4, AtParts DEF Records, UpPlaces
    <3>3. \A i \in 1 .. v : i = v \/ i \in 1 .. v - 1
      BY FilesAssumption DEF FilesAssumption, Version
    <3>4. run'[q].version - 1 = v /\ run'[q].at = "check"
      BY <2>1, <3>1, AtParts, FilesAssumption DEF FilesAssumption, Version
    <3>. QED  BY <2>4, <3>2, <3>3, <3>4 DEF Records
  <2>5. ASSUME NEW v \in Version, DownExecutes(r, v, call) \/ Removes(r, v, call)
        PROVE  FALSE
    BY <2>1, <2>5, AtParts DEF DownExecutes, Removes, Idle
  <2>. QED  BY <2>2, <2>3, <2>4, <2>5, StepCases
<1>. QED  BY <1>1, <1>2

LEMMA DownPlacesKept ==
  ASSUME NEW r \in Runner, NEW call, SafeStep(r, call)
  PROVE  DownPlaces'
<1>. SUFFICES ASSUME NEW q \in Runner, run'[q].op = "down"
              PROVE  /\ run'[q].at \in {"execute", "remove"} =>
                          recorded' \subseteq 1 .. run'[q].version
                     /\ run'[q].at = "remove" => Makes(run'[q].version) \cap objects' = {}
  BY DEF DownPlaces
<1>. USE DEF SafeStep, Safe
<1>1. CASE q # r
  <2>1. run'[q] = run[q] /\ run[q].op = "down"
    BY <1>1, Frame
  <2>2. run[r].op # "up"
    BY <2>1, AloneDown
  <2>3. recorded' \subseteq recorded /\ objects' \subseteq objects
    BY <2>2, StepCases, AtParts DEF QuietTo, UpExecutes, Records, DownExecutes, Removes
  <2>. QED  BY <2>1, <2>3 DEF DownPlaces
<1>2. CASE q = r
  <2>1. run'[q] = call
    BY <1>2, Frame
  <2>2. CASE QuietTo(r, call)
    BY <2>1, <2>2, AtParts DEF QuietTo, Idle
  <2>3. ASSUME NEW v \in Version, DownExecutes(r, v, call)
        PROVE  /\ recorded' \subseteq 1 .. run'[q].version
               /\ Makes(run'[q].version) \cap objects' = {}
    <3>1. run'[q].version = v
      BY <2>1, <2>3, AtParts DEF DownExecutes, Idle
    <3>2. recorded \subseteq 1 .. v
      BY <2>3, AtParts DEF DownExecutes, DownPlaces
    <3>3. Makes(v) \subseteq Drops[v]
      BY FilesAssumption DEF FilesAssumption
    <3>. QED  BY <2>3, <3>1, <3>2, <3>3 DEF DownExecutes
  <2>4. ASSUME NEW v \in Version,
               UpExecutes(r, v, call) \/ Records(r, v, call) \/ Removes(r, v, call)
        PROVE  FALSE
    BY <2>1, <2>4, AtParts DEF UpExecutes, Records, Removes, Idle
  <2>. QED  BY <2>2, <2>3, <2>4, StepCases
<1>. QED  BY <1>1, <1>2

LEMMA AreThereKept ==
  ASSUME NEW r \in Runner, NEW call, SafeStep(r, call)
  PROVE  AreThere'
<1>. SUFFICES ASSUME NEW v \in recorded', v \notin halfDown', v \notin BeingRemoved'
              PROVE  Names(v) \subseteq objects'
  BY DEF AreThere
<1>. USE DEF SafeStep, Safe
<1>1. v \in Version /\ v \notin halfDown
  BY VersionsKept, HalfDownMoves
<1>2. ~ (CutsShort(r, call) /\ v = run[r].version)
  BY HalfDownMoves
<1>3. v \in BeingRemoved => run[r].op = "down" /\ run[r].at = "remove" /\ run[r].version = v
  <2>. SUFFICES ASSUME NEW q \in Runner, Is(q, "down", "remove"), v = run[q].version, q # r
                PROVE  FALSE
    BY DEF BeingRemoved, Is
  <2>1. run'[q] = run[q]
    BY Frame
  <2>. QED  BY <2>1 DEF BeingRemoved, Is
<1>4. CASE QuietTo(r, call)
  <2>1. v \notin BeingRemoved
    BY <1>2, <1>3, <1>4 DEF QuietTo, CutsShort
  <2>. QED  BY <1>1, <1>4, <2>1 DEF QuietTo, AreThere
<1>5. ASSUME NEW u \in Version, UpExecutes(r, u, call)  PROVE Names(v) \subseteq objects'
  <2>1. v \notin BeingRemoved /\ v \in recorded
    BY <1>3, <1>5, AtParts DEF UpExecutes
  <2>. QED  BY <1>1, <1>5, <2>1, AppliedMakes DEF UpExecutes, AreThere
<1>6. ASSUME NEW u \in Version, Records(r, u, call)  PROVE Names(v) \subseteq objects'
  <2>1. v \notin BeingRemoved
    BY <1>3, <1>6, AtParts DEF Records
  <2>2. Names(u) \subseteq objects
    BY <1>6, AtParts DEF Records, UpPlaces
  <2>. QED  BY <1>1, <1>6, <2>1, <2>2 DEF Records, AreThere
<1>7. ASSUME NEW u \in Version, DownExecutes(r, u, call)  PROVE Names(v) \subseteq objects'
  <2>1. recorded \subseteq 1 .. u /\ v \in recorded
    BY <1>7, AtParts DEF DownExecutes, DownPlaces
  <2>2. v # u
    <3>1. CASE call = Idle
      BY <1>2, <1>7, <3>1, AtParts DEF DownExecutes, CutsShort
    <3>2. CASE call = At("down", "remove", u)
      <4>1. u \in BeingRemoved'
        BY <3>2, Frame, AtParts DEF BeingRemoved, Is
      <4>. QED  BY <4>1
    <3>. QED  BY <1>7, <3>1, <3>2 DEF DownExecutes
  <2>3. v \in 1 .. u - 1
    BY <1>1, <2>1, <2>2, FilesAssumption DEF FilesAssumption, Version
  <2>4. Names(v) \cap Drops[u] = {}
    BY <1>1, <2>3, NamesMade, FilesAssumption DEF FilesAssumption
  <2>5. v \notin BeingRemoved
    BY <1>3, <1>7, AtParts DEF DownExecutes
  <2>. QED  BY <1>1, <1>7, <2>1, <2>4, <2>5 DEF DownExecutes, AreThere
<1>8. ASSUME NEW u \in Version, Removes(r, u, call)  PROVE Names(v) \subseteq objects'
  <2>1. v \in recorded /\ v \notin BeingRemoved
    BY <1>3, <1>8, AtParts DEF Removes
  <2>. QED  BY <1>1, <1>8, <2>1 DEF Removes, AreThere
<1>. QED  BY <1>4, <1>5, <1>6, <1>7, <1>8, StepCases

\* Two statements make nothing in common.
LEMMA StatementsApart ==
  ASSUME NEW v \in Version, NEW w \in Version, NEW s \in UpFile[v], NEW t \in UpFile[w], s # t
  PROVE  s.makes \cap t.makes = {}
<1>1. CASE v = w
  BY <1>1, FilesAssumption DEF FilesAssumption
<1>2. CASE v # w
  BY <1>2, FilesApart, NamesMade
<1>. QED  BY <1>1, <1>2

LEMMA HaveKeysKept ==
  ASSUME NEW r \in Runner, NEW call, SafeStep(r, call)
  PROVE  HaveKeys'
<1>. SUFFICES ASSUME NEW w \in Version, NEW s \in UpFile[w], s.name \in objects'
              PROVE  s.makes \subseteq objects' <=> s \notin severed'
  BY DEF HaveKeys, SafeStep
<1>. USE DEF SafeStep, Safe
<1>1. s.name \in Makes(w) /\ s.name \in s.makes /\ s.makes \subseteq Makes(w)
  BY NamesMade, FilesAssumption DEF FilesAssumption
<1>2. s \in severed' <=> s \in severed \/ s \in CutOff
  OBVIOUS
<1>3. s \in severed => s.name \in objects
  BY DEF HaveKeys
<1>4. s.name \in objects => (s.makes \subseteq objects <=> s \notin severed)
  BY DEF HaveKeys
<1>5. s.makes \cap objects \subseteq objects' => s \notin CutOff
  BY DEF CutOff
<1>6. CASE UNCHANGED objects
  BY <1>2, <1>4, <1>5, <1>6
<1>7. ASSUME NEW v \in Version, UpExecutes(r, v, call)
      PROVE  s.makes \subseteq objects' <=> s \notin severed'
  <2>1. s \notin CutOff /\ objects' = Applied(v)
    BY <1>5, <1>7, AppliedMakes DEF UpExecutes
  <2>2. CASE s.name \in objects
    <3>1. ASSUME NEW o \in s.makes, o \in objects', o \notin objects
          PROVE  FALSE
      <4>1. PICK t \in UpFile[v] : t.name \notin objects /\ o \in t.makes
        BY <2>1, <3>1 DEF Applied
      <4>2. t # s
        BY <2>2, <4>1
      <4>. QED  BY <3>1, <4>1, <4>2, StatementsApart
    <3>2. s.makes \subseteq objects' <=> s.makes \subseteq objects
      BY <2>1, <3>1, AppliedMakes
    <3>. QED  BY <1>2, <1>4, <2>1, <2>2, <3>2
  <2>3. CASE s.name \notin objects
    <3>1. s.name \in Makes(v)
      BY <2>1, <2>3, AppliedMakes
    <3>2. v = w
      BY <1>1, <3>1, FilesApart
    <3>3. s.makes \subseteq objects'
      BY <2>1, <2>3, <3>2, AppliedMakes
    <3>. QED  BY <1>2, <1>3, <2>1, <2>3, <3>3
  <2>. QED  BY <2>2, <2>3
<1>8. ASSUME NEW v \in Version, DownExecutes(r, v, call)
      PROVE  s.makes \subseteq objects' <=> s \notin severed'
  <2>1. s.name \in objects /\ s.name \notin Drops[v] /\ objects' \subseteq objects
    BY <1>8 DEF DownExecutes
  <2>2. CASE s.makes \cap objects \subseteq objects'
    BY <1>2, <1>4, <1>5, <2>1, <2>2
  <2>3. CASE ~(s.makes \cap objects \subseteq objects')
    <3>1. w # v
      BY <1>1, <2>1, FilesAssumption DEF FilesAssumption
    <3>2. w \notin 1 .. v - 1
      <4>. SUFFICES ASSUME w \in 1 .. v - 1  PROVE FALSE
        OBVIOUS
      <4>1. Makes(w) \cap Drops[v] = {}
        BY FilesAssumption DEF FilesAssumption
      <4>. QED  BY <1>1, <1>8, <2>3, <4>1 DEF DownExecutes
    <3>3. recorded \subseteq 1 .. v
      BY <1>8, AtParts DEF DownExecutes, DownPlaces
    <3>4. w \notin recorded
      BY <3>1, <3>2, <3>3, FilesAssumption DEF FilesAssumption, Version
    <3>5. s \in CutOff
      BY <2>3, <3>4 DEF CutOff
    <3>. QED  BY <1>2, <2>3, <3>5
  <2>. QED  BY <2>2, <2>3
<1>. QED  BY <1>6, <1>7, <1>8, StepCases DEF QuietTo, Records, Removes

-----------------------------------------------------------------------------
LEMMA InitSafe == MCInit => IInv
<1>. SUFFICES ASSUME MCInit  PROVE IInv
  OBVIOUS
<1>. USE DEF MCInit, Init
<1>1. TypeOK
  <2>1. run \in [Runner -> Call]
    BY CallTypes
  <2>2. faults \in 0 .. MaxFaults
    BY MaxFaultsAssumption
  <2>. QED  BY <2>1, <2>2 DEF TypeOK
<1>2. \A r \in Runner : run[r].op = "none"
  BY DEF Idle, At
<1>3. Apart /\ UpPlaces /\ DownPlaces
  BY <1>2 DEF Apart, Doing, UpPlaces, DownPlaces
<1>4. HalfDownGone /\ InOrder /\ AreThere /\ HaveKeys
  BY DEF HalfDownGone, InOrder, AreThere, HaveKeys
<1>. QED  BY <1>1, <1>3, <1>4 DEF IInv, Safe

\* A step that leaves the calls apart is a SafeStep of some process.
LEMMA ApartStep ==
  ASSUME IInv, MCNext, ~crossed'
  PROVE  \E r \in Runner : \E call : SafeStep(r, call)
<1>1. ~crossed /\ Apart'
  BY DEF MCNext, Apart
<1>2. TypeOK /\ Safe
  BY <1>1 DEF IInv
<1>3. PICK r \in Runner :
        UpBegins(r) \/ DownBegins(r) \/ Stop(r) \/ UpStep(r) \/ DownStep(r)
  BY DEF MCNext, Next
<1>4. PICK call : Moves(r, call) /\ Effect(r, call)
  BY <1>2, <1>3, StepEffect
<1>5. /\ halfDown' = (halfDown \cup CutShort) \cap recorded'
      /\ severed' = {s \in severed \cup CutOff : s.name \in objects'}
  BY DEF MCNext
<1>. QED  BY <1>1, <1>2, <1>4, <1>5 DEF SafeStep

LEMMA InvKept == IInv /\ [MCNext]_mcVars => IInv'
<1>. SUFFICES ASSUME IInv, [MCNext]_mcVars  PROVE IInv'
  OBVIOUS
<1>1. TypeOK'
  BY TypeKept DEF IInv
<1>2. CASE UNCHANGED mcVars
  BY <1>1, <1>2 DEF mcVars, vars, IInv, Safe, Apart, Doing, UpPlaces, DownPlaces,
     HalfDownGone, InOrder, AreThere, BeingRemoved, Is, HaveKeys
<1>3. CASE MCNext /\ ~crossed'
  <2>1. PICK r \in Runner : \E call : SafeStep(r, call)
    BY <1>3, ApartStep
  <2>2. PICK call : SafeStep(r, call)
    BY <2>1
  <2>3. Apart'
    BY <2>2 DEF SafeStep
  <2>. QED  BY <1>1, <2>2, <2>3, UpPlacesKept, DownPlacesKept, HalfDownGoneKept, InOrderKept,
               AreThereKept, HaveKeysKept DEF IInv, Safe
<1>4. CASE crossed'
  BY <1>1, <1>4 DEF IInv
<1>. QED  BY <1>2, <1>3, <1>4

THEOREM AlwaysSafe == MCSpec => []IInv
BY InitSafe, InvKept, PTL DEF MCSpec

\* The tables of the database and the places of the calls keep their types.
THEOREM MigrationsTypeCorrect == MCSpec => []TypeOK
<1>1. IInv => TypeOK
  BY DEF IInv
<1>. QED  BY <1>1, AlwaysSafe, PTL

\* While no Up has run beside a Down, schema_migrations holds the first
\* versions without a gap, wherever the processes were stopped.
THEOREM RecordsInOrder == MCSpec => []RecordedInOrder
<1>1. IInv => RecordedInOrder
  BY DEF IInv, Safe, InOrder, RecordedInOrder
<1>. QED  BY <1>1, AlwaysSafe, PTL

\* What is recorded is there, but for the versions a Down has left half done.
THEOREM RecordsTellTheTruth == MCSpec => []RecordedAreThere
<1>1. IInv => RecordedAreThere
  BY DEF IInv, Safe, AreThere, RecordedAreThere
<1>. QED  BY <1>1, AlwaysSafe, PTL

\* A table is without its foreign key if and only if a Down has taken it from
\* the table while the version stood unrecorded, and as long as it stands.
THEOREM KeysAreKept == MCSpec => []TablesHaveTheirKeys
<1>1. IInv => TablesHaveTheirKeys
  BY DEF IInv, Safe, HaveKeys, TablesHaveTheirKeys
<1>. QED  BY <1>1, AlwaysSafe, PTL

\* Only a version recorded and gone makes the server refuse a later one.
THEOREM UpPassesOtherwise == MCSpec => []RefusedOnlyOverHalfDown
<1>1. ASSUME IInv, NEW r \in Runner, Is(r, "up", "execute"), Refused(run[r].version), ~crossed
      PROVE  \E v \in halfDown : v < run[r].version
  <2>. DEFINE v == run[r].version
  <2>1. v \in Version /\ Safe /\ run[r].op = "up" /\ run[r].at = "execute"
    BY <1>1, CallShape DEF IInv, TypeOK, Is
  <2>2. PICK s \in UpFile[v] : ~(s.needs \subseteq objects \cup Names(v))
    BY <1>1 DEF Refused
  <2>3. s.needs \subseteq UNION {Names(w) : w \in 1 .. v}
    BY <2>1, FilesAssumption DEF FilesAssumption
  <2>4. PICK w \in 1 .. v : \E n \in Names(w) : n \notin objects /\ n \notin Names(v)
    BY <2>2, <2>3
  <2>5. w \in 1 .. v - 1 /\ w < v
    BY <2>1, <2>4, FilesAssumption DEF FilesAssumption, Version
  <2>6. w \in recorded
    BY <2>1, <2>5 DEF Safe, UpPlaces
  <2>7. BeingRemoved = {}
    BY <2>1, AloneUp DEF Safe
  <2>8. w \in halfDown
    BY <2>1, <2>4, <2>6, <2>7 DEF Safe, AreThere
  <2>. QED  BY <2>5, <2>8
<1>2. IInv => RefusedOnlyOverHalfDown
  <2>. SUFFICES ASSUME IInv, NEW r \in Runner, Is(r, "up", "execute"),
                       Refused(run[r].version), ~crossed
                PROVE  \E v \in halfDown : v < run[r].version
    BY DEF RefusedOnlyOverHalfDown
  <2>. QED  BY <1>1
<1>. QED  BY <1>2, AlwaysSafe, PTL

\* An Up that returns nil has applied every version, except what a Down left
\* half done.
THEOREM UpIsComplete == MCSpec => UpAppliesAll
<1>1. ASSUME IInv, NEW r \in Runner, UpReturns(r), ~crossed
      PROVE  recorded = Version /\ \A v \in Version \ halfDown : Names(v) \subseteq objects
  <2>1. Safe /\ TypeOK /\ run[r].op = "up" /\ run[r].at = "check" /\ run[r].version = Last + 1
    BY <1>1 DEF IInv, UpReturns, Is
  <2>2. 1 .. Last \subseteq recorded
    <3>1. run[r].version - 1 = Last
      BY <2>1, FilesAssumption DEF FilesAssumption
    <3>2. 1 .. run[r].version - 1 \subseteq recorded
      BY <2>1 DEF Safe, UpPlaces
    <3>. QED  BY <3>1, <3>2
  <2>3. recorded = Version
    BY <2>1, <2>2 DEF TypeOK, Version
  <2>4. BeingRemoved = {}
    BY <2>1, AloneUp DEF Safe
  <2>. QED  BY <2>1, <2>3, <2>4 DEF Safe, AreThere
<1>2. IInv =>
        [\A r \in Runner : UpReturns(r) =>
           \/ crossed
           \/ /\ recorded = Version
              /\ \A v \in Version \ halfDown : Names(v) \subseteq objects]_mcVars
  <2>. SUFFICES ASSUME IInv, NEW r \in Runner, UpReturns(r), ~crossed
                PROVE  recorded = Version /\ \A v \in Version \ halfDown : Names(v) \subseteq objects
    OBVIOUS
  <2>. QED  BY <1>1
<1>. QED  BY <1>2, AlwaysSafe, PTL DEF UpAppliesAll

\* No Up makes again what a Down has dropped of a version still recorded.
THEOREM HalfDownIsForUp == MCSpec => HalfDownStays
<1>1. ASSUME IInv, [MCNext]_mcVars, NEW v \in halfDown
      PROVE  crossed' \/ v \notin recorded' \/ Names(v) \cap objects' = {}
  <2>1. CASE UNCHANGED mcVars
    BY <1>1, <2>1 DEF IInv, Safe, HalfDownGone, mcVars, vars
  <2>2. CASE MCNext /\ ~crossed'
    <3>1. PICK r \in Runner : \E call : SafeStep(r, call)
      BY <1>1, <2>2, ApartStep
    <3>2. PICK call : SafeStep(r, call)
      BY <3>1
    <3>3. HalfDownGone'
      BY <3>2, HalfDownGoneKept
    <3>4. v \in recorded' => v \in halfDown'
      BY <1>1, <3>2, HalfDownMoves
    <3>. QED  BY <3>3, <3>4 DEF HalfDownGone
  <2>. QED  BY <1>1, <2>1, <2>2
<1>2. IInv /\ [MCNext]_mcVars =>
        [\A v \in halfDown :
           crossed' \/ v \notin recorded' \/ Names(v) \cap objects' = {}]_mcVars
  BY <1>1
<1>. QED  BY <1>2, AlwaysSafe, PTL DEF MCSpec, HalfDownStays
=============================================================================
