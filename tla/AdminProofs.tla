----------------------------- MODULE AdminProofs -----------------------------
(* What the control panel keeps true of its files and units, for every       *)
(* number of tunnels and secrets, every dialog and every interruption.      *)
EXTENDS Admin, FiniteSetTheorems, WellFoundedInduction, TLAPS

\* A nonempty set of positions has a first one.
LEMMA FirstExists ==
  ASSUME NEW S \in SUBSET Nat, S # {}
  PROVE  \E n \in S : \A m \in S : n =< m
<1> DEFINE R == OpToRel(<, Nat)
<1>1. PICK n \in S : \A m \in S : ~(<<m, n>> \in R)
  <2>1. IsWellFoundedOn(R, Nat)
    BY NatLessThanWellFounded
  <2> HIDE DEF R
  <2> QED BY <2>1, WFMin
<1>2. \A m \in S : m < n => <<m, n>> \in R
  BY DEF OpToRel
<1> HIDE DEF R
<1>3. \A m \in S : ~(m < n)
  BY <1>1, <1>2
<1> QED BY <1>3

\* The wizard proposes a name of the list, and makes a configuration.
LEMMA WizardMakes ==
  ASSUME NEW i \in Instances, NEW current \in Configurations \cup {None}, NEW d \in Dialogs
  PROVE  Wizard(i, current, d) \in Configurations
<1>1. nextInterface(i) \in STRING
  <2> DEFINE free == {n \in 1 .. Len(Ifaces) : Ifaces[n] \notin UsedIfaces(i)}
  <2>1. 1 \in 1 .. Len(Ifaces) /\ \A n \in 1 .. Len(Ifaces) : Ifaces[n] \in STRING
    BY AdminAssumption
  <2>2. CASE free = {}
    BY <2>1, <2>2 DEF nextInterface
  <2>3. CASE free # {}
    <3>1. free \in SUBSET Nat
      OBVIOUS
    <3>2. \E n \in free : \A m \in free : n =< m
      BY <2>3, <3>1, FirstExists
    <3>3. (CHOOSE n \in free : \A m \in free : n =< m) \in free
      BY <3>2
    <3> QED BY <2>1, <2>3, <3>3 DEF nextInterface
  <2> QED BY <2>2, <2>3
<1>2. d \in AllDialogs /\ None \notin Configurations
  BY AdminAssumption
<1>3. configureL3(i, current, d) \in {""} \cup STRING
  <2>1. current # None => current \in Configurations /\ current.iface \in {""} \cup STRING
    BY DEF Configurations
  <2> QED BY <1>1, <2>1, Zenon DEF configureL3, HasInterface
<1>4. Endpoints(d, "server") \in [Kinds -> Addresses] /\ Endpoints(d, "client") \in [Kinds -> Addresses]
  BY <1>2 DEF Endpoints, AllDialogs, Addresses
<1>5. (IF d.mode = "both" THEN d.prefer ELSE d.mode) \in Kinds
  BY <1>2 DEF AllDialogs, Kinds
<1>6. (IF current = None THEN i ELSE current.secret) \in Instances
  BY DEF Configurations
<1> QED BY <1>2, <1>3, <1>4, <1>5, <1>6 DEF Wizard, Configurations, AllDialogs

-----------------------------------------------------------------------------
WizardOps ==
  [pc : {"wizard", "secret", "validate", "save", "sync", "rename", "start"}, instance : Instances,
   editing : BOOLEAN, active : BOOLEAN, cfg : Configurations \cup {None}]
DeleteOps ==
  [pc : {"disable", "remove", "references", "ask"}, instance : Instances, secret : Instances]
KeygenOps == [pc : {"sync", "rename"}, instance : Instances]
Temps ==
  [kind : {"config"}, name : Instances, data : Configurations, synced : BOOLEAN, next : {"start"}]
    \cup [kind : {"key"}, name : Instances, data : Keys, synced : BOOLEAN, next : {"validate", "idle"}]
Runs == [cfg : Configurations, key : Keys, kept : BOOLEAN]

FilesType ==
  config \in [Instances -> Configurations \cup {None}] /\ key \in [Instances -> Keys \cup {None}]
OpType ==
  /\ op \in {Idle} \cup WizardOps \cup DeleteOps \cup KeygenOps
  /\ op.pc \in {"secret", "validate", "save", "start"} => op.cfg \in Configurations
\* The temporary file belongs to the command in progress, is synced before
\* it is renamed, and so no file is ever without its content on the disk.
TempType ==
  /\ unsynced = {}
  /\ op.pc \in {"sync", "rename"} =>
       /\ temp \in Temps
       /\ temp.next # "idle" => op \in WizardOps /\ op.cfg \in Configurations
       /\ temp.kind = "config" => temp.name = op.instance /\ temp.data = op.cfg
       /\ temp.next = "validate" => temp.name = op.cfg.secret
       /\ op.pc = "rename" => temp.synced
UnitsType ==
  /\ unit \in [Instances -> {"inactive", "starting", "running", "failed"}]
  /\ run \in [Instances -> Runs \cup {None}]
  /\ \A i \in Instances : unit[i] = "running" => run[i] \in Runs

\* A command names an instance once it has begun.
LEMMA OpNames ==
  ASSUME OpType, op.pc # "idle"
  PROVE  op.instance \in Instances
  BY DEF OpType, Idle, WizardOps, DeleteOps, KeygenOps

\* Which command is where.
LEMMA OpIs ==
  ASSUME OpType
  PROVE  /\ op.pc \in {"wizard", "secret", "validate", "save", "start"} => op \in WizardOps
         /\ op.pc \in {"disable", "remove", "references", "ask"} => op \in DeleteOps
  BY DEF OpType, Idle, WizardOps, DeleteOps, KeygenOps

\* A step of a command that only moves on changes pc alone.
LEMMA GotoMoves ==
  ASSUME OpType, op.pc # "idle", NEW pc, Goto(pc)
  PROVE  /\ op'.pc = pc /\ op'.instance = op.instance
         /\ op \in WizardOps => op'.cfg = op.cfg
         /\ op \in DeleteOps => op'.secret = op.secret
  BY DEF OpType, Idle, Goto, WizardOps, DeleteOps, KeygenOps

\* NewSecret moves on with the path of the new file.
LEMMA NewSecretMoves ==
  ASSUME OpType, NEW p \in Instances, NEW k \in Keys, NewSecret(p, k)
  PROVE  /\ op.pc = "secret" /\ op \in WizardOps /\ op.cfg \in Configurations
         /\ op' \in WizardOps /\ op'.pc = "sync" /\ op'.instance = op.instance
         /\ op'.cfg \in Configurations /\ op'.cfg.secret = p /\ op'.cfg.iface = op.cfg.iface
         /\ temp' = [kind |-> "key", name |-> p, data |-> k, synced |-> FALSE, next |-> "validate"]
         /\ UNCHANGED <<config, broken, key, unsynced, enabled, unit, run, claimed, overlooked, stuck>>
<1>1. op.pc = "secret" /\ op \in WizardOps /\ op.cfg \in Configurations
  BY OpIs DEF NewSecret, At, OpType
<1>2. PICK c : c = [op.cfg EXCEPT !.secret = p]
  OBVIOUS
<1>3. c \in Configurations /\ c.secret = p /\ c.iface = op.cfg.iface
  BY <1>1, <1>2 DEF Configurations
<1>4. op' = [op EXCEPT !.pc = "sync", !.cfg = c]
  BY <1>1, <1>2 DEF NewSecret, WizardOps
<1>5. op' \in WizardOps /\ op'.pc = "sync" /\ op'.instance = op.instance /\ op'.cfg = c
  BY <1>1, <1>3, <1>4 DEF WizardOps
<1>6. /\ temp' = [kind |-> "key", name |-> p, data |-> k, synced |-> FALSE, next |-> "validate"]
      /\ UNCHANGED <<config, broken, key, unsynced, enabled, unit, run, claimed, overlooked, stuck>>
  BY DEF NewSecret, WriteSecret, WriteTemp, disk, units, history
<1> QED BY <1>1, <1>3, <1>5, <1>6

\* Save moves on with what ValidateAnswers accepted.
LEMMA SaveMoves ==
  ASSUME OpType, Save
  PROVE  /\ op.pc = "save" /\ op \in WizardOps /\ op.cfg \in Configurations
         /\ op.instance \in Instances
         /\ op' \in WizardOps /\ op'.pc = "sync" /\ op'.instance = op.instance /\ op'.cfg = op.cfg
         /\ temp' = [kind |-> "config", name |-> op.instance, data |-> op.cfg, synced |-> FALSE,
                     next |-> "start"]
         /\ UNCHANGED <<config, broken, key, unsynced, enabled, unit, run, claimed, overlooked, stuck>>
<1>1. op.pc = "save" /\ op \in WizardOps /\ op.cfg \in Configurations /\ op.instance \in Instances
  BY OpIs, OpNames DEF Save, At, OpType
<1>2. op' = [op EXCEPT !.pc = "sync"]
  BY DEF Save, Goto
<1>3. op' \in WizardOps /\ op'.pc = "sync" /\ op'.instance = op.instance /\ op'.cfg = op.cfg
  BY <1>1, <1>2 DEF WizardOps
<1> QED BY <1>1, <1>3 DEF Save, WriteTemp, disk, units, history

\* SyncTemp moves on and leaves everything readable alone.
LEMMA SyncMoves ==
  ASSUME OpType, TempType, SyncTemp
  PROVE  /\ op.pc = "sync" /\ op'.pc = "rename" /\ op'.instance = op.instance
         /\ op \in WizardOps => op' \in WizardOps /\ op'.cfg = op.cfg
         /\ op \in KeygenOps => op' \in KeygenOps
         /\ temp \in Temps /\ temp' \in Temps /\ temp'.synced
         /\ temp'.kind = temp.kind /\ temp'.name = temp.name /\ temp'.data = temp.data
         /\ temp'.next = temp.next
         /\ UNCHANGED <<config, broken, key, unsynced, enabled, unit, run, claimed, overlooked, stuck>>
<1>1. op.pc = "sync" /\ op' = [op EXCEPT !.pc = "rename"] /\ temp' = [temp EXCEPT !.synced = TRUE]
  BY DEF SyncTemp, At, Goto
<1>2. /\ op'.pc = "rename" /\ op'.instance = op.instance
      /\ op \in WizardOps => op' \in WizardOps /\ op'.cfg = op.cfg
      /\ op \in KeygenOps => op' \in KeygenOps
  BY <1>1 DEF OpType, Idle, WizardOps, DeleteOps, KeygenOps
<1>3. temp \in Temps
  BY <1>1 DEF TempType
<1>4. /\ temp' \in Temps /\ temp'.synced /\ temp'.kind = temp.kind /\ temp'.name = temp.name
      /\ temp'.data = temp.data /\ temp'.next = temp.next
  BY <1>1, <1>3 DEF Temps
<1> QED BY <1>1, <1>2, <1>3, <1>4 DEF SyncTemp, disk, units, history

\* RenameTemp makes the file of a command what it is to be, with its content
\* on the disk.
LEMMA RenameMoves ==
  ASSUME OpType, TempType, RenameTemp
  PROVE  /\ op.pc = "rename" /\ unsynced' = {}
         /\ UNCHANGED <<enabled, unit, run, overlooked, stuck>>
         /\ \/ /\ temp.kind = "config"
               /\ op \in WizardOps /\ op.cfg \in Configurations /\ op.instance \in Instances
               /\ config' = [config EXCEPT ![op.instance] = op.cfg]
               /\ claimed' = claimed \ {op.instance} /\ key' = key
               /\ op' \in WizardOps /\ op'.pc = "start" /\ op'.instance = op.instance
               /\ op'.cfg = op.cfg
            \/ /\ temp.kind = "key" /\ temp.name \in Instances /\ temp.data \in Keys
               /\ key' = [key EXCEPT ![temp.name] = temp.data]
               /\ claimed' = claimed \ UsersOf(temp.name) /\ config' = config
               /\ \/ op' = Idle
                  \/ /\ temp.next = "validate"
                     /\ op \in WizardOps /\ op.cfg \in Configurations /\ op.cfg.secret = temp.name
                     /\ op' \in WizardOps /\ op'.pc = "validate" /\ op'.instance = op.instance
                     /\ op'.cfg = op.cfg
<1>1. op.pc = "rename" /\ temp \in Temps /\ temp.synced
  BY DEF RenameTemp, At, TempType
<1>2. unsynced' = {} /\ UNCHANGED <<enabled, unit, run, overlooked, stuck>>
  BY <1>1 DEF RenameTemp, TempType, units
<1>3. CASE temp.kind = "config"
  <2>1. /\ temp.next = "start" /\ temp.name = op.instance /\ temp.data = op.cfg
        /\ op \in WizardOps /\ op.cfg \in Configurations /\ op.instance \in Instances
    BY <1>1, <1>3, OpNames DEF TempType, Temps
  <2>2. op' = [op EXCEPT !.pc = "start"]
    BY <2>1 DEF RenameTemp, Goto
  <2>3. op' \in WizardOps /\ op'.pc = "start" /\ op'.instance = op.instance /\ op'.cfg = op.cfg
    BY <2>1, <2>2 DEF WizardOps
  <2>4. config' = [config EXCEPT ![op.instance] = op.cfg] /\ claimed' = claimed \ {op.instance} /\ key' = key
    BY <1>3, <2>1 DEF RenameTemp
  <2> QED BY <1>1, <1>2, <1>3, <2>1, <2>3, <2>4
<1>4. CASE temp.kind = "key"
  <2>1. temp.name \in Instances /\ temp.data \in Keys /\ temp.next \in {"validate", "idle"}
    BY <1>1, <1>4 DEF Temps
  <2>2. /\ key' = [key EXCEPT ![temp.name] = temp.data]
        /\ claimed' = claimed \ UsersOf(temp.name) /\ config' = config
    BY <1>4 DEF RenameTemp
  <2>3. CASE temp.next = "idle"
    BY <1>1, <1>2, <1>4, <2>1, <2>2, <2>3 DEF RenameTemp, Return
  <2>4. CASE temp.next = "validate"
    <3>1. op \in WizardOps /\ op.cfg \in Configurations /\ op.cfg.secret = temp.name
      BY <1>1, <2>4 DEF TempType
    <3>2. op' = [op EXCEPT !.pc = "validate"]
      BY <2>4 DEF RenameTemp, Goto
    <3>3. op' \in WizardOps /\ op'.pc = "validate" /\ op'.instance = op.instance /\ op'.cfg = op.cfg
      BY <3>1, <3>2 DEF WizardOps
    <3> QED BY <1>1, <1>2, <1>4, <2>1, <2>2, <2>4, <3>1, <3>3
  <2> QED BY <2>1, <2>3, <2>4
<1> QED BY <1>1, <1>3, <1>4 DEF Temps

\* What is on the disk survives when the machine stops.
LEMMA RebootKeeps ==
  ASSUME TempType, FilesType, Reboot
  PROVE  UNCHANGED <<config, key, broken, enabled, claimed, overlooked, stuck>> /\ unsynced' = {} /\ op' = Idle
  BY DEF TempType, FilesType, Reboot, Surviving, Return, history

\* Where a command is after the steps that begin one, end one or are none.
LEMMA OpMoves ==
  /\ \A i : Setup(i) \/ Edit(i) => op'.pc = "wizard"
  /\ \A i : Delete(i) => op'.pc = "disable"
  /\ \A i, a : Service(i, a) => op'.pc = "idle"
  /\ StartTunnel \/ DeleteSecret \/ Stops \/ Reboot => op'.pc = "idle"
  /\ \A i : UnitLoads(i) \/ UnitDies(i) \/ EditByHand(i) => op' = op /\ temp' = temp
  /\ UNCHANGED vars => op' = op /\ temp' = temp
<1>1. \A i : Setup(i) \/ Edit(i) => op'.pc = "wizard"
  BY DEF Setup, Edit, Command
<1>2. \A i : Delete(i) => op'.pc = "disable"
  BY DEF Delete, Command
<1>3. Idle.pc = "idle"
  BY DEF Idle
<1>4. \A i, a : Service(i, a) => op' = Idle
  BY Zenon DEF Service, Command
<1>5. StartTunnel \/ DeleteSecret \/ Stops \/ Reboot => op' = Idle
  BY Zenon DEF StartTunnel, DeleteSecret, Stops, Reboot, Return
<1>6. \A i : UnitLoads(i) \/ UnitDies(i) \/ EditByHand(i) => op' = op /\ temp' = temp
  BY DEF UnitLoads, UnitDies, EditByHand, files
<1>7. UNCHANGED vars => op' = op /\ temp' = temp
  BY DEF vars, files
<1> QED BY <1>1, <1>2, <1>3, <1>4, <1>5, <1>6, <1>7, Zenon

\* Where each step leaves the command in progress.
LEMMA OpStep ==
  ASSUME OpType, TempType, FilesType, [Next]_vars
  PROVE  OpType'
<1> USE DEF OpType, Idle
<1>0. None \notin Configurations
  BY AdminAssumption
<1>1. ASSUME NEW i \in Instances, Setup(i) PROVE OpType'
  BY <1>1 DEF Setup, Command, WizardOps
<1>2. ASSUME NEW i \in Instances, Edit(i) PROVE OpType'
  BY <1>2 DEF Edit, Command, WizardOps, Loads, FilesType
<1>3. ASSUME NEW i \in Instances, Delete(i) PROVE OpType'
  BY <1>3 DEF Delete, Command, DeleteOps, Loads, FilesType, Configurations
<1>4. ASSUME NEW d \in Dialogs, Answer(d) PROVE OpType'
  <2>1. op \in WizardOps
    BY <1>4, OpIs DEF Answer, At
  <2>2. Wizard(op.instance, op.cfg, d) \in Configurations
    BY <2>1, WizardMakes DEF WizardOps
  <2> QED BY <1>4, <2>1, <2>2 DEF Answer, At, WizardOps
<1>5. ASSUME NEW p \in Instances, KeepSecret(p) PROVE OpType'
  <2>1. op \in WizardOps /\ op.cfg \in Configurations
    BY <1>5, OpIs DEF KeepSecret, At
  <2> QED BY <1>5, <2>1 DEF KeepSecret, Goto, WizardOps
<1>6. ASSUME NEW p \in Instances, UseFile(p) PROVE OpType'
  <2>1. op \in WizardOps /\ op.cfg \in Configurations
    BY <1>6, OpIs DEF UseFile, At
  <2>2. [op.cfg EXCEPT !.secret = p] \in Configurations
    BY <2>1 DEF Configurations
  <2>3. op' = [op EXCEPT !.pc = "validate", !.cfg = [op.cfg EXCEPT !.secret = p]]
    BY <1>6, <2>1 DEF UseFile, WizardOps
  <2> QED BY <2>1, <2>2, <2>3 DEF WizardOps
<1>7. ASSUME ValidateAnswers PROVE OpType'
  <2>1. op \in WizardOps /\ op.cfg \in Configurations
    BY <1>7, OpIs DEF ValidateAnswers, At
  <2> QED BY <1>7, <2>1 DEF ValidateAnswers, Goto, Return, WizardOps
<1>8. ASSUME DeleteDisables \/ DeleteRemoves \/ DeleteLooks PROVE OpType'
  <2>1. op \in DeleteOps
    BY <1>8, OpIs DEF DeleteDisables, DeleteRemoves, DeleteLooks, At
  <2> QED BY <1>8, <2>1 DEF DeleteDisables, DeleteRemoves, DeleteLooks, Goto, Return, DeleteOps
<1>9. ASSUME op' = Idle \/ op' = op PROVE OpType'
  BY <1>9
<1>10. ASSUME NEW p \in Instances, NEW k \in Keys, NewSecret(p, k) PROVE OpType'
  BY <1>10, NewSecretMoves
<1>11. ASSUME NEW p \in Instances, NEW k \in Keys, NEW force \in BOOLEAN, Keygen(p, k, force) PROVE OpType'
  BY <1>11 DEF Keygen, Command, KeygenOps
<1>12. ASSUME Save PROVE OpType'
  BY <1>12, SaveMoves
<1>13. ASSUME SyncTemp PROVE OpType'
  <2>1. op \in WizardOps \/ op \in KeygenOps
    BY <1>13 DEF SyncTemp, At, DeleteOps
  <2> QED BY <1>13, <2>1, SyncMoves
<1>14. ASSUME RenameTemp PROVE OpType'
  BY <1>14, RenameMoves
<1> QED
  BY <1>1, <1>2, <1>3, <1>4, <1>5, <1>6, <1>7, <1>8, <1>9, <1>10, <1>11, <1>12, <1>13, <1>14
  DEF Next, vars, Service, Command, StartTunnel, DeleteSecret, Return, Stops,
      UnitLoads, UnitDies, EditByHand, Reboot

\* Where each step leaves the temporary file.
LEMMA TempStep ==
  ASSUME OpType, TempType, FilesType, [Next]_vars
  PROVE  TempType'
<1>1. ASSUME NEW p \in Instances, NEW k \in Keys, NewSecret(p, k) PROVE TempType'
  <2>1. PICK t : t = [kind |-> "key", name |-> p, data |-> k, synced |-> FALSE, next |-> "validate"]
    OBVIOUS
  <2>2. t \in Temps /\ t.kind = "key" /\ t.next = "validate" /\ t.name = p
    BY <2>1 DEF Temps
  <2> QED BY <1>1, <2>1, <2>2, NewSecretMoves DEF TempType
<1>2. ASSUME NEW p \in Instances, NEW k \in Keys, NEW force \in BOOLEAN, Keygen(p, k, force) PROVE TempType'
  <2>1. PICK t : t = [kind |-> "key", name |-> p, data |-> k, synced |-> FALSE, next |-> "idle"]
    OBVIOUS
  <2>2. t \in Temps /\ t.kind = "key" /\ t.next = "idle"
    BY <2>1 DEF Temps
  <2>3. temp' = t /\ unsynced' = unsynced /\ op'.pc = "sync"
    BY <1>2, <2>1 DEF Keygen, Command, WriteSecret, WriteTemp, disk
  <2> QED BY <2>2, <2>3 DEF TempType
<1>3. ASSUME Save PROVE TempType'
  <2>1. PICK t : t = [kind |-> "config", name |-> op.instance, data |-> op.cfg, synced |-> FALSE,
                      next |-> "start"]
    OBVIOUS
  <2>2. t \in Temps /\ t.kind = "config" /\ t.next = "start" /\ t.name = op.instance /\ t.data = op.cfg
    BY <1>3, <2>1, SaveMoves DEF Temps
  <2>3. temp' = t /\ unsynced' = unsynced
    BY <1>3, <2>1, SaveMoves
  <2>4. op'.pc = "sync" /\ op' \in WizardOps /\ op'.cfg \in Configurations
    BY <1>3, SaveMoves
  <2>5. op'.instance = t.name /\ op'.cfg = t.data
    BY <1>3, <2>2, SaveMoves
  <2> QED BY <2>2, <2>3, <2>4, <2>5 DEF TempType
<1>4. ASSUME SyncTemp PROVE TempType'
  <2>1. op.pc = "sync" /\ temp \in Temps /\ temp' \in Temps /\ temp'.synced /\ unsynced' = {}
    BY <1>4, SyncMoves DEF TempType
  <2>2. temp.kind = "config" => temp.next # "idle"
    BY <2>1 DEF Temps
  <2>3. temp.next # "idle" => /\ op' \in WizardOps /\ op'.cfg = op.cfg /\ op.cfg \in Configurations
    BY <1>4, <2>1, SyncMoves DEF TempType
  <2>4. /\ temp.kind = "config" => temp.name = op.instance /\ temp.data = op.cfg
        /\ temp.next = "validate" => temp.name = op.cfg.secret
    BY <2>1 DEF TempType
  <2>5. /\ temp'.kind = temp.kind /\ temp'.name = temp.name /\ temp'.data = temp.data
        /\ temp'.next = temp.next /\ op'.instance = op.instance
    BY <1>4, SyncMoves
  <2> QED BY <2>1, <2>2, <2>3, <2>4, <2>5 DEF TempType
<1>5. ASSUME unsynced' = {}, op'.pc \notin {"sync", "rename"} PROVE TempType'
  BY <1>5 DEF TempType
<1>6. ASSUME RenameTemp PROVE TempType'
  BY <1>5, <1>6, RenameMoves DEF Idle
<1>7. ASSUME Reboot PROVE TempType'
  BY <1>5, <1>7, RebootKeeps DEF Idle
<1>8. ASSUME UNCHANGED <<op, temp, unsynced>> PROVE TempType'
  BY <1>8 DEF TempType
<1>9. ASSUME \/ \E d \in Dialogs : Answer(d)
             \/ \E p \in Instances : KeepSecret(p) \/ UseFile(p)
             \/ ValidateAnswers \/ DeleteDisables \/ DeleteRemoves \/ DeleteLooks
      PROVE  TempType'
  <2>1. unsynced' = {} /\ op.pc # "idle"
    BY <1>9 DEF Answer, KeepSecret, UseFile, ValidateAnswers, DeleteDisables, DeleteRemoves, DeleteLooks,
       At, files, disk, TempType
  <2>2. CASE \/ \E d \in Dialogs : Answer(d)
             \/ \E p \in Instances : UseFile(p)
    <3>1. op \in WizardOps
      BY <2>2, OpIs DEF Answer, UseFile, At
    <3>2. op'.pc \in {"secret", "validate"}
      BY <2>2, <3>1 DEF Answer, UseFile, WizardOps
    <3> QED BY <1>5, <2>1, <3>2
  <2>3. CASE \/ \E p \in Instances : KeepSecret(p)
             \/ ValidateAnswers \/ DeleteDisables \/ DeleteRemoves \/ DeleteLooks
    <3>1. op'.pc \in {"validate", "save", "remove", "references", "ask", "idle"}
      BY <2>1, <2>3, GotoMoves
      DEF KeepSecret, ValidateAnswers, DeleteDisables, DeleteRemoves, DeleteLooks, Return, Idle
    <3> QED BY <1>5, <2>1, <3>1
  <2> QED BY <1>9, <2>2, <2>3
<1>10. ASSUME \/ \E i \in Instances : Setup(i) \/ Edit(i) \/ Delete(i) \/ \E a \in Actions : Service(i, a)
              \/ StartTunnel \/ DeleteSecret \/ Stops
       PROVE  TempType'
  <2>1. unsynced' = {}
    BY <1>10 DEF Setup, Edit, Delete, Service, StartTunnel, DeleteSecret, Stops, files, disk, TempType
  <2>2. op'.pc \in {"wizard", "disable", "idle"}
    BY <1>10, OpMoves
  <2> QED BY <1>5, <2>1, <2>2
<1>11. ASSUME \/ \E i \in Instances : UnitLoads(i) \/ UnitDies(i) \/ EditByHand(i)
              \/ UNCHANGED vars
       PROVE  TempType'
  BY <1>8, <1>11 DEF UnitLoads, UnitDies, EditByHand, files, disk, vars
<1> QED BY <1>1, <1>2, <1>3, <1>4, <1>6, <1>7, <1>9, <1>10, <1>11 DEF Next

\* What the files hold.
LEMMA FilesStep ==
  ASSUME OpType, TempType, FilesType, [Next]_vars
  PROVE  FilesType'
<1>1. ASSUME RenameTemp PROVE FilesType'
  BY <1>1, RenameMoves DEF FilesType
<1>2. ASSUME DeleteRemoves PROVE FilesType'
  BY <1>2 DEF DeleteRemoves, FilesType
<1>3. ASSUME DeleteSecret PROVE FilesType'
  BY <1>3 DEF DeleteSecret, FilesType
<1>4. ASSUME UNCHANGED <<config, key>> PROVE FilesType'
  BY <1>4 DEF FilesType
<1>5. ASSUME Reboot PROVE FilesType'
  BY <1>4, <1>5, RebootKeeps
<1> QED
  BY <1>1, <1>2, <1>3, <1>4, <1>5
  DEF Next, vars, files, disk, Setup, Edit, Delete, Service, Answer, KeepSecret, UseFile, NewSecret,
      Keygen, WriteSecret, WriteTemp, ValidateAnswers, Save, SyncTemp, StartTunnel, DeleteDisables,
      DeleteLooks, Stops, UnitLoads, UnitDies, EditByHand

\* What the units are and run.
LEMMA UnitsStep ==
  ASSUME OpType, FilesType, UnitsType, [Next]_vars
  PROVE  UnitsType'
<1> DEFINE Stays(i) == unit' = [unit EXCEPT ![i] = IF @ = "running" THEN @ ELSE "starting"] /\ run' = run
           Out(i, where) == unit' = [unit EXCEPT ![i] = where] /\ run' = [run EXCEPT ![i] = None]
<1>1. ASSUME NEW i \in Instances, Stays(i) PROVE UnitsType'
  BY <1>1 DEF UnitsType
<1>2. ASSUME NEW i \in Instances, Out(i, "starting") \/ Out(i, "inactive") PROVE UnitsType'
  BY <1>2 DEF UnitsType
<1>3. ASSUME NEW i \in Instances, EnableNow(i) PROVE UnitsType'
  <2>1. CASE unit[i] # "running"
    BY <1>1, <1>3, <2>1 DEF EnableNow, StartUnit
  <2>2. CASE unit[i] = "running"
    <3>1. run[i] \in Runs /\ [run[i] EXCEPT !.kept = TRUE] \in Runs
      BY <2>2 DEF UnitsType, Runs
    <3>2. run' = [run EXCEPT ![i] = [run[i] EXCEPT !.kept = TRUE]] /\ unit' = unit
      BY <1>3, <2>2 DEF EnableNow, StartUnit, UnitsType
    <3> QED BY <3>1, <3>2 DEF UnitsType
  <2> QED BY <2>1, <2>2
<1>4. ASSUME StartTunnel PROVE UnitsType'
  <2>1. op.instance \in Instances
    BY <1>4, OpNames DEF StartTunnel, At
  <2> QED BY <1>2, <1>3, <1>4, <2>1 DEF StartTunnel, Restart, RestartUnit
<1>5. ASSUME DeleteDisables PROVE UnitsType'
  <2>1. op.instance \in Instances
    BY <1>5, OpNames DEF DeleteDisables, At
  <2> QED BY <1>2, <1>5, <2>1 DEF DeleteDisables, StopUnit, units, UnitsType
<1>6. ASSUME NEW i \in Instances, NEW a \in Actions, Service(i, a) PROVE UnitsType'
  <2>1. CASE UNCHANGED <<unit, run>>
    BY <2>1 DEF UnitsType
  <2> QED BY <1>1, <1>2, <1>6, <2>1 DEF Service, StartUnit, StopUnit, Restart, RestartUnit
<1>7. ASSUME NEW i \in Instances, UnitLoads(i) PROVE UnitsType'
  <2> DEFINE new == [cfg |-> config[i], key |-> key[config[i].secret], kept |-> FALSE]
  <2>1. CASE Loads(i) /\ ReadSecret(config[i].secret)
    <3>1. new \in Runs
      BY <2>1, AdminAssumption DEF Loads, ReadSecret, FilesType, Configurations, Runs
    <3> QED BY <1>7, <2>1, <3>1 DEF UnitLoads, UnitsType
  <2>2. CASE ~(Loads(i) /\ ReadSecret(config[i].secret))
    BY <1>7, <2>2 DEF UnitLoads, UnitsType
  <2> QED BY <2>1, <2>2
<1>8. ASSUME NEW i \in Instances, UnitDies(i) PROVE UnitsType'
  BY <1>2, <1>8 DEF UnitDies, RestartUnit
<1>9. ASSUME Reboot PROVE UnitsType'
  BY <1>9 DEF Reboot, UnitsType
<1>10. ASSUME UNCHANGED <<unit, run>> PROVE UnitsType'
  BY <1>10 DEF UnitsType
<1> QED
  BY <1>4, <1>5, <1>6, <1>7, <1>8, <1>9, <1>10
  DEF Next, vars, units, Setup, Edit, Delete, Answer, KeepSecret, UseFile, NewSecret,
      ValidateAnswers, Save, SyncTemp, RenameTemp, DeleteRemoves, DeleteLooks, DeleteSecret, Keygen,
      Stops, EditByHand

-----------------------------------------------------------------------------
(* The invariants behind the properties: what a command in progress has      *)
(* already made sure of.                                                    *)

\* The configuration is on its way to its file.
Replacing == op.pc \in {"sync", "rename"} /\ temp.kind = "config"

FilesInv ==
  /\ \A i \in Instances : config[i] # None => Validate(config[i])
  /\ op.pc = "save" \/ Replacing => Validate(op.cfg)

SecretInv ==
  /\ \A i \in Instances :
       config[i] # None => key[config[i].secret] # None \/ <<"secret", i>> \in overlooked
  /\ op.pc \in {"validate", "save"} \/ Replacing => key[op.cfg.secret] # None
  /\ op.pc \in {"references", "ask"} => config[op.instance] = None
  /\ op.pc = "ask" =>
       \A i \in Instances :
         config[i] # None /\ config[i].secret = op.secret => <<"secret", i>> \in overlooked

Stopped(i) == (unit[i] = "inactive" /\ i \notin enabled) \/ i \in stuck

StopInv ==
  /\ \A i \in Instances : config[i] = None => Stopped(i)
  /\ op.pc = "remove" => Stopped(op.instance)
  /\ op.pc = "start" => config[op.instance] # None

ClaimInv == claimed \subseteq Instances /\ EditApplies

AdminType == OpType /\ TempType /\ FilesType /\ UnitsType
AdminInv == AdminType /\ FilesInv /\ SecretInv /\ StopInv /\ ClaimInv

\* A step that begins to replace a secret file replaces no configuration.
LEMMA KeyIsNoConfig ==
  ASSUME OpType, NEW p \in Instances, NEW k \in Keys,
         NewSecret(p, k) \/ \E force \in BOOLEAN : Keygen(p, k, force)
  PROVE  op'.pc = "sync" /\ ~Replacing'
<1>1. CASE NewSecret(p, k)
  BY <1>1, NewSecretMoves DEF Replacing
<1>2. CASE \E force \in BOOLEAN : Keygen(p, k, force)
  BY <1>2 DEF Keygen, Command, WriteSecret, WriteTemp, Replacing
<1> QED BY <1>1, <1>2

\* Syncing the file keeps what is being replaced.
LEMMA SyncKeeps ==
  ASSUME OpType, TempType, SyncTemp, Replacing'
  PROVE  Replacing /\ op'.cfg = op.cfg
<1>1. /\ op.pc = "sync" /\ temp'.kind = temp.kind /\ temp \in Temps
      /\ op \in WizardOps => op'.cfg = op.cfg
  BY SyncMoves
<1>2. temp.kind = "config" => temp.next # "idle"
  BY <1>1 DEF Temps
<1> QED BY <1>1, <1>2 DEF Replacing, TempType

\* A configuration comes to its file only through Save, and only one that
\* ValidateAnswers accepted.
LEMMA FilesInvStep ==
  ASSUME AdminType, FilesInv, [Next]_vars
  PROVE  FilesInv'
<1> USE DEF AdminType
<1> DEFINE Good(c) == Validate(c)
<1>0. /\ \A i \in Instances : config[i] # None => Good(config[i])
      /\ op.pc = "save" \/ Replacing => Good(op.cfg)
  BY DEF FilesInv
<1>g. ASSUME \A i \in Instances : config'[i] # None => Good(config'[i]),
             op'.pc = "save" \/ Replacing' => Good(op'.cfg)
      PROVE  FilesInv'
  BY <1>g DEF FilesInv, Validate, validateTransport
<1> HIDE DEF Good
<1>1. ASSUME RenameTemp PROVE FilesInv'
  <2>1. op.pc = "rename" /\ op'.pc \notin {"save", "sync", "rename"}
    BY <1>1, RenameMoves DEF Idle
  <2>2. CASE config' = config
    BY <1>0, <1>g, <2>1, <2>2 DEF Replacing
  <2>3. CASE temp.kind = "config" /\ op.instance \in Instances /\ config' = [config EXCEPT ![op.instance] = op.cfg]
    <3>1. Good(op.cfg)
      BY <1>0, <2>1, <2>3 DEF Replacing
    <3>2. \A i \in Instances : config'[i] # None => Good(config'[i])
      BY <1>0, <2>3, <3>1 DEF FilesType
    <3> QED BY <1>g, <2>1, <3>2 DEF Replacing
  <2> QED BY <1>1, <2>2, <2>3, RenameMoves
<1>2. ASSUME DeleteRemoves PROVE FilesInv'
  <2>1. /\ op.pc = "remove" /\ op.instance \in Instances /\ op'.pc = "references"
        /\ config' = [config EXCEPT ![op.instance] = None]
    BY <1>2, OpNames, GotoMoves DEF DeleteRemoves, At
  <2>2. \A i \in Instances : config'[i] # None => Good(config'[i])
    BY <1>0, <2>1 DEF FilesType
  <2> QED BY <1>g, <2>1, <2>2 DEF Replacing
<1>3. ASSUME ValidateAnswers PROVE FilesInv'
  <2>1. config' = config /\ op.pc = "validate" /\ op \in WizardOps
    BY <1>3, OpIs DEF ValidateAnswers, files, disk, At
  <2>2. CASE Validate(op.cfg) /\ Goto("save")
    <3>1. op'.cfg = op.cfg /\ op'.pc = "save" /\ Good(op.cfg)
      BY <2>1, <2>2, GotoMoves DEF Good
    <3> QED BY <1>0, <1>g, <2>1, <3>1 DEF Replacing
  <2>3. CASE Return
    BY <1>0, <1>g, <2>1, <2>3 DEF Return, Idle, Replacing
  <2> QED BY <1>3, <2>2, <2>3 DEF ValidateAnswers
<1>4. ASSUME config' = config, op'.pc \notin {"save", "sync", "rename"} \/ UNCHANGED <<op, temp>>
      PROVE  FilesInv'
  BY <1>0, <1>4, <1>g DEF Replacing
<1>5. ASSUME NEW p \in Instances, KeepSecret(p) PROVE FilesInv'
  BY <1>4, <1>5, GotoMoves DEF KeepSecret, At, files, disk
<1>6. ASSUME \/ \E d \in Dialogs : Answer(d)
             \/ \E p \in Instances : UseFile(p)
      PROVE  FilesInv'
  <2>1. op \in WizardOps
    BY <1>6, OpIs DEF Answer, UseFile, At
  <2>2. op'.pc \in {"secret", "validate"} /\ config' = config
    BY <1>6, <2>1 DEF Answer, UseFile, WizardOps, files, disk
  <2> QED BY <1>4, <2>2
<1>7. ASSUME DeleteDisables \/ DeleteLooks PROVE FilesInv'
  <2>1. op.pc # "idle" /\ config' = config
    BY <1>7 DEF DeleteDisables, DeleteLooks, At, files, disk
  <2>2. op'.pc \in {"remove", "ask", "idle"}
    BY <1>7, <2>1, GotoMoves DEF DeleteDisables, DeleteLooks, Return, Idle
  <2> QED BY <1>4, <2>1, <2>2
<1>8. ASSUME NEW p \in Instances, NEW k \in Keys,
             NewSecret(p, k) \/ \E force \in BOOLEAN : Keygen(p, k, force)
      PROVE  FilesInv'
  <2>1. config' = config
    BY <1>8 DEF NewSecret, Keygen, WriteSecret, WriteTemp, disk
  <2> QED BY <1>0, <1>8, <1>g, <2>1, KeyIsNoConfig
<1>9. ASSUME Save PROVE FilesInv'
  BY <1>0, <1>9, <1>g, SaveMoves
<1>10. ASSUME SyncTemp PROVE FilesInv'
  BY <1>0, <1>10, <1>g, SyncMoves, SyncKeeps
<1>11. ASSUME Reboot PROVE FilesInv'
  BY <1>4, <1>11, RebootKeeps DEF Idle
<1>12. ASSUME \/ \E i \in Instances : Setup(i) \/ Edit(i) \/ Delete(i) \/ \E a \in Actions : Service(i, a)
              \/ StartTunnel \/ DeleteSecret \/ Stops
              \/ \E i \in Instances : UnitLoads(i) \/ UnitDies(i) \/ EditByHand(i)
              \/ UNCHANGED vars
       PROVE  FilesInv'
  <2>1. config' = config
    BY <1>12 DEF Setup, Edit, Delete, Service, StartTunnel, DeleteSecret,
       Stops, UnitLoads, UnitDies, EditByHand, vars, files, disk
  <2>2. op'.pc \in {"wizard", "disable", "idle"} \/ UNCHANGED <<op, temp>>
    BY <1>12, OpMoves
  <2> QED BY <1>4, <2>1, <2>2
<1> QED BY <1>1, <1>2, <1>3, <1>5, <1>6, <1>7, <1>8, <1>9, <1>10, <1>11, <1>12 DEF Next

\* A secret file is taken away only after Delete found no user of it, and a
\* configuration that names one is saved only after the file was there.
LEMMA SecretInvStep ==
  ASSUME AdminType, FilesInv, SecretInv, [Next]_vars
  PROVE  SecretInv'
<1> USE DEF AdminType
<1>0. \A c \in Configurations : c # None /\ c # Torn /\ c.secret \in Instances
  BY AdminAssumption DEF Configurations
<1>k. \A k \in Keys : k # None
  BY AdminAssumption
<1>1. ASSUME temp.kind = "config", op.pc = "rename", op'.pc = "start", op.instance \in Instances,
             config' = [config EXCEPT ![op.instance] = op.cfg], UNCHANGED <<key, overlooked>>
      PROVE  SecretInv'
  <2>1. key[op.cfg.secret] # None
    BY <1>1 DEF SecretInv, Replacing
  <2>2. \A i \in Instances :
          config'[i] # None => key'[config'[i].secret] # None \/ <<"secret", i>> \in overlooked'
    BY <1>1, <2>1 DEF FilesType, SecretInv
  <2> QED BY <1>1, <2>2 DEF SecretInv, Replacing
<1>2. ASSUME DeleteRemoves PROVE SecretInv'
  <2>1. /\ op.pc = "remove" /\ op.instance \in Instances
        /\ op'.pc = "references" /\ op'.instance = op.instance
        /\ config' = [config EXCEPT ![op.instance] = None] /\ UNCHANGED key
        /\ overlooked' = overlooked \ ({"iface", "secret"} \X {op.instance})
    BY <1>2, OpNames, GotoMoves DEF DeleteRemoves, At
  <2>2. config'[op.instance] = None
    BY <2>1 DEF FilesType
  <2>3. \A i \in Instances \ {op.instance} :
          config'[i] = config[i] /\ (<<"secret", i>> \in overlooked => <<"secret", i>> \in overlooked')
    BY <2>1 DEF FilesType
  <2> QED BY <2>1, <2>2, <2>3 DEF SecretInv, Replacing
<1>3. ASSUME RenameTemp, key' = [key EXCEPT ![temp.name] = temp.data], temp.name \in Instances,
             temp.data \in Keys, config' = config
      PROVE  SecretInv'
  <2>1. \A q \in Instances : key[q] # None \/ q = temp.name => key'[q] # None
    BY <1>3, <1>k DEF FilesType
  <2>2. \A i \in Instances : config[i] # None => config[i].secret \in Instances
    BY <1>0 DEF FilesType
  <2>3. \/ op'.pc \in {"idle", "start"}
        \/ op'.pc = "validate" /\ op'.cfg.secret = temp.name
    BY <1>3, RenameMoves DEF Idle
  <2>4. overlooked' = overlooked
    BY <1>3, RenameMoves
  <2> QED BY <1>3, <2>1, <2>2, <2>3, <2>4 DEF SecretInv, Replacing
<1>4. ASSUME DeleteSecret PROVE SecretInv'
  <2>1. /\ op.pc = "ask" /\ op'.pc = "idle" /\ key' = [key EXCEPT ![op.secret] = None]
        /\ UNCHANGED <<config, overlooked>>
    BY <1>4 DEF DeleteSecret, At, Return, Idle
  <2>2. \A i \in Instances : config[i] # None => config[i].secret \in Instances
    BY <1>0 DEF FilesType
  <2>3. \A q \in Instances : q # op.secret => key'[q] = key[q]
    BY <2>1 DEF FilesType
  <2> QED BY <2>1, <2>2, <2>3 DEF SecretInv, Replacing
<1>5. ASSUME DeleteLooks PROVE SecretInv'
  <2>1. /\ op.pc = "references" /\ UNCHANGED <<config, key, broken>>
        /\ overlooked' = overlooked \cup {"secret"} \X broken
        /\ op.instance \in Instances /\ op \in DeleteOps
    BY <1>5, OpNames, OpIs DEF DeleteLooks, At, files, disk
  <2>2. \A i \in Instances : <<"secret", i>> \in overlooked => <<"secret", i>> \in overlooked'
    BY <2>1
  <2>3. CASE Return
    <3>1. op'.pc = "idle"
      BY <2>3 DEF Return, Idle
    <3> QED BY <2>1, <2>2, <3>1 DEF SecretInv, Replacing
  <2>4. CASE Goto("ask") /\ ~secretReferencedElsewhere(op.secret, op.instance)
    <3>1. op'.pc = "ask" /\ op'.instance = op.instance /\ op'.secret = op.secret
      BY <2>1, <2>4, GotoMoves
    <3>2. ASSUME NEW i \in Instances, config[i] # None, config[i].secret = op.secret
          PROVE  <<"secret", i>> \in overlooked'
      <4>1. i # op.instance /\ config[i] \notin {None, Torn} /\ Validate(config[i])
        BY <2>1, <3>2, <1>0 DEF SecretInv, FilesInv, FilesType
      <4>2. i \in broken
        BY <2>4, <3>2, <4>1 DEF secretReferencedElsewhere, Loads
      <4> QED BY <2>1, <4>2
    <3> QED BY <2>1, <2>2, <3>1, <3>2 DEF SecretInv, Replacing
  <2> QED BY <1>5, <2>3, <2>4 DEF DeleteLooks
<1>6. ASSUME UNCHANGED <<config, key, overlooked>>,
             UNCHANGED <<op, temp>> \/ op'.pc \notin {"validate", "save", "sync", "rename", "references", "ask"}
      PROVE  SecretInv'
  BY <1>6 DEF SecretInv, Replacing
<1>7. ASSUME NEW p \in Instances, KeepSecret(p) \/ UseFile(p) PROVE SecretInv'
  <2>1. op.pc = "secret" /\ key[p] # None /\ UNCHANGED <<config, key, overlooked>>
    BY <1>7 DEF KeepSecret, UseFile, At, ReadSecret, files, disk, history
  <2>2. op \in WizardOps /\ op.cfg \in Configurations
    BY <2>1, OpIs DEF OpType
  <2>3. op'.pc = "validate" /\ op'.cfg.secret = p
    <3>1. CASE KeepSecret(p)
      BY <2>1, <2>2, <3>1, GotoMoves DEF KeepSecret
    <3>2. CASE UseFile(p)
      BY <2>2, <3>2 DEF UseFile, WizardOps, Configurations
    <3> QED BY <1>7, <3>1, <3>2
  <2> QED BY <2>1, <2>3 DEF SecretInv, Replacing
<1>8. ASSUME ValidateAnswers PROVE SecretInv'
  <2>1. op.pc = "validate" /\ UNCHANGED <<config, key, overlooked>> /\ op \in WizardOps
    BY <1>8, OpIs DEF ValidateAnswers, At, files, disk, history
  <2>2. op'.pc = "idle" \/ (op'.pc = "save" /\ op'.cfg = op.cfg)
    BY <1>8, <2>1, GotoMoves DEF ValidateAnswers, Return, Idle
  <2> QED BY <2>1, <2>2 DEF SecretInv, Replacing
<1>9. ASSUME NEW d \in Dialogs, Answer(d) PROVE SecretInv'
  <2>1. op.pc = "wizard" /\ UNCHANGED <<config, key>> /\ overlooked \subseteq overlooked'
    BY <1>9 DEF Answer, At, files, disk
  <2>2. op \in WizardOps
    BY <2>1, OpIs
  <2>3. op'.pc = "secret"
    BY <1>9, <2>2 DEF Answer, WizardOps
  <2> QED BY <2>1, <2>3 DEF SecretInv, Replacing
<1>10. ASSUME DeleteDisables PROVE SecretInv'
  <2>1. op'.pc = "remove"
    BY <1>10, GotoMoves DEF DeleteDisables, At
  <2> QED BY <1>6, <1>10, <2>1 DEF DeleteDisables, files, disk, history
<1>11. ASSUME \/ \E i \in Instances : Setup(i) \/ Edit(i) \/ Delete(i) \/ \E a \in Actions : Service(i, a)
              \/ StartTunnel \/ Stops
              \/ \E i \in Instances : UnitLoads(i) \/ UnitDies(i) \/ EditByHand(i)
              \/ UNCHANGED vars
       PROVE  SecretInv'
  <2>1. UNCHANGED <<config, key, overlooked>>
    BY <1>11 DEF Setup, Edit, Delete, Service, StartTunnel, Stops, UnitLoads, UnitDies,
       EditByHand, vars, files, disk, history
  <2>2. UNCHANGED <<op, temp>> \/ op'.pc \in {"wizard", "disable", "idle"}
    BY <1>11, OpMoves
  <2> QED BY <1>6, <2>1, <2>2
<1>12. ASSUME Reboot PROVE SecretInv'
  BY <1>6, <1>12, RebootKeeps DEF Idle
<1>13. ASSUME NEW p \in Instances, NEW k \in Keys,
              NewSecret(p, k) \/ \E force \in BOOLEAN : Keygen(p, k, force)
       PROVE  SecretInv'
  <2>1. UNCHANGED <<config, key, overlooked>>
    BY <1>13 DEF NewSecret, Keygen, WriteSecret, WriteTemp, disk, history
  <2> QED BY <1>13, <2>1, KeyIsNoConfig DEF SecretInv
<1>14. ASSUME Save PROVE SecretInv'
  <2>1. op'.pc = "sync" /\ op'.cfg = op.cfg /\ op.pc = "save" /\ UNCHANGED <<config, key, overlooked>>
    BY <1>14, SaveMoves
  <2> QED BY <2>1 DEF SecretInv
<1>15. ASSUME SyncTemp PROVE SecretInv'
  <2>1. op'.pc = "rename" /\ UNCHANGED <<config, key, overlooked>>
    BY <1>15, SyncMoves
  <2> QED BY <1>15, <2>1, SyncKeeps DEF SecretInv
<1>16. ASSUME RenameTemp PROVE SecretInv'
  BY <1>1, <1>3, <1>16, RenameMoves
<1> QED BY <1>2, <1>4, <1>5, <1>7, <1>8, <1>9, <1>10, <1>11, <1>12, <1>13, <1>14, <1>15, <1>16 DEF Next

\* Delete stops the unit before it removes the file, and nothing starts a
\* unit without a file.
LEMMA StopInvStep ==
  ASSUME AdminType, StopInv, [Next]_vars
  PROVE  StopInv'
<1> USE DEF AdminType
<1>1. ASSUME op.instance \in Instances, op.cfg \in Configurations,
             op'.pc = "start", op'.instance = op.instance,
             config' = [config EXCEPT ![op.instance] = op.cfg], UNCHANGED <<unit, enabled, stuck>>
      PROVE  StopInv'
  <2>1. config'[op.instance] # None
    BY <1>1, AdminAssumption DEF FilesType
  <2> QED BY <1>1, <2>1 DEF StopInv, Stopped, FilesType
<1>2. ASSUME DeleteDisables PROVE StopInv'
  <2>1. /\ op.pc = "disable" /\ op.instance \in Instances
        /\ op'.pc = "remove" /\ op'.instance = op.instance /\ config' = config
    BY <1>2, OpNames, GotoMoves DEF DeleteDisables, At, files, disk
  <2>2. Stopped(op.instance)' /\ \A i \in Instances : Stopped(i) => Stopped(i)'
    BY <1>2, <2>1 DEF DeleteDisables, StopUnit, Stopped, UnitsType, units
  <2> QED BY <2>1, <2>2 DEF StopInv
<1>3. ASSUME DeleteRemoves PROVE StopInv'
  <2>1. /\ op.pc = "remove" /\ op.instance \in Instances /\ op'.pc = "references"
        /\ config' = [config EXCEPT ![op.instance] = None]
        /\ UNCHANGED <<unit, enabled, stuck>>
    BY <1>3, OpNames, GotoMoves DEF DeleteRemoves, At, units
  <2> QED BY <2>1 DEF StopInv, Stopped, FilesType
<1>4. ASSUME config' = config,
             \A i \in Instances : config[i] = None /\ Stopped(i) => Stopped(i)',
             op' = op \/ op'.pc \notin {"remove", "start"},
             op' = op => UNCHANGED <<enabled, stuck>> /\ \A i \in Instances : unit[i] = "inactive" => unit'[i] = "inactive"
      PROVE  StopInv'
  <2>1. CASE op' = op
    <3>1. \A i \in Instances : Stopped(i) => Stopped(i)'
      BY <1>4, <2>1 DEF Stopped
    <3>2. op.pc = "remove" => op.instance \in Instances
      BY OpNames
    <3> QED BY <1>4, <2>1, <3>1, <3>2 DEF StopInv
  <2>2. CASE op'.pc \notin {"remove", "start"}
    BY <1>4, <2>2 DEF StopInv
  <2> QED BY <1>4, <2>1, <2>2
<1>5. ASSUME StartTunnel PROVE StopInv'
  <2>1. /\ op.pc = "start" /\ op.instance \in Instances /\ config[op.instance] # None
        /\ op'.pc = "idle" /\ config' = config /\ stuck' = stuck
    BY <1>5, OpNames DEF StartTunnel, At, Return, Idle, files, disk, history, StopInv
  <2>2. \A i \in Instances \ {op.instance} :
          unit'[i] = unit[i] /\ (i \in enabled' => i \in enabled)
    BY <1>5, <2>1 DEF StartTunnel, Restart, RestartUnit, EnableNow, StartUnit, UnitsType
  <2> QED BY <2>1, <2>2 DEF StopInv, Stopped
<1>6. ASSUME NEW j \in Instances, NEW a \in Actions, Service(j, a) PROVE StopInv'
  <2>1. config[j] # None /\ op'.pc = "idle" /\ config' = config /\ stuck' = stuck
    BY <1>6 DEF Service, Command, Idle, files, disk, history
  <2>2. \A i \in Instances \ {j} :
          unit'[i] = unit[i] /\ (i \in enabled' => i \in enabled)
    BY <1>6 DEF Service, Restart, RestartUnit, StopUnit, StartUnit, UnitsType
  <2> QED BY <2>1, <2>2 DEF StopInv, Stopped
<1>7. ASSUME NEW j \in Instances, UnitLoads(j) \/ UnitDies(j) PROVE StopInv'
  <2>1. /\ UNCHANGED <<config, enabled, stuck, op>>
        /\ \A i \in Instances : unit[i] = "inactive" => unit'[i] = "inactive"
    BY <1>7 DEF UnitLoads, UnitDies, RestartUnit, UnitsType, files, disk, history
  <2> QED BY <1>4, <2>1 DEF Stopped
<1>8. ASSUME Reboot PROVE StopInv'
  <2>1. UNCHANGED <<config, enabled, stuck>> /\ op'.pc = "idle"
    BY <1>8, RebootKeeps DEF Idle
  <2>2. \A i \in Instances : i \notin enabled => unit'[i] = "inactive"
    BY <1>8 DEF Reboot
  <2> QED BY <2>1, <2>2 DEF StopInv, Stopped
<1>9. ASSUME UNCHANGED <<config, unit, enabled, stuck>>,
             op' = op \/ op'.pc \notin {"remove", "start"}
      PROVE  StopInv'
  BY <1>4, <1>9 DEF Stopped
<1>10. ASSUME \/ \E d \in Dialogs : Answer(d)
              \/ \E p \in Instances : KeepSecret(p) \/ UseFile(p)
              \/ ValidateAnswers \/ DeleteLooks
       PROVE  StopInv'
  <2>0. UNCHANGED <<config, unit, enabled, stuck>> /\ op.pc # "idle"
    BY <1>10 DEF Answer, KeepSecret, UseFile, ValidateAnswers, DeleteLooks, At, files, disk,
       units, history
  <2>1. ASSUME op.pc \in {"wizard", "secret"} PROVE op \in WizardOps
    BY <2>1, OpIs
  <2>2. op'.pc \in {"secret", "validate", "save", "ask", "idle"}
    <3>1. CASE \E d \in Dialogs : Answer(d)
      <4>1. op \in WizardOps
        BY <2>1, <3>1 DEF Answer, At
      <4> QED BY <3>1, <4>1 DEF Answer, WizardOps
    <3>2. CASE \E p \in Instances : UseFile(p)
      <4>1. op \in WizardOps
        BY <2>1, <3>2 DEF UseFile, At
      <4> QED BY <3>2, <4>1 DEF UseFile, WizardOps
    <3>3. CASE (\E p \in Instances : KeepSecret(p)) \/ ValidateAnswers \/ DeleteLooks
      BY <2>0, <3>3, GotoMoves DEF KeepSecret, ValidateAnswers, DeleteLooks, Return, Idle
    <3> QED BY <1>10, <3>1, <3>2, <3>3
  <2> QED BY <1>9, <2>0, <2>2
<1>11. ASSUME \/ \E i \in Instances : Setup(i) \/ Edit(i) \/ Delete(i) \/ EditByHand(i)
              \/ DeleteSecret \/ Stops \/ UNCHANGED vars
       PROVE  StopInv'
  <2>1. UNCHANGED <<config, unit, enabled, stuck>>
    BY <1>11 DEF Setup, Edit, Delete, EditByHand, DeleteSecret, Stops, vars, files, disk, units, history
  <2>2. op' = op \/ op'.pc \in {"wizard", "disable", "idle"}
    BY <1>11, OpMoves
  <2> QED BY <1>9, <2>1, <2>2
<1>12. ASSUME \/ \E p \in Instances, k \in Keys : NewSecret(p, k) \/ \E force \in BOOLEAN : Keygen(p, k, force)
              \/ Save \/ SyncTemp
       PROVE  StopInv'
  <2>1. UNCHANGED <<config, unit, enabled, stuck>>
    BY <1>12 DEF NewSecret, Keygen, Save, SyncTemp, WriteSecret, WriteTemp, disk, units, history
  <2>2. op'.pc \in {"sync", "rename"}
    BY <1>12, KeyIsNoConfig, SaveMoves, SyncMoves
  <2> QED BY <1>9, <2>1, <2>2
<1>13. ASSUME RenameTemp PROVE StopInv'
  <2>1. CASE config' = config /\ op'.pc \in {"idle", "validate"}
    BY <1>9, <1>13, <2>1, RenameMoves
  <2> QED BY <1>1, <1>13, <2>1, RenameMoves DEF Idle
<1> QED BY <1>2, <1>3, <1>5, <1>6, <1>7, <1>8, <1>10, <1>11, <1>12, <1>13 DEF Next

Applied(i) ==
  unit[i] = "running" =>
    run[i].kept \/ (run[i].cfg = config[i] /\ run[i].key = key[config[i].secret])

\* A file that changes takes its tunnel out of the claim, and a tunnel comes
\* back into it only with a process that starts, or that is known to be old.
LEMMA ClaimInvStep ==
  ASSUME AdminType, ClaimInv, [Next]_vars
  PROVE  ClaimInv'
<1> USE DEF AdminType
<1>a. claimed \subseteq Instances /\ \A i \in claimed : Applied(i)
  BY DEF ClaimInv, EditApplies, Applied
<1>b. ASSUME claimed' \subseteq Instances, \A i \in claimed' : Applied(i)' PROVE ClaimInv'
  BY <1>b DEF ClaimInv, EditApplies, Applied
<1>c. \A i \in Instances : unit[i] = "running" => run[i] \in Runs /\ run[i].cfg # None /\ run[i].cfg # Torn
  BY AdminAssumption DEF UnitsType, Runs
<1>1. ASSUME NEW j \in Instances, claimed' = claimed \ {j}, UNCHANGED <<key, unit, run>>,
             \A i \in Instances \ {j} : config'[i] = config[i]
      PROVE  ClaimInv'
  BY <1>1, <1>a, <1>b DEF Applied
<1>2. ASSUME NEW p, NEW c, key' = [key EXCEPT ![p] = c], claimed' = claimed \ UsersOf(p),
             UNCHANGED <<config, unit, run>>
      PROVE  ClaimInv'
  <2>1. ASSUME NEW i \in claimed' PROVE Applied(i)'
    <3>1. i \in claimed /\ i \in Instances /\ i \notin UsersOf(p) /\ Applied(i)
      BY <1>2, <1>a
    <3>2. CASE config[i] = None
      BY <1>2, <1>c, <3>1, <3>2 DEF Applied
    <3>3. CASE config[i] # None
      <4>1. config[i] \notin {None, Torn} /\ config[i].secret \in Instances
        BY <3>1, <3>3, AdminAssumption DEF FilesType, Configurations
      <4>2. config[i].secret # p
        BY <3>1, <4>1 DEF UsersOf
      <4>3. key'[config[i].secret] = key[config[i].secret]
        BY <1>2, <4>1, <4>2 DEF FilesType
      <4> QED BY <1>2, <3>1, <4>3 DEF Applied
    <3> QED BY <3>2, <3>3
  <2> QED BY <1>2, <1>a, <1>b, <2>1
<1>3. ASSUME DeleteSecret PROVE ClaimInv'
  BY <1>2, <1>3 DEF DeleteSecret, units
<1>4. ASSUME NEW j \in Instances, UNCHANGED <<config, key>>, claimed' \subseteq claimed \cup {j},
             \A i \in Instances \ {j} : unit'[i] = unit[i] /\ run'[i] = run[i],
             unit'[j] # "running" \/ run'[j].kept \/ (claimed' = claimed /\ unit'[j] = unit[j] /\ run'[j] = run[j])
      PROVE  ClaimInv'
  BY <1>4, <1>a, <1>b DEF Applied
<1>5. ASSUME NEW j \in Instances, Restart(j) \/ EnableNow(j), UNCHANGED <<config, key>> PROVE ClaimInv'
  <2>1. CASE Restart(j)
    BY <1>4, <1>5, <2>1 DEF Restart, RestartUnit, UnitsType
  <2>2. CASE EnableNow(j) /\ unit[j] # "running"
    BY <1>4, <1>5, <2>2 DEF EnableNow, StartUnit, UnitsType
  <2>3. CASE EnableNow(j) /\ unit[j] = "running"
    <3>1. run' = [run EXCEPT ![j].kept = TRUE] /\ unit' = unit /\ claimed' = claimed \cup {j}
      BY <2>3 DEF EnableNow, StartUnit, UnitsType
    <3>2. run'[j].kept /\ \A i \in Instances \ {j} : run'[i] = run[i]
      BY <1>c, <2>3, <3>1 DEF UnitsType, Runs
    <3> QED BY <1>4, <1>5, <3>1, <3>2
  <2> QED BY <1>5, <2>1, <2>2, <2>3
<1>6. ASSUME StartTunnel PROVE ClaimInv'
  BY <1>5, <1>6, OpNames DEF StartTunnel, At, files, disk
<1>7. ASSUME NEW j \in Instances, NEW a \in Actions, Service(j, a) PROVE ClaimInv'
  <2>1. CASE Restart(j)
    BY <1>5, <1>7, <2>1 DEF Service, files, disk
  <2>2. CASE claimed' = claimed
    BY <1>4, <1>7, <2>2 DEF Service, StartUnit, StopUnit, Restart, RestartUnit, UnitsType, files, disk
  <2> QED BY <1>7, <2>1, <2>2 DEF Service
<1>8. ASSUME DeleteDisables PROVE ClaimInv'
  <2>1. op.instance \in Instances
    BY <1>8, OpNames DEF DeleteDisables, At
  <2> QED BY <1>4, <1>8, <2>1 DEF DeleteDisables, StopUnit, UnitsType, files, disk, units, history
<1>9. ASSUME NEW j \in Instances, UnitLoads(j) \/ UnitDies(j) PROVE ClaimInv'
  <2>1. UNCHANGED <<config, key, claimed>> /\ \A i \in Instances \ {j} : unit'[i] = unit[i] /\ run'[i] = run[i]
    BY <1>9 DEF UnitLoads, UnitDies, RestartUnit, files, disk, history, UnitsType
  <2>2. Applied(j)'
    <3>1. CASE UnitLoads(j)
      BY <2>1, <3>1 DEF UnitLoads, UnitsType, Applied
    <3>2. CASE UnitDies(j)
      BY <2>1, <3>2 DEF UnitDies, RestartUnit, UnitsType, Applied
    <3> QED BY <1>9, <3>1, <3>2
  <2> QED BY <1>a, <1>b, <2>1, <2>2 DEF Applied
<1>10. ASSUME Reboot PROVE ClaimInv'
  BY <1>10, <1>a, <1>b, RebootKeeps DEF Reboot, Applied
<1>11. ASSUME UNCHANGED <<config, key, unit, run, claimed>> PROVE ClaimInv'
  BY <1>11, <1>a, <1>b DEF Applied
<1>12. ASSUME DeleteRemoves PROVE ClaimInv'
  <2>1. op.instance \in Instances
    BY <1>12, OpNames DEF DeleteRemoves, At
  <2> QED BY <1>1, <1>12, <2>1 DEF DeleteRemoves, units, FilesType
<1>13. ASSUME RenameTemp PROVE ClaimInv'
  <2>1. UNCHANGED <<unit, run>>
    BY <1>13, RenameMoves
  <2>2. CASE /\ op.instance \in Instances /\ config' = [config EXCEPT ![op.instance] = op.cfg]
             /\ claimed' = claimed \ {op.instance} /\ key' = key
    BY <1>1, <2>1, <2>2 DEF FilesType
  <2>3. CASE /\ key' = [key EXCEPT ![temp.name] = temp.data]
             /\ claimed' = claimed \ UsersOf(temp.name) /\ config' = config
    BY <1>2, <2>1, <2>3
  <2> QED BY <1>13, <2>2, <2>3, RenameMoves
<1>14. ASSUME \/ \E p \in Instances, k \in Keys : NewSecret(p, k) \/ \E force \in BOOLEAN : Keygen(p, k, force)
              \/ Save \/ SyncTemp
       PROVE  ClaimInv'
  BY <1>11, <1>14 DEF NewSecret, Keygen, Save, SyncTemp, WriteSecret, WriteTemp, disk, units, history
<1> QED
  BY <1>3, <1>6, <1>7, <1>8, <1>9, <1>10, <1>11, <1>12, <1>13, <1>14
  DEF Next, vars, files, disk, units, history, Setup, Edit, Delete, Answer, KeepSecret, UseFile,
      ValidateAnswers, DeleteLooks, Stops, EditByHand

-----------------------------------------------------------------------------
\* The invariant holds in every behaviour of the control panel.
THEOREM AdminInvariance == Spec => []AdminInv
<1>1. Init => AdminInv
  BY DEF Init, AdminInv, AdminType, OpType, Idle, TempType, FilesType, UnitsType, FilesInv, SecretInv,
     Replacing, StopInv, Stopped, ClaimInv, EditApplies
<1>2. AdminInv /\ [Next]_vars => AdminInv'
  <2> SUFFICES ASSUME AdminInv, [Next]_vars PROVE AdminInv'
    OBVIOUS
  <2>1. AdminType'
    BY OpStep, TempStep, FilesStep, UnitsStep DEF AdminInv, AdminType
  <2>2. FilesInv' /\ SecretInv' /\ StopInv' /\ ClaimInv'
    BY FilesInvStep, SecretInvStep, StopInvStep, ClaimInvStep DEF AdminInv
  <2> QED BY <2>1, <2>2 DEF AdminInv
<1> QED BY <1>1, <1>2, PTL DEF Spec

\* Wherever the command is interrupted or the machine stops, a configuration
\* file that exists is whole and valid: Save follows Validate, writes and syncs
\* a temporary file, and renames it only then.
THEOREM SavedConfigsLoad == Spec => []ConfigsLoad
<1>1. AdminInv => ConfigsLoad
  BY AdminAssumption DEF AdminInv, AdminType, FilesType, FilesInv, ConfigsLoad
<1> QED BY <1>1, AdminInvariance, PTL

\* The secret file of every saved tunnel stays, unless the tunnel's own file
\* did not load when Delete looked for other users of it.
THEOREM SecretsStayUsable == Spec => []SecretsUsable
<1>1. AdminInv => SecretsUsable
  <2> SUFFICES ASSUME AdminInv, NEW i \in Instances, config[i] # None
               PROVE  ReadSecret(config[i].secret) \/ <<"secret", i>> \in overlooked
    BY DEF SecretsUsable
  <2>1. config[i].secret \in Instances
    BY DEF AdminInv, AdminType, FilesType, Configurations
  <2>2. key[config[i].secret] # Torn
    BY <2>1, AdminAssumption DEF AdminInv, AdminType, FilesType
  <2> QED BY <2>2 DEF AdminInv, SecretInv, ReadSecret
<1> QED BY <1>1, AdminInvariance, PTL

\* A unit outlives its configuration file only when systemctl failed to stop
\* it.
THEOREM DeletedStaysStopped == Spec => []DeletedIsStopped
<1>1. AdminInv => DeletedIsStopped
  BY DEF AdminInv, StopInv, Stopped, DeletedIsStopped
<1> QED BY <1>1, AdminInvariance, PTL

\* A tunnel reported started or restarted runs with the files as they are,
\* unless its unit had come up by itself while the wizard was open.
THEOREM EditsApply == Spec => []EditApplies
<1>1. AdminInv => EditApplies
  BY DEF AdminInv, ClaimInv
<1> QED BY <1>1, AdminInvariance, PTL

-----------------------------------------------------------------------------
(* Interface names.                                                         *)

\* There is a name for every tunnel: the code has a thousand, utun0 to
\* utun999, and falls back to the first when all are taken.
EnoughNames ==
  /\ IsFiniteSet(Instances) /\ Cardinality(Instances) =< Len(Ifaces)
  /\ \A m, n \in 1 .. Len(Ifaces) : Ifaces[m] = Ifaces[n] => m = n

\* i and j may share the name, because one of them was not seen.
Unseen(i, j) == <<"iface", i>> \in overlooked \/ <<"iface", j>> \in overlooked

\* The command in progress has given its tunnel a name.
Named == op.pc \in {"secret", "validate", "save"} \/ (op.pc \in {"sync", "rename"} /\ temp.next # "idle")

\* What the command in progress is about to save is apart from all others.
IfaceInv ==
  /\ \A i, j \in Instances :
       i # j /\ config[i] # None /\ config[j] # None /\ config[i].iface = config[j].iface
         => config[i].iface = "" \/ Unseen(i, j)
  /\ op.pc = "wizard" /\ op.cfg # None => config[op.instance] = op.cfg
  /\ Named =>
       \A j \in Instances \ {op.instance} :
         config[j] # None /\ config[j].iface = op.cfg.iface
           => op.cfg.iface = "" \/ Unseen(op.instance, j)

\* nextInterface finds a name that no other readable configuration has.
LEMMA NameIsFree ==
  ASSUME EnoughNames, NEW i \in Instances
  PROVE  nextInterface(i) \notin UsedIfaces(i)
<1> DEFINE free == {n \in 1 .. Len(Ifaces) : Ifaces[n] \notin UsedIfaces(i)}
<1>1. free # {}
  <2> SUFFICES ASSUME free = {} PROVE FALSE
    OBVIOUS
  <2> DEFINE others == Instances \ {i}
             user == [n \in 1 .. Len(Ifaces) |-> CHOOSE j \in others : config[j].iface = Ifaces[n]]
  <2>1. \A n \in 1 .. Len(Ifaces) : \E j \in others : config[j].iface = Ifaces[n]
    BY DEF UsedIfaces
  <2>2. \A n \in 1 .. Len(Ifaces) : user[n] \in others /\ config[user[n]].iface = Ifaces[n]
    BY <2>1
  <2>3. user \in [1 .. Len(Ifaces) -> others]
    BY <2>2
  <2>4. Len(Ifaces) \in Nat /\ IsFiniteSet(1 .. Len(Ifaces)) /\ Cardinality(1 .. Len(Ifaces)) = Len(Ifaces)
    BY FS_Interval, AdminAssumption
  <2>5. IsFiniteSet(others) /\ Cardinality(others) = Cardinality(Instances) - 1 /\ Cardinality(Instances) \in Nat
    BY FS_RemoveElement, FS_CardinalityType DEF EnoughNames
  <2>6. Cardinality(others) < Cardinality(1 .. Len(Ifaces))
    BY <2>4, <2>5 DEF EnoughNames
  <2> HIDE DEF others, user
  <2>7. PICK m, n \in 1 .. Len(Ifaces) : m # n /\ user[m] = user[n]
    BY <2>3, <2>4, <2>5, <2>6, FS_PigeonHole
  <2> QED BY <2>2, <2>7 DEF EnoughNames
<1>2. free \in SUBSET Nat
  OBVIOUS
<1>3. \E n \in free : \A m \in free : n =< m
  BY <1>1, <1>2, FirstExists
<1>4. (CHOOSE n \in free : \A m \in free : n =< m) \in free
  BY <1>3
<1> QED BY <1>1, <1>4 DEF nextInterface

\* The wizard gives a tunnel the name it has, none, or a free one.
LEMMA AnswerStep ==
  ASSUME EnoughNames, AdminType, FilesInv, IfaceInv, NEW d \in Dialogs, Answer(d)
  PROVE  IfaceInv'
<1>0. PICK i \in Instances : i = op.instance
  BY OpNames DEF Answer, At, AdminType
<1>c. PICK c : c = Wizard(i, op.cfg, d)
  OBVIOUS
<1>1. /\ op.pc = "wizard" /\ config' = config /\ broken' = broken
      /\ op' = [op EXCEPT !.pc = "secret", !.cfg = c]
      /\ overlooked' = IF d.l3 /\ ~HasInterface(op.cfg)
                          THEN overlooked \cup {"iface"} \X (broken \ {i}) ELSE overlooked
  BY <1>0, <1>c DEF Answer, At, files, disk
<1>2. op \in WizardOps
  BY <1>1, OpIs DEF AdminType
<1>3. op'.pc = "secret" /\ op'.instance = i /\ op'.cfg = c
  BY <1>0, <1>1, <1>2 DEF WizardOps
<1>4. c.iface = configureL3(i, op.cfg, d)
  BY <1>c DEF Wizard
<1>5. \A k, j \in Instances : Unseen(k, j) => Unseen(k, j)'
  BY <1>1 DEF Unseen
<1>6. ASSUME NEW j \in Instances \ {i}, config[j] # None, config[j].iface = c.iface, c.iface # ""
      PROVE  Unseen(i, j)'
  <2>1. d.l3
    BY <1>4, <1>6 DEF configureL3, HasInterface
  <2>2. CASE HasInterface(op.cfg)
    <3>1. c.iface = op.cfg.iface /\ config[i] = op.cfg
      BY <1>0, <1>1, <1>4, <2>1, <2>2 DEF configureL3, HasInterface, IfaceInv
    <3>2. Unseen(i, j)
      BY <1>6, <2>2, <3>1 DEF IfaceInv, HasInterface
    <3> QED BY <1>5, <1>6, <3>2
  <2>3. CASE ~HasInterface(op.cfg)
    <3>1. c.iface \notin UsedIfaces(i)
      BY <1>4, <2>1, <2>3, NameIsFree DEF configureL3
    <3>2. ~Loads(j)
      BY <1>6, <3>1 DEF UsedIfaces
    <3>3. Validate(config[j]) /\ config[j] # Torn
      BY <1>6, AdminAssumption DEF FilesInv, AdminType, FilesType
    <3>4. j \in broken
      BY <1>6, <3>2, <3>3 DEF Loads
    <3> QED BY <1>1, <1>6, <2>1, <2>3, <3>4 DEF Unseen
  <2> QED BY <2>2, <2>3
<1>7. \A k, j \in Instances :
        k # j /\ config'[k] # None /\ config'[j] # None /\ config'[k].iface = config'[j].iface
          => config'[k].iface = "" \/ Unseen(k, j)'
  BY <1>1, <1>5 DEF IfaceInv
<1>8. \A j \in Instances \ {i} : config'[j] # None /\ config'[j].iface = c.iface => c.iface = "" \/ Unseen(i, j)'
  BY <1>1, <1>6
<1> QED BY <1>3, <1>7, <1>8 DEF IfaceInv, Unseen, Named

\* Names change only where a configuration is saved or removed.
LEMMA IfaceInvStep ==
  ASSUME EnoughNames, AdminType, FilesInv, IfaceInv, [Next]_vars
  PROVE  IfaceInv'
<1> USE DEF AdminType
<1>0. PICK n : n = op.instance
  OBVIOUS
<1>1. ASSUME RenameTemp, temp.kind = "config" PROVE IfaceInv'
  <2>0. op.pc = "rename" /\ temp.next = "start"
    BY <1>1, RenameMoves DEF TempType, Temps
  <2>1. /\ Named /\ n \in Instances /\ op'.pc = "start"
        /\ config' = [config EXCEPT ![n] = op.cfg] /\ overlooked' = overlooked
    BY <1>0, <1>1, <2>0, RenameMoves DEF Named
  <2>2. config'[n] = op.cfg /\ \A j \in Instances \ {n} : config'[j] = config[j]
    BY <2>1 DEF FilesType
  <2>3. \A j \in Instances \ {n} :
          config[j] # None /\ config[j].iface = op.cfg.iface => op.cfg.iface = "" \/ Unseen(n, j)
    BY <1>0, <2>1 DEF IfaceInv
  <2>4. ASSUME NEW k \in Instances, NEW j \in Instances, k # j, config'[k] # None, config'[j] # None,
               config'[k].iface = config'[j].iface, config'[k].iface # ""
        PROVE  Unseen(k, j)
    <3>1. CASE k = n
      BY <2>2, <2>3, <2>4, <3>1
    <3>2. CASE j = n
      BY <2>2, <2>3, <2>4, <3>2 DEF Unseen
    <3>3. CASE k # n /\ j # n
      BY <2>2, <2>4, <3>3 DEF IfaceInv
    <3> QED BY <3>1, <3>2, <3>3
  <2>5. \A k, j \in Instances : Unseen(k, j) => Unseen(k, j)'
    BY <2>1 DEF Unseen
  <2> QED BY <2>1, <2>4, <2>5 DEF IfaceInv, Named
<1>2. ASSUME DeleteRemoves PROVE IfaceInv'
  <2>1. /\ op.pc = "remove" /\ n \in Instances /\ op'.pc = "references"
        /\ config' = [config EXCEPT ![n] = None]
        /\ overlooked' = overlooked \ ({"iface", "secret"} \X {n})
    BY <1>0, <1>2, OpNames, GotoMoves DEF DeleteRemoves, At
  <2>2. config'[n] = None /\ \A j \in Instances \ {n} : config'[j] = config[j]
    BY <2>1 DEF FilesType
  <2>3. \A k, j \in Instances \ {n} : Unseen(k, j) => Unseen(k, j)'
    BY <2>1 DEF Unseen
  <2> QED BY <2>1, <2>2, <2>3 DEF IfaceInv, Named
<1>3. ASSUME config' = config, overlooked \subseteq overlooked',
             \/ UNCHANGED <<op, temp>>
             \/ op'.pc # "wizard" /\ ~Named'
             \/ op'.pc = "wizard" /\ op'.cfg \in {None, config[op'.instance]}
             \/ /\ op'.pc # "wizard" /\ Named
                /\ op'.instance = op.instance /\ op'.cfg.iface = op.cfg.iface
      PROVE  IfaceInv'
  <2>1. \A k, j : Unseen(k, j) => Unseen(k, j)'
    BY <1>3 DEF Unseen
  <2>2. \A k, j \in Instances :
          k # j /\ config'[k] # None /\ config'[j] # None /\ config'[k].iface = config'[j].iface
            => config'[k].iface = "" \/ Unseen(k, j)'
    BY <1>3, <2>1 DEF IfaceInv
  <2>3. op'.pc = "wizard" /\ op'.cfg # None => config'[op'.instance] = op'.cfg
    BY <1>3 DEF IfaceInv
  <2>4. ASSUME Named'
        PROVE  Named /\ op'.instance = op.instance /\ op'.cfg.iface = op.cfg.iface
    BY <1>3, <2>4 DEF Named
  <2>5. ASSUME Named', NEW j \in Instances \ {n},
               config[j] # None, config[j].iface = op.cfg.iface, op.cfg.iface # ""
        PROVE  Unseen(n, j)'
    BY <1>0, <2>1, <2>4, <2>5 DEF IfaceInv
  <2>6. Named' =>
          /\ op'.instance = n
          /\ \A j \in Instances \ {n} :
               config'[j] # None /\ config'[j].iface = op'.cfg.iface => op'.cfg.iface = "" \/ Unseen(n, j)'
    BY <1>0, <1>3, <2>4, <2>5
  <2> QED BY <2>2, <2>3, <2>6 DEF IfaceInv, Unseen
<1>4. ASSUME NEW p \in Instances, KeepSecret(p) \/ UseFile(p) PROVE IfaceInv'
  <2>1. op.pc = "secret" /\ config' = config /\ overlooked' = overlooked
    BY <1>4 DEF KeepSecret, UseFile, At, files, disk, history
  <2>2. op \in WizardOps /\ op.cfg \in Configurations
    BY <2>1, OpIs DEF OpType
  <2>3. op'.pc = "validate" /\ op'.instance = op.instance /\ op'.cfg.iface = op.cfg.iface
    <3>1. CASE KeepSecret(p)
      BY <2>1, <2>2, <3>1, GotoMoves DEF KeepSecret
    <3>2. CASE UseFile(p)
      <4>1. op' = [op EXCEPT !.pc = "validate", !.cfg = [op.cfg EXCEPT !.secret = p]]
        BY <2>2, <3>2 DEF UseFile, WizardOps
      <4>2. op'.pc = "validate" /\ op'.instance = op.instance /\ op'.cfg = [op.cfg EXCEPT !.secret = p]
        BY <2>2, <4>1 DEF WizardOps
      <4>3. [op.cfg EXCEPT !.secret = p].iface = op.cfg.iface
        BY <2>2 DEF Configurations
      <4> QED BY <4>2, <4>3
    <3> QED BY <1>4, <3>1, <3>2
  <2> QED BY <1>3, <2>1, <2>3 DEF Named
<1>5. ASSUME ValidateAnswers PROVE IfaceInv'
  <2>1. op.pc = "validate" /\ config' = config /\ overlooked' = overlooked /\ op \in WizardOps
    BY <1>5, OpIs DEF ValidateAnswers, At, files, disk, history
  <2>2. op'.pc = "idle" \/ (op'.pc = "save" /\ op'.instance = op.instance /\ op'.cfg = op.cfg)
    BY <1>5, <2>1, GotoMoves DEF ValidateAnswers, Return, Idle
  <2> QED BY <1>3, <2>1, <2>2 DEF Named
<1>6. ASSUME DeleteDisables \/ DeleteLooks PROVE IfaceInv'
  <2>1. config' = config /\ overlooked \subseteq overlooked' /\ op'.pc \in {"remove", "ask", "idle"}
    BY <1>6, GotoMoves DEF DeleteDisables, DeleteLooks, At, Return, Idle, files, disk, history
  <2> QED BY <1>3, <2>1 DEF Named
<1>7. ASSUME NEW j \in Instances, Setup(j) \/ Edit(j) PROVE IfaceInv'
  <2>1. config' = config /\ overlooked' = overlooked
    BY <1>7 DEF Setup, Edit, files, disk, history
  <2>2. op'.pc = "wizard" /\ op'.cfg \in {None, config[op'.instance]}
    <3>1. CASE Setup(j)
      BY <3>1 DEF Setup, Command
    <3>2. CASE Edit(j)
      BY <3>2 DEF Edit, Command
    <3> QED BY <1>7, <3>1, <3>2
  <2> QED BY <1>3, <2>1, <2>2
<1>8. ASSUME \/ \E j \in Instances : Delete(j) \/ \E a \in Actions : Service(j, a)
             \/ StartTunnel \/ DeleteSecret \/ Stops
             \/ \E j \in Instances : UnitLoads(j) \/ UnitDies(j) \/ EditByHand(j)
             \/ UNCHANGED vars
      PROVE  IfaceInv'
  <2>1. config' = config /\ overlooked' = overlooked
    BY <1>8 DEF Delete, Service, StartTunnel, DeleteSecret, Stops, UnitLoads, UnitDies,
       EditByHand, vars, files, disk, history
  <2>2. UNCHANGED <<op, temp>> \/ op'.pc \in {"disable", "idle"}
    BY <1>8, OpMoves
  <2> QED BY <1>3, <2>1, <2>2 DEF Named
<1>9. ASSUME Reboot PROVE IfaceInv'
  <2>1. UNCHANGED <<config, overlooked>> /\ op'.pc = "idle"
    BY <1>9, RebootKeeps DEF Idle
  <2> QED BY <1>3, <2>1 DEF Named
<1>10. ASSUME NEW p \in Instances, NEW k \in Keys, NewSecret(p, k) PROVE IfaceInv'
  <2>1. Named
    BY <1>10, NewSecretMoves DEF Named
  <2>2. /\ UNCHANGED <<config, overlooked>> /\ op'.pc = "sync"
        /\ op'.instance = op.instance /\ op'.cfg.iface = op.cfg.iface
    BY <1>10, NewSecretMoves
  <2> QED BY <1>3, <2>1, <2>2
<1>11. ASSUME NEW p \in Instances, NEW k \in Keys, NEW force \in BOOLEAN, Keygen(p, k, force) PROVE IfaceInv'
  <2>1. op'.pc = "sync" /\ temp'.next = "idle" /\ UNCHANGED <<config, overlooked>>
    BY <1>11 DEF Keygen, Command, WriteSecret, WriteTemp, disk, history
  <2> QED BY <1>3, <2>1 DEF Named
<1>12. ASSUME Save PROVE IfaceInv'
  <2>1. Named
    BY <1>12, SaveMoves DEF Named
  <2>2. UNCHANGED <<config, overlooked>> /\ op'.pc = "sync" /\ op'.instance = op.instance /\ op'.cfg = op.cfg
    BY <1>12, SaveMoves
  <2> QED BY <1>3, <2>1, <2>2
<1>13. ASSUME SyncTemp PROVE IfaceInv'
  <2>1. UNCHANGED <<config, overlooked>> /\ op'.pc = "rename" /\ op'.instance = op.instance
    BY <1>13, SyncMoves
  <2>2. Named' => Named /\ op'.cfg = op.cfg
    BY <1>13, SyncMoves DEF Named, TempType
  <2> QED BY <1>3, <2>1, <2>2
<1>14. ASSUME RenameTemp, temp.kind # "config" PROVE IfaceInv'
  <2>1. UNCHANGED <<config, overlooked>> /\ op.pc = "rename"
    BY <1>14, RenameMoves
  <2>2. \/ op' = Idle
        \/ temp.next = "validate" /\ op'.pc = "validate" /\ op'.instance = op.instance /\ op'.cfg = op.cfg
    BY <1>14, RenameMoves
  <2>3. CASE op' = Idle
    BY <1>3, <2>1, <2>3 DEF Named, Idle
  <2>4. CASE temp.next = "validate" /\ op'.pc = "validate" /\ op'.instance = op.instance /\ op'.cfg = op.cfg
    <3>1. Named
      BY <2>1, <2>4 DEF Named
    <3> QED BY <1>3, <2>1, <2>4, <3>1
  <2> QED BY <2>2, <2>3, <2>4
<1> QED
  BY <1>1, <1>2, <1>4, <1>5, <1>6, <1>7, <1>8, <1>9, <1>10, <1>11, <1>12, <1>13, <1>14, AnswerStep DEF Next

\* With a name for every tunnel, no two saved tunnels share a proposed
\* interface, unless the file of one of them did not load when nextInterface
\* looked at the others.
THEOREM InterfacesStayDistinct ==
  ASSUME EnoughNames
  PROVE  Spec => []InterfacesDistinct
<1>1. Init => IfaceInv
  BY DEF Init, Idle, IfaceInv, Named
<1>2. AdminInv /\ IfaceInv /\ [Next]_vars => IfaceInv'
  BY IfaceInvStep DEF AdminInv
<1>3. AdminInv /\ IfaceInv => InterfacesDistinct
  <2> SUFFICES ASSUME AdminInv, IfaceInv, NEW i \in Instances, NEW j \in Instances, i # j,
                      config[i] # None, config[j] # None, config[i].iface = config[j].iface,
                      config[i].iface # ""
               PROVE  ({"iface"} \X {i, j}) \cap overlooked # {}
    BY DEF InterfacesDistinct
  <2>1. Unseen(i, j)
    BY DEF IfaceInv
  <2>2. <<"iface", i>> \in {"iface"} \X {i, j} /\ <<"iface", j>> \in {"iface"} \X {i, j}
    OBVIOUS
  <2> QED BY <2>1, <2>2 DEF Unseen
<1> QED BY <1>1, <1>2, <1>3, AdminInvariance, PTL DEF Spec
=============================================================================
