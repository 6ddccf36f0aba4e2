-------------------------------- MODULE Admin --------------------------------
(***************************************************************************)
(* The control panel of internal/admin/admin.go with the files of          *)
(* internal/config/config.go and the units systemd runs: Setup, Edit,      *)
(* Delete, Service and keygen, one command at a time, against units that   *)
(* start, die and are restarted, an operator who interrupts a command or   *)
(* breaks a file by hand, and a machine that reboots.                      *)
(*                                                                         *)
(* A file is replaced by writing a temporary one, syncing it and renaming  *)
(* it.  What was written and not synced is torn when the machine stops;    *)
(* renames survive in the order in which they were made.  A temporary file *)
(* that is left behind has a name nothing reads.  An address is abstracted *)
(* to what the validation tells apart: none, an unspecified host, a host   *)
(* that can be dialled, or one that does not parse.                        *)
(***************************************************************************)
EXTENDS Integers, Sequences

CONSTANTS Instances,   \* tunnel names
          Keys,        \* secrets
          Ifaces,      \* utun0, utun1, ..., in order
          Dialogs,     \* what the operator may answer to the wizard
          MaxCommands, \* bound of the model: commands issued
          None, Torn   \* no file or nothing loaded; a file written in part

Addresses == {"", "any", "host", "bad"}
Kinds == {"tcp", "udp"}
AllDialogs ==
  [role : {"server", "client"}, node : STRING, peer : STRING, mode : Kinds \cup {"both"},
   prefer : Kinds, addr : Addresses, l3 : BOOLEAN,
   services : SUBSET Addresses, forwards : SUBSET Addresses]

\* What a file holds; a secret file is named after an instance.
Configurations ==
  [node : STRING, peer : STRING, role : {"server", "client"}, mode : Kinds \cup {"both"},
   prefer : Kinds, listen : [Kinds -> Addresses], connect : [Kinds -> Addresses],
   iface : {""} \cup STRING, services : SUBSET Addresses, forwards : SUBSET Addresses,
   secret : Instances]

ASSUME AdminAssumption ==
  /\ Dialogs \subseteq AllDialogs
  /\ Ifaces \in Seq(STRING) /\ Len(Ifaces) > 0 /\ MaxCommands \in Nat
  /\ None # Torn /\ {None, Torn} \cap (Keys \cup Configurations) = {}

VARIABLES
  config,    \* content of each instance's JSON file
  broken,    \* instances whose file was made unreadable by hand
  key,       \* content of each secret file; a path is named after its instance
  temp,      \* the temporary file of the command in progress, and where it goes
  unsynced,  \* <<kind, name>> of the files whose content is not on the disk yet
  enabled,   \* units enabled at boot
  unit,      \* state of each unit: "inactive", "starting", "running" or "failed"
  run,       \* what each running process loaded: its configuration and secret,
             \* and (history) whether it was already up when it was to be started
  op,        \* the command in progress
  commands,  \* commands issued
  claimed,   \* history: instances reported (re)started since their files changed
  overlooked, \* history: <<"iface", i>> and <<"secret", i>> when the file of i did not
              \* load as a command looked for used interfaces, or users of a secret
  stuck      \* history: instances whose unit Delete could not stop

disk == <<config, broken, key, unsynced>>
files == <<disk, temp>>
units == <<enabled, unit, run>>
history == <<claimed, overlooked, stuck>>
vars == <<files, units, op, commands, history>>

Idle == [pc |-> "idle"]

-----------------------------------------------------------------------------
(* Reading and validating.                                                 *)

validateListenAddress(a) == a \in {"any", "host"}
validateDialAddress(a) == a = "host"

Needs(mode, k) == mode \in {k, "both"}

validateTransport(c) ==
  /\ c.mode # "both" => c.prefer = c.mode
  /\ \A k \in Kinds :
       Needs(c.mode, k) =>
         IF c.role = "server" THEN validateListenAddress(c.listen[k])
                              ELSE validateDialAddress(c.connect[k])

\* The interface, its address and MTU, the routes and the identifiers are
\* checked while they are entered; what is left are the two names and the
\* addresses.
Validate(c) ==
  /\ c.node # c.peer
  /\ validateTransport(c)
  /\ \A a \in c.services : validateDialAddress(a)
  /\ \A a \in c.forwards : validateListenAddress(a)

\* config.Load succeeds.
Loads(i) == config[i] \notin {None, Torn} /\ i \notin broken /\ Validate(config[i])

\* config.ReadSecret succeeds.
ReadSecret(p) == key[p] \notin {None, Torn}

\* Mutant: only the devices that exist are looked at.
RunningIfaces(i) == {config[j].iface : j \in {j \in Instances \ {i} : Loads(j) /\ unit[j] = "running"}}

\* nextInterface: the first name no other readable configuration uses, or
\* the first of all.
UsedIfaces(i) == {config[j].iface : j \in {j \in Instances \ {i} : Loads(j)}}

nextInterface(i) ==
  LET free == {n \in 1 .. Len(Ifaces) : Ifaces[n] \notin UsedIfaces(i)}
  IN IF free = {} THEN Ifaces[1] ELSE Ifaces[CHOOSE n \in free : \A m \in free : n =< m]

-----------------------------------------------------------------------------
(* The wizard.                                                             *)

\* configureTransport: the address goes to the endpoints the role and the
\* mode need, all others are cleared.
Endpoints(d, role) ==
  [k \in Kinds |-> IF d.role = role /\ Needs(d.mode, k) THEN d.addr ELSE ""]

HasInterface(current) == current # None /\ current.iface # ""

\* configureL3: a tunnel keeps its interface, a new one is proposed a free one.
configureL3(i, current, d) ==
  IF ~d.l3 THEN "" ELSE IF HasInterface(current) THEN current.iface ELSE nextInterface(i)

Wizard(i, current, d) ==
  [node |-> d.node, peer |-> d.peer, role |-> d.role, mode |-> d.mode,
   prefer |-> IF d.mode = "both" THEN d.prefer ELSE d.mode,
   listen |-> Endpoints(d, "server"), connect |-> Endpoints(d, "client"),
   iface |-> configureL3(i, current, d), services |-> d.services, forwards |-> d.forwards,
   secret |-> IF current = None THEN i ELSE current.secret]

-----------------------------------------------------------------------------
Init ==
  /\ config = [i \in Instances |-> None] /\ broken = {}
  /\ key = [p \in Instances |-> None] /\ temp = None /\ unsynced = {}
  /\ enabled = {} /\ unit = [i \in Instances |-> "inactive"] /\ run = [i \in Instances |-> None]
  /\ op = Idle /\ commands = 0
  /\ claimed = {} /\ overlooked = {} /\ stuck = {}

Command(o) == op.pc = "idle" /\ commands < MaxCommands /\ op' = o /\ commands' = commands + 1
At(pc) == op.pc = pc /\ UNCHANGED commands
Goto(pc) == op' = [op EXCEPT !.pc = pc]
Return == op' = Idle

-----------------------------------------------------------------------------
(* Replacing a file: the same steps in config.Save and config.WriteSecret, *)
(* after which the command goes on at `next`.                              *)

\* CreateTemp and Write.  A write that fails half way ends the command.
WriteTemp(kind, name, data, next) ==
  /\ temp' = [kind |-> kind, name |-> name, data |-> data, synced |-> FALSE, next |-> next]
  /\ UNCHANGED disk

\* The beginning of WriteSecret.
WriteSecret(p, k, next) == WriteTemp("key", p, k, next)

\* Mutant: the file is closed without being synced.
SyncNothing ==
  /\ At("sync") /\ Goto("rename")
  /\ UNCHANGED <<files, units, history>>

SyncTemp ==
  /\ At("sync") /\ Goto("rename")
  /\ temp' = [temp EXCEPT !.synced = TRUE]
  /\ UNCHANGED <<disk, units, history>>

UsersOf(p) == {i \in Instances : config[i] \notin {None, Torn} /\ config[i].secret = p}

\* The temporary file takes the place, and the name, of the one it replaces.
RenameTemp ==
  /\ At("rename")
  /\ \/ /\ temp.kind = "config"
        /\ config' = [config EXCEPT ![temp.name] = temp.data]
        /\ broken' = broken \ {temp.name} /\ claimed' = claimed \ {temp.name}
        /\ UNCHANGED key
     \/ /\ temp.kind = "key"
        /\ key' = [key EXCEPT ![temp.name] = temp.data] /\ claimed' = claimed \ UsersOf(temp.name)
        /\ UNCHANGED <<config, broken>>
  /\ LET target == {<<temp.kind, temp.name>>}
     IN unsynced' = IF temp.synced THEN unsynced \ target ELSE unsynced \cup target
  /\ temp' = None
  /\ IF temp.next = "idle" THEN Return ELSE Goto(temp.next)
  /\ UNCHANGED <<units, overlooked, stuck>>

-----------------------------------------------------------------------------
(* Setup and Edit.                                                         *)

\* Setup refuses a name that has a file, whatever is in it.
Setup(i) ==
  /\ config[i] = None
  /\ Command([pc |-> "wizard", instance |-> i, editing |-> FALSE, active |-> FALSE,
              cfg |-> None])
  /\ UNCHANGED <<files, units, history>>

\* Edit needs a file that loads, and asks systemd once, before the wizard,
\* whether the unit is active.
Edit(i) ==
  /\ Loads(i)
  /\ Command([pc |-> "wizard", instance |-> i, editing |-> TRUE, active |-> unit[i] = "running",
              cfg |-> config[i]])
  /\ UNCHANGED <<files, units, history>>

\* The questions up to the secret.
Answer(d) ==
  /\ At("wizard")
  /\ op' = [op EXCEPT !.pc = "secret", !.cfg = Wizard(op.instance, op.cfg, d)]
  /\ overlooked' = IF d.l3 /\ ~HasInterface(op.cfg)
                      THEN overlooked \cup {"iface"} \X (broken \ {op.instance}) ELSE overlooked
  /\ UNCHANGED <<files, units, claimed, stuck>>

\* configureSecret: "keep" while editing, or another existing file.
KeepSecret(p) ==
  /\ At("secret")
  /\ op.editing /\ p = op.cfg.secret
  /\ ReadSecret(p)
  /\ Goto("validate")
  /\ UNCHANGED <<files, units, history>>

UseFile(p) ==
  /\ At("secret") /\ ReadSecret(p)
  /\ op' = [op EXCEPT !.pc = "validate", !.cfg.secret = p]
  /\ UNCHANGED <<files, units, history>>

\* A pasted secret replaces the file without a question, a generated one
\* after a question.
NewSecret(p, k) ==
  /\ At("secret")
  /\ WriteSecret(p, k, "validate")
  /\ op' = [op EXCEPT !.pc = "sync", !.cfg.secret = p]
  /\ UNCHANGED <<units, history>>

\* wizard's last step; the secret has been written by now.
ValidateAnswers ==
  /\ At("validate")
  /\ IF Validate(op.cfg) THEN Goto("save") ELSE Return
  /\ UNCHANGED <<files, units, history>>

\* config.Save; a generated secret is shown after it.
Save ==
  /\ At("save")
  /\ WriteTemp("config", op.instance, op.cfg, "start")
  /\ Goto("sync")
  /\ UNCHANGED <<units, history>>

-----------------------------------------------------------------------------
(* systemctl (external): a unit that runs is left alone by "start", and    *)
(* "restart" makes it load its files again.                                *)

StartUnit(i) == unit' = [unit EXCEPT ![i] = IF @ = "running" THEN @ ELSE "starting"]
RestartUnit(i) == unit' = [unit EXCEPT ![i] = "starting"] /\ run' = [run EXCEPT ![i] = None]
StopUnit(i) == unit' = [unit EXCEPT ![i] = "inactive"] /\ run' = [run EXCEPT ![i] = None]

\* systemctl enable --now succeeds.  A unit that already runs goes on with
\* what it loaded.
EnableNow(i) ==
  /\ enabled' = enabled \cup {i}
  /\ StartUnit(i)
  /\ run' = IF unit[i] = "running" THEN [run EXCEPT ![i].kept = TRUE] ELSE run
  /\ claimed' = claimed \cup {i}

\* Mutant: an active unit is merely started.
RestartStarts(i) == StartUnit(i) /\ claimed' = claimed \cup {i} /\ UNCHANGED <<enabled, run>>

\* Service(instance, "restart").
Restart(i) ==
  /\ RestartUnit(i)
  /\ claimed' = claimed \cup {i}
  /\ UNCHANGED enabled

\* The last question of Setup and Edit, answered with yes: an active unit is
\* restarted, any other is enabled and started.
StartTunnel ==
  /\ At("start")
  /\ IF op.active THEN Restart(op.instance) ELSE EnableNow(op.instance)
  /\ Return
  /\ UNCHANGED <<files, overlooked, stuck>>

-----------------------------------------------------------------------------
(* Delete.                                                                 *)

\* Mutant: the file goes first.
DeleteRemovesFirst(i) ==
  /\ Loads(i)
  /\ Command([pc |-> "disable", instance |-> i, secret |-> config[i].secret])
  /\ config' = [config EXCEPT ![i] = None]
  /\ UNCHANGED <<broken, key, temp, unsynced, units, history>>

Delete(i) ==
  /\ Loads(i)
  /\ Command([pc |-> "disable", instance |-> i, secret |-> config[i].secret])
  /\ UNCHANGED <<files, units, history>>

\* systemctl disable --now; Delete goes on when it fails.
DeleteDisables ==
  /\ At("disable")
  /\ \/ StopUnit(op.instance) /\ enabled' = enabled \ {op.instance} /\ stuck' = stuck \ {op.instance}
     \/ stuck' = stuck \cup {op.instance} /\ UNCHANGED units
  /\ Goto("remove")
  /\ UNCHANGED <<files, claimed, overlooked>>

DeleteRemoves ==
  /\ At("remove")
  /\ config' = [config EXCEPT ![op.instance] = None] /\ broken' = broken \ {op.instance}
  /\ claimed' = claimed \ {op.instance} /\ overlooked' = overlooked \ ({"iface", "secret"} \X {op.instance})
  /\ Goto("references")
  /\ UNCHANGED <<key, temp, unsynced, units, stuck>>

\* Mutant: any other file is taken to be unrelated.
secretReferencedNowhere(p, i) == FALSE

secretReferencedElsewhere(p, i) == \E j \in Instances \ {i} : Loads(j) /\ config[j].secret = p

\* Without another user of the secret the operator is asked about it.
DeleteLooks ==
  /\ At("references")
  /\ IF secretReferencedElsewhere(op.secret, op.instance) THEN Return ELSE Goto("ask")
  /\ overlooked' = overlooked \cup {"secret"} \X broken
  /\ UNCHANGED <<files, units, claimed, stuck>>

DeleteSecret ==
  /\ At("ask")
  /\ key' = [key EXCEPT ![op.secret] = None] /\ claimed' = claimed \ UsersOf(op.secret)
  /\ Return
  /\ UNCHANGED <<config, broken, temp, unsynced, units, overlooked, stuck>>

-----------------------------------------------------------------------------
(* Service, which is over in one step, and keygen.                         *)

Service(i, action) ==
  /\ config[i] # None /\ Command(Idle)
  /\ \/ action = "start" /\ StartUnit(i) /\ UNCHANGED <<enabled, run, claimed>>
     \/ action = "stop" /\ StopUnit(i) /\ UNCHANGED <<enabled, claimed>>
     \/ action = "restart" /\ Restart(i)
     \/ action = "enable" /\ enabled' = enabled \cup {i} /\ UNCHANGED <<unit, run, claimed>>
     \/ action = "disable" /\ enabled' = enabled \ {i} /\ UNCHANGED <<unit, run, claimed>>
  /\ UNCHANGED <<files, overlooked, stuck>>

Keygen(p, k, force) ==
  /\ Command([pc |-> "sync", instance |-> p])
  /\ key[p] = None \/ force
  /\ WriteSecret(p, k, "idle")
  /\ UNCHANGED <<units, history>>

-----------------------------------------------------------------------------
(* Everything else.                                                        *)

\* The command ends early: a prompt or a system call fails, the operator
\* declines or interrupts it.  A temporary file is removed or never read.
Stops ==
  /\ op.pc # "idle" /\ Return
  /\ temp' = None
  /\ UNCHANGED <<disk, units, commands, history>>

\* ExecStartPre and ExecStart load the files (runCommand, checkCommand).  A
\* unit that fails is started again until it reaches the start limit.
UnitLoads(i) ==
  /\ unit[i] = "starting"
  /\ IF Loads(i) /\ ReadSecret(config[i].secret)
       THEN /\ unit' = [unit EXCEPT ![i] = "running"]
            /\ run' = [run EXCEPT ![i] = [cfg |-> config[i], key |-> key[config[i].secret], kept |-> FALSE]]
       ELSE \E s \in {"starting", "failed"} : unit' = [unit EXCEPT ![i] = s] /\ UNCHANGED run
  /\ UNCHANGED <<files, enabled, op, commands, history>>

\* The process fails and systemd starts it again.
UnitDies(i) ==
  /\ unit[i] = "running"
  /\ RestartUnit(i)
  /\ UNCHANGED <<files, enabled, op, commands, history>>

\* The operator breaks a file with an editor, and mends it.
EditByHand(i) ==
  /\ config[i] # None
  /\ broken' = IF i \in broken THEN broken \ {i} ELSE broken \cup {i}
  /\ UNCHANGED <<config, key, temp, unsynced, units, op, commands, history>>

\* What a file holds after the machine has stopped.
Surviving(kind, file) ==
  [i \in Instances |-> IF file[i] # None /\ <<kind, i>> \in unsynced THEN Torn ELSE file[i]]

\* The machine stops at any moment and boots again.
Reboot ==
  /\ commands < MaxCommands
  /\ Return /\ commands' = commands + 1
  /\ config' = Surviving("config", config) /\ key' = Surviving("key", key)
  /\ temp' = None /\ unsynced' = {}
  /\ unit' = [i \in Instances |-> IF i \in enabled THEN "starting" ELSE "inactive"]
  /\ run' = [i \in Instances |-> None]
  /\ UNCHANGED <<broken, enabled, history>>

Actions == {"start", "stop", "restart", "enable", "disable"}

Next ==
  \/ \E i \in Instances : Setup(i) \/ Edit(i) \/ Delete(i) \/ \E a \in Actions : Service(i, a)
  \/ \E d \in Dialogs : Answer(d)
  \/ \E p \in Instances : KeepSecret(p) \/ UseFile(p) \/ \E k \in Keys : NewSecret(p, k)
  \/ \E p \in Instances, k \in Keys, force \in BOOLEAN : Keygen(p, k, force)
  \/ ValidateAnswers \/ Save \/ SyncTemp \/ RenameTemp \/ StartTunnel
  \/ DeleteDisables \/ DeleteRemoves \/ DeleteLooks \/ DeleteSecret
  \/ \E i \in Instances : UnitLoads(i) \/ UnitDies(i) \/ EditByHand(i)
  \/ Stops \/ Reboot

Spec == Init /\ [][Next]_vars

-----------------------------------------------------------------------------
(* Properties.                                                             *)

\* "Atomic saving" (CHANGELOG.md): whatever is interrupted, and wherever in
\* Save the machine stops, a configuration file that exists is one that was
\* written whole and that Validate accepts: a tunnel is never lost to its own
\* editor.
ConfigsLoad ==
  \A i \in Instances : config[i] # None => config[i] # Torn /\ Validate(config[i])

\* "If another tunnel uses the same secret, the secret file is not deleted"
\* (README.md): the secret file of every saved tunnel is there and whole at
\* any moment, unless the tunnel's own file did not load when Delete looked.
SecretsUsable ==
  \A i \in Instances :
    config[i] \notin {None, Torn} => ReadSecret(config[i].secret) \/ <<"secret", i>> \in overlooked

\* "Delete stops and disables the service and removes the configuration"
\* (README.md): a unit outlives its file only when systemctl failed.
DeletedIsStopped ==
  \A i \in Instances :
    config[i] = None => (unit[i] = "inactive" /\ i \notin enabled) \/ i \in stuck

\* "Automatic selection of an unused default TUN interface name"
\* (CHANGELOG.md): tunnels with proposed names never share an interface,
\* unless the file of one of them did not load when the name was chosen.
InterfacesDistinct ==
  \A i, j \in Instances :
    i # j /\ {config[i], config[j]} \cap {None, Torn} = {} /\ config[i].iface = config[j].iface
      => config[i].iface = "" \/ ({"iface"} \X {i, j}) \cap overlooked # {}

\* A tunnel that was reported started or restarted with new files runs with
\* them, unless its unit was already up when Setup or Edit enabled it: it had
\* come up by itself while the wizard was open, or a Delete had failed to stop
\* it before the tunnel was set up anew.
EditApplies ==
  \A i \in claimed :
    unit[i] = "running" =>
      run[i].kept \/ (run[i].cfg = config[i] /\ run[i].key = key[config[i].secret])
=============================================================================
