---------------------------- MODULE SashiDaemon ----------------------------
(***************************************************************************)
(* The Sashimono lifecycle daemon (src/src/hp_manager.cpp and the request  *)
(* dispatch of src/src/comm/comm_handler.cpp).                             *)
(*                                                                         *)
(* The daemon serves one socket request at a time on its message thread,   *)
(* so each request handler is one atomic action here.  Every external     *)
(* step a handler makes (install/uninstall script, docker command, sqlite  *)
(* write) may fail; the outcome is chosen nondeterministically and the     *)
(* handler's own error and rollback path is followed.                      *)
(*                                                                         *)
(* State kept:                                                             *)
(*   inst          rows of the instances table (name -> ports, status)     *)
(*   users         OS users made by the install script (name -> ports)     *)
(*   dockerUp      containers the runtime is running                      *)
(*   vacant_ports, last_assigned_ports, last_port_assign_from_vacant       *)
(*                 the port allocator's globals                           *)
(*   reply         the type of the last reply sent on the socket          *)
(***************************************************************************)
EXTENDS Integers, Sequences, FiniteSets, SequencesExt, TLC

CONSTANTS
  Names,          \* container names a client may ask for
  MaxInstances,   \* conf::cfg.system.max_instance_count
  InitPorts,      \* [peer, user, tcp, udp] of conf::cfg.hp.init_*_port
  InitRows,       \* the instances table when the daemon first starts
  StepsMayFail,   \* whether scripts, docker and sqlite steps may fail
  NoName          \* reply carries no container name

ASSUME MaxInstances \in Nat \ {0}
ASSUME StepsMayFail \in BOOLEAN

VARIABLES inst, users, dockerUp, vacant_ports, last_assigned_ports,
          last_port_assign_from_vacant, reply

vars == <<inst, users, dockerUp, vacant_ports, last_assigned_ports,
          last_port_assign_from_vacant, reply>>

(***************************************************************************)
(* Ports.  A tuple holds four uint16 values; the two general purpose      *)
(* slots each stand for a consecutive pair.                               *)
(***************************************************************************)
U16(x) == x % 65536

PortTuple == [peer : Nat, user : Nat, tcp : Nat, udp : Nat]

ZeroPorts == [peer |-> 0, user |-> 0, tcp |-> 0, udp |-> 0]

\* The next tuple after p: +1 on peer and user, +2 on each gp base.
NextPorts(p) == [peer |-> U16(p.peer + 1), user |-> U16(p.user + 1),
                 tcp  |-> U16(p.tcp + 2),  udp  |-> U16(p.udp + 2)]

\* Every port number a tuple occupies on the host; a legacy row (gp ports 0)
\* holds only its peer and user ports.
PortSet(p) == {p.peer, p.user} \cup
              (IF p.tcp = 0 THEN {} ELSE {p.tcp, p.tcp + 1, p.udp, p.udp + 1})

Statuses == {"created", "running", "stopped"}

\* sqlite::get_max_ports: the per-column maximum of the table, or the tuple
\* just before the configured initial ports when the table is empty.
ColMax(S) == CHOOSE x \in S : \A y \in S : x >= y
get_max_ports(rows) ==
  IF DOMAIN rows = {}
  THEN [peer |-> InitPorts.peer - 1, user |-> InitPorts.user - 1,
        tcp  |-> InitPorts.tcp - 2,  udp  |-> InitPorts.udp - 2]
  ELSE [f \in {"peer", "user", "tcp", "udp"} |->
          ColMax({rows[n].ports[f] : n \in DOMAIN rows})]

(***************************************************************************)
(* get_vacant_ports_list: take the row with the largest user port, then   *)
(* walk the tuples init, init+1, ... below that row's peer port and keep  *)
(* every one whose peer port no row holds, in increasing order.           *)
(***************************************************************************)
Shift(p, k) == [peer |-> U16(p.peer + k), user |-> U16(p.user + k),
                tcp  |-> U16(p.tcp + 2 * k), udp |-> U16(p.udp + 2 * k)]

\* Mutant: the walk keeps every tuple, held or not.
get_vacant_ports_list_unchecked(rows) ==
  IF DOMAIN rows = {} THEN <<>>
  ELSE
    LET top   == CHOOSE n \in DOMAIN rows :
                   \A m \in DOMAIN rows : rows[m].ports.user <= rows[n].ports.user
        limit == rows[top].ports.peer
    IN  [k \in 1 .. (limit - InitPorts.peer) |-> Shift(InitPorts, k - 1)]

get_vacant_ports_list(rows) ==
  IF DOMAIN rows = {} THEN <<>>
  ELSE
    LET top   == CHOOSE n \in DOMAIN rows :
                   \A m \in DOMAIN rows : rows[m].ports.user <= rows[n].ports.user
        limit == rows[top].ports.peer
        walk  == [k \in 1 .. (limit - InitPorts.peer) |-> Shift(InitPorts, k - 1)]
    IN  SelectSeq(walk, LAMBDA t : \A n \in DOMAIN rows : rows[n].ports.peer # t.peer)

(***************************************************************************)
(* Outcomes of the external steps a handler takes.  Each helper runs a    *)
(* script or a docker command and returns 0 or -1; the model keeps only   *)
(* that result, named by the error its caller reports for it.             *)
(***************************************************************************)
MayFail(S) == IF StepsMayFail THEN S ELSE {"ok"}
\* user_install.sh: 0 when its last line is INST_SUC with a numeric uid;
\* -1 when the script cannot run, prints INST_ERR or anything else.
install_user     == MayFail({"user_install_error", "ok"})
\* user_uninstall.sh: TRUE when its last line is UNINST_SUC.
uninstall_user   == IF StepsMayFail THEN BOOLEAN ELSE {TRUE}
\* create_contract: temp dir, template copy, hp.cfg rewrite with fresh
\* keys and the ports, move, chown and chmod; any failing step gives -1.
create_contract  == MayFail({"instance_error", "ok"})
\* create_container: the docker create command with the six port mappings.
create_container == MayFail({"instance_error", "ok"})
docker_start     == MayFail({"start_fail", "ok"})
docker_stop      == MayFail({"docker_stop_fail", "ok"})

\* Each handler stops at the first of its steps that fails, so its outcome
\* is one failure of one step, or "ok".
CreateSteps   == install_user \cup create_contract \cup create_container
                   \cup MayFail({"db_write_error", "ok"})
InitiateSteps == MayFail({"container_conf_error", "container_update_error",
                          "update_error_stop_fail", "ok"})
                   \cup {IF s = "ok" THEN s ELSE "container_start_error" : s \in docker_start}
DestroySteps  == {IF ok THEN "ok" ELSE "uninstall_fail" : ok \in uninstall_user}
                   \cup MayFail({"delete_fail", "ok"})
StartSteps    == docker_start \cup MayFail({"update_fail", "update_fail_stop_fail", "ok"})
StopSteps     == docker_stop \cup MayFail({"update_fail", "hpfs_stop_fail", "ok"})

ReplyTypes == {"none", "create_res", "create_error", "initiate_error",
               "destroy_res", "destroy_error", "start_res", "start_error",
               "stop_res", "stop_error"}

Reply(t, n) == reply' = [type |-> t, name |-> n]

Drop(f, n) == [m \in DOMAIN f \ {n} |-> f[m]]

\* sqlite::is_container_exists found a row for n with status s.
HasStatus(n, s) == n \in DOMAIN inst /\ inst[n].status = s

(***************************************************************************)
(* Port selection in create_new_instance: the last vacant tuple if any,   *)
(* otherwise the tuple after last_assigned_ports, which is first reloaded  *)
(* from the table when the previous assignment came from the vacant list. *)
(* The flag and the reloaded tuple are written before any step can fail.  *)
(***************************************************************************)
FromVacant == vacant_ports # <<>>
ReloadedLast ==
  IF ~FromVacant /\ last_port_assign_from_vacant
  THEN get_max_ports(inst) ELSE last_assigned_ports
ChosenPorts == IF FromVacant THEN Last(vacant_ports) ELSE NextPorts(ReloadedLast)

\* Mutant: the vacant branch does not set the flag.
AssignFromVacantUnset == IF FromVacant THEN last_port_assign_from_vacant ELSE FALSE

\* The value the flag holds once the ports are chosen.
AssignFromVacant == FromVacant

\* Mutant: the vacant tuple is used but never popped.
CommitPortsKeepVacant(p) ==
  /\ last_assigned_ports' = IF last_port_assign_from_vacant'
                            THEN last_assigned_ports ELSE p
  /\ UNCHANGED vacant_ports

\* After the row is written: pop the vacant tuple if it was used (the flag
\* decides), otherwise remember p as the last assigned tuple.
CommitPorts(p) ==
  IF last_port_assign_from_vacant'
  THEN /\ vacant_ports' = Front(vacant_ports)
       /\ UNCHANGED last_assigned_ports
  ELSE /\ last_assigned_ports' = p
       /\ UNCHANGED vacant_ports

Init ==
  /\ inst = InitRows
  /\ users = [n \in DOMAIN InitRows |-> InitRows[n].ports]
  /\ dockerUp = {n \in DOMAIN InitRows : InitRows[n].status = "running"}
  /\ vacant_ports = get_vacant_ports_list(InitRows)
  /\ last_assigned_ports = ZeroPorts
  /\ last_port_assign_from_vacant = TRUE
  /\ reply = [type |-> "none", name |-> NoName]

(***************************************************************************)
(* initiate_instance, run by the create handler right after a successful  *)
(* create_new_instance: rewrite the config, start hpfs, start the         *)
(* container, mark the row running.  A failure leaves the row 'created'.  *)
(***************************************************************************)
initiate_instance(n, row, step) ==
  IF step = "ok"
  THEN /\ inst' = inst @@ (n :> [row EXCEPT !.status = "running"])
       /\ dockerUp' = dockerUp \cup {n}
       /\ Reply("create_res", n)
  \* conf/hpfs failure, docker start failure, or a status update failure
  \* after which the container is stopped again (or the docker stop that
  \* undoes the start fails too): the row stays 'created'.
  ELSE /\ inst' = inst @@ (n :> row)
       /\ dockerUp' = IF step = "update_error_stop_fail" THEN dockerUp \cup {n}
                      ELSE dockerUp
       /\ Reply("initiate_error", n)

(***************************************************************************)
(* The create request: create_new_instance followed by initiate_instance. *)
(***************************************************************************)
\* A create the daemon refuses before allocating anything: a duplicate name,
\* the instance limit, a contract id that is not a uuid, or a bad message.
CreateRejected(n) ==
  /\ Reply("create_error", n)
  /\ UNCHANGED <<inst, users, dockerUp, vacant_ports, last_assigned_ports,
                 last_port_assign_from_vacant>>

create_new_instance(n) ==
  /\ n \notin DOMAIN inst
  /\ Cardinality(DOMAIN inst) < MaxInstances
  /\ LET p == ChosenPorts IN
     /\ last_port_assign_from_vacant' = AssignFromVacant
     /\ \E step \in CreateSteps, uninstOk \in uninstall_user :
        \/ /\ step = "user_install_error"
           /\ last_assigned_ports' = ReloadedLast
           /\ Reply("create_error", n)
           /\ UNCHANGED <<inst, users, dockerUp, vacant_ports>>
        \* create_contract/create_container or the row insert failed: the
        \* user is uninstalled, and an uninstall failure is ignored.
        \/ /\ step \in {"instance_error", "db_write_error"}
           /\ last_assigned_ports' = ReloadedLast
           /\ users' = IF uninstOk THEN users ELSE users @@ (n :> p)
           /\ Reply("create_error", n)
           /\ UNCHANGED <<inst, dockerUp, vacant_ports>>
        \/ /\ step = "ok"
           /\ users' = users @@ (n :> p)
           /\ CommitPorts(p)
           /\ \E istep \in InitiateSteps :
                initiate_instance(n, [ports |-> p, status |-> "created"], istep)

HandleCreate(n) == CreateRejected(n) \/ create_new_instance(n)

(***************************************************************************)
(* destroy_container: the uninstall script removes the user, its rootless *)
(* docker and containers; then the row is hard deleted and the tuple is   *)
(* pushed on the vacant list unless already there.  A legacy row without  *)
(* gp ports gets them recomputed from its peer port.                      *)
(***************************************************************************)
FreedTuple(p) ==
  IF p.tcp = 0
  THEN LET inc == U16((p.peer - InitPorts.peer) * 2) IN
       [peer |-> p.user, user |-> p.peer,
        tcp  |-> U16(InitPorts.tcp + inc), udp |-> U16(InitPorts.udp + inc)]
  ELSE p

\* Mutant: the soft deletion left commented out in destroy_container.
soft_delete_hp_instance(n) == [inst EXCEPT ![n].status = "destroyed"]

\* sqlite::delete_hp_instance: the permanent deletion.
delete_hp_instance(n) == Drop(inst, n)

destroy_container(n) ==
  \/ /\ n \notin DOMAIN inst
     /\ Reply("destroy_error", n)
     /\ UNCHANGED <<inst, users, dockerUp, vacant_ports, last_assigned_ports,
                    last_port_assign_from_vacant>>
  \/ /\ n \in DOMAIN inst
     /\ \E step \in DestroySteps :
        \/ /\ step = "uninstall_fail"
           /\ Reply("destroy_error", n)
           /\ UNCHANGED <<inst, users, dockerUp, vacant_ports>>
        \/ /\ step = "delete_fail"
           /\ users' = Drop(users, n)
           /\ dockerUp' = dockerUp \ {n}
           /\ Reply("destroy_error", n)
           /\ UNCHANGED <<inst, vacant_ports>>
        \/ /\ step = "ok"
           /\ inst' = delete_hp_instance(n)
           /\ users' = Drop(users, n)
           /\ dockerUp' = dockerUp \ {n}
           /\ vacant_ports' =
                IF Contains(vacant_ports, inst[n].ports) THEN vacant_ports
                ELSE Append(vacant_ports, FreedTuple(inst[n].ports))
           /\ Reply("destroy_res", n)
     /\ UNCHANGED <<last_assigned_ports, last_port_assign_from_vacant>>

(***************************************************************************)
(* start_container: only a stopped row; read the config, start hpfs and  *)
(* the container, then mark the row running (a failed update stops the   *)
(* container again).                                                       *)
(***************************************************************************)
start_container(n) ==
  /\ \/ /\ ~HasStatus(n, "stopped")
        /\ Reply("start_error", n)
        /\ UNCHANGED <<inst, dockerUp>>
     \/ /\ HasStatus(n, "stopped")
        /\ \E step \in StartSteps :
           \/ /\ step \in {"start_fail", "update_fail"}
              /\ Reply("start_error", n)
              /\ UNCHANGED <<inst, dockerUp>>
           \* The update failed and so did the docker stop that undoes the start.
           \/ /\ step = "update_fail_stop_fail"
              /\ dockerUp' = dockerUp \cup {n}
              /\ Reply("start_error", n)
              /\ UNCHANGED inst
           \/ /\ step = "ok"
              /\ inst' = [inst EXCEPT ![n].status = "running"]
              /\ dockerUp' = dockerUp \cup {n}
              /\ Reply("start_res", n)
  /\ UNCHANGED <<users, vacant_ports, last_assigned_ports, last_port_assign_from_vacant>>

(***************************************************************************)
(* stop_container: only a running row; docker stop, then the status      *)
(* update, then hpfs stop, each stopping the chain when it fails.        *)
(***************************************************************************)
stop_container(n) ==
  /\ \/ /\ ~HasStatus(n, "running")
        /\ Reply("stop_error", n)
        /\ UNCHANGED <<inst, dockerUp>>
     \/ /\ HasStatus(n, "running")
        /\ \E step \in StopSteps :
           \/ /\ step = "docker_stop_fail"
              /\ Reply("stop_error", n)
              /\ UNCHANGED <<inst, dockerUp>>
           \/ /\ step = "update_fail"
              /\ dockerUp' = dockerUp \ {n}
              /\ Reply("stop_error", n)
              /\ UNCHANGED inst
           \/ /\ step \in {"hpfs_stop_fail", "ok"}
              /\ inst' = [inst EXCEPT ![n].status = "stopped"]
              /\ dockerUp' = dockerUp \ {n}
              /\ Reply(IF step = "ok" THEN "stop_res" ELSE "stop_error", n)
  /\ UNCHANGED <<users, vacant_ports, last_assigned_ports, last_port_assign_from_vacant>>

(***************************************************************************)
(* The daemon process restarts: the allocator globals get their initial  *)
(* values and init() rebuilds the vacant list from the table.            *)
(***************************************************************************)
Restart ==
  /\ vacant_ports' = get_vacant_ports_list(inst)
  /\ last_assigned_ports' = ZeroPorts
  /\ last_port_assign_from_vacant' = TRUE
  /\ reply' = [type |-> "none", name |-> NoName]
  /\ UNCHANGED <<inst, users, dockerUp>>

Next ==
  \/ \E n \in Names : HandleCreate(n)
  \/ \E n \in Names : destroy_container(n)
  \/ \E n \in Names : start_container(n)
  \/ \E n \in Names : stop_container(n)
  \/ Restart

Spec == Init /\ [][Next]_vars

-----------------------------------------------------------------------------
TypeOK ==
  /\ DOMAIN inst \subseteq Names
  /\ \A n \in DOMAIN inst : inst[n] \in [ports : PortTuple, status : Statuses]
  /\ DOMAIN users \subseteq Names
  /\ \A n \in DOMAIN users : users[n] \in PortTuple
  /\ dockerUp \subseteq Names
  /\ vacant_ports \in Seq(PortTuple)
  /\ last_assigned_ports \in PortTuple
  /\ last_port_assign_from_vacant \in BOOLEAN
  /\ reply \in [type : ReplyTypes, name : Names \cup {NoName}]

\* Two distinct holders of port tuples overlap in some port number.
Overlap(f) ==
  \E a, b \in DOMAIN f : a # b /\ PortSet(f[a]) \cap PortSet(f[b]) # {}

(* Spec invariant 2: no two instance rows share any of their port numbers, *)
(* across any mix of creates, failed creates, destroys and restarts of the *)
(* allocator in create_new_instance / destroy_container / init.            *)
PortsDisjoint == ~Overlap([n \in DOMAIN inst |-> inst[n].ports])

(* A tuple waiting on the vacant list is free: it shares no port with a   *)
(* live row and is not listed twice, so popping it never hands out a slot *)
(* that an instance still holds.                                          *)
VacantFree ==
  /\ \A i \in 1 .. Len(vacant_ports) : \A n \in DOMAIN inst :
       PortSet(vacant_ports[i]) \cap PortSet(inst[n].ports) = {}
  /\ \A i, j \in 1 .. Len(vacant_ports) : i # j => vacant_ports[i] # vacant_ports[j]

(* While create_new_instance trusts its cached last_assigned_ports (the   *)
(* flag says the last assignment did not come from the vacant list), no   *)
(* row holds a peer port above it: the cache is never stale.              *)
LastAssignedCurrent ==
  ~last_port_assign_from_vacant =>
     \A n \in DOMAIN inst : inst[n].ports.peer <= last_assigned_ports.peer

(* Spec 4.1 / 6: after initiate_error the daemon has rolled back, so no   *)
(* row for that container remains.                                        *)
InitiateErrorRollsBack ==
  reply.type = "initiate_error" => reply.name \notin DOMAIN inst

(* Spec data model: a row with status 'running' is a container the       *)
(* runtime runs (stop_container and start_container keep them in step).   *)
RunningRowsRun ==
  \A n \in DOMAIN inst : inst[n].status = "running" => n \in dockerUp

(* No two OS users made by the install script hold overlapping ports:    *)
(* a failed create's rollback does not leave a user whose ports are then *)
(* handed to the next instance.                                           *)
UserPortsDisjoint == ~Overlap(users)
=============================================================================
