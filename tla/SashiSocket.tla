---------------------------- MODULE SashiSocket ----------------------------
(***************************************************************************)
(* The request channel between the sashi CLI (src/sashi-cli/cli-manager.cpp)*)
(* and the daemon's message thread (src/src/comm/comm_handler.cpp), over   *)
(* a SOCK_SEQPACKET Unix socket, composed with the daemon's request        *)
(* handlers (SashiDaemon).                                                 *)
(*                                                                         *)
(* The daemon accepts one connection at a time; pending connects wait in  *)
(* the listen backlog.  A CLI connects, writes one request record, reads  *)
(* an 8-byte length record and then the reply record.  After sending the  *)
(* reply the daemon closes the connection; a connection whose client has  *)
(* gone is dropped after EMPTY_READ_TRESHOLD empty reads.  The daemon     *)
(* process may crash at any point and is started again; a CLI may be      *)
(* killed at any point (Ctrl-C, or a caller's timeout).                    *)
(*                                                                         *)
(* Requests and replies are records [type, name]; framing and JSON are    *)
(* left out, the length record only announces the reply that follows.     *)
(***************************************************************************)
EXTENDS Integers, Sequences, FiniteSets

CONSTANTS
  Names, MaxInstances, InitPorts, InitRows, StepsMayFail, NoName,
  Clients,        \* sashi CLI processes
  NoClient,       \* ctx.data_socket == -1
  MaxCrashes      \* bound on crashes of the daemon process

VARIABLES
  inst, users, dockerUp, vacant_ports, last_assigned_ports,
  last_port_assign_from_vacant, reply,   \* the daemon's state (SashiDaemon)
  cmd,              \* the command line each CLI runs
  up,               \* the daemon process runs and listens
  crashes,
  backlog,          \* connects not yet accepted, in order
  data_socket,      \* ctx.data_socket: the accepted client, or NoClient
  empty_read_count,
  srvPc,            \* "loop", or where send() is
  res,              \* the response handle_message built
  reqPending,       \* the client's request record is unread in the socket
  srvClosed,        \* the daemon's end of the client's connection is closed
  toClient,         \* records written to the client and not yet read
  cpc,              \* where each CLI is
  ret,              \* what each CLI's command returned: "ok" (0), "err" (-1),
                    \* "abort" (an uncaught exception) or "killed"
  out               \* the output each CLI got from get_json_output

D == INSTANCE SashiDaemon

daemonVars == <<inst, users, dockerUp, vacant_ports, last_assigned_ports,
                last_port_assign_from_vacant, reply>>
srvVars == <<up, crashes, backlog, data_socket, empty_read_count, srvPc, res>>
chanVars == <<reqPending, srvClosed, toClient>>
cliVars == <<cmd, cpc, ret, out>>
vars == <<daemonVars, srvVars, chanVars, cliVars>>

EMPTY_READ_TRESHOLD == 5
ListenBacklog == 20       \* listen(ctx.connection_socket, 20)

\* execute_basic types, create, list, and docker_exec's attach.
Ops == {"create", "destroy", "start", "stop", "inspect", "list", "attach"}
Commands == [op : Ops, name : Names]

Response(t, n) == [type |-> t, name |-> n]
NoResponse == Response("none", NoName)
Junk == Response("junk", NoName)    \* bytes the CLI got without a reply record

InBacklog(c) == \E i \in 1 .. Len(backlog) : backlog[i] = c

Init ==
  /\ D!Init
  /\ cmd \in [Clients -> Commands]
  /\ up = TRUE /\ crashes = 0
  /\ backlog = <<>> /\ data_socket = NoClient /\ empty_read_count = 0
  /\ srvPc = "loop" /\ res = NoResponse
  /\ reqPending = [c \in Clients |-> FALSE]
  /\ srvClosed = [c \in Clients |-> FALSE]
  /\ toClient = [c \in Clients |-> <<>>]
  /\ cpc = [c \in Clients |-> "init"]
  /\ ret = [c \in Clients |-> "none"]
  /\ out = [c \in Clients |-> NoResponse]

-----------------------------------------------------------------------------
(* The sashi CLI.                                                          *)

\* cli::init: connect to sa.sock.  With no listener the connect is refused.
CliInit(c) ==
  /\ cpc[c] = "init"
  /\ Len(backlog) < ListenBacklog
  /\ IF up
     THEN /\ backlog' = Append(backlog, c)
          /\ cpc' = [cpc EXCEPT ![c] = "write"]
          /\ UNCHANGED ret
     ELSE /\ cpc' = [cpc EXCEPT ![c] = "done"]
          /\ ret' = [ret EXCEPT ![c] = "err"]
          /\ UNCHANGED backlog
  /\ UNCHANGED <<daemonVars, cmd, up, crashes, data_socket, empty_read_count,
                 srvPc, res, chanVars, out>>

\* write_to_socket: a write on a connection the daemon has closed fails.
CliWrite(c) ==
  /\ cpc[c] = "write"
  /\ IF srvClosed[c]
     THEN /\ cpc' = [cpc EXCEPT ![c] = "done"]
          /\ ret' = [ret EXCEPT ![c] = "err"]
          /\ UNCHANGED reqPending
     ELSE /\ reqPending' = [reqPending EXCEPT ![c] = TRUE]
          /\ cpc' = [cpc EXCEPT ![c] = "readLen"]
          /\ UNCHANGED ret
  /\ UNCHANGED <<daemonVars, srvVars, srvClosed, toClient, cmd, out>>

\* list(): the output must parse as a list_res with an array content.
ListResponseOk(o) == o # Junk /\ o.type = "list_res"

\* docker_exec: the inspect output must parse as inspect_res with the
\* instance's user (inspect_error or anything else is an error).
InspectResponseOk(o) == o # Junk /\ o.type = "inspect_res"

\* What the command returns once get_json_output returned 0 with output o:
\* execute_basic and create print o and return 0; list and docker_exec
\* check it first, and docker_exec then runs docker attach.
CommandResult(c, o) ==
  CASE cmd[c].op = "list"   -> IF ListResponseOk(o) THEN {"ok"} ELSE {"err"}
    [] cmd[c].op = "attach" -> IF InspectResponseOk(o) THEN {"ok", "err"} ELSE {"err"}
    [] OTHER                -> {"ok"}

Finish(c, o) ==
  /\ out' = [out EXCEPT ![c] = o]
  /\ \E r \in CommandResult(c, o) : ret' = [ret EXCEPT ![c] = r]
  /\ cpc' = [cpc EXCEPT ![c] = "done"]

(***************************************************************************)
(* read_from_socket, first read: the 8-byte length.  A reset connection   *)
(* (the daemon closed it with the request unread) gives -1.  End of file  *)
(* gives 0, which the code takes for success: message_length is decoded  *)
(* from the uninitialised length_buffer, so resize either throws (the CLI *)
(* aborts) or succeeds, the second read returns 0 too and the command     *)
(* goes on with a buffer of NUL bytes.                                    *)
(***************************************************************************)
CliReadLen(c) ==
  /\ cpc[c] = "readLen"
  /\ \/ /\ toClient[c] # <<>>
        /\ toClient' = [toClient EXCEPT ![c] = Tail(@)]
        /\ cpc' = [cpc EXCEPT ![c] = "readMsg"]
        /\ UNCHANGED <<ret, out>>
     \/ /\ toClient[c] = <<>> /\ srvClosed[c] /\ reqPending[c]
        /\ cpc' = [cpc EXCEPT ![c] = "done"]
        /\ ret' = [ret EXCEPT ![c] = "err"]
        /\ UNCHANGED <<toClient, out>>
     \/ /\ toClient[c] = <<>> /\ srvClosed[c] /\ ~reqPending[c]
        /\ \/ /\ cpc' = [cpc EXCEPT ![c] = "done"]
              /\ ret' = [ret EXCEPT ![c] = "abort"]
              /\ UNCHANGED out
           \/ Finish(c, Junk)
        /\ UNCHANGED toClient
  /\ UNCHANGED <<daemonVars, srvVars, reqPending, srvClosed, cmd>>

\* read_from_socket, second read: the reply, or 0 bytes at end of file.
CliReadMsg(c) ==
  /\ cpc[c] = "readMsg"
  /\ \/ /\ toClient[c] # <<>>
        /\ toClient' = [toClient EXCEPT ![c] = Tail(@)]
        /\ Finish(c, Head(toClient[c]).of)
     \/ /\ toClient[c] = <<>> /\ srvClosed[c]
        /\ Finish(c, Junk)
        /\ UNCHANGED toClient
  /\ UNCHANGED <<daemonVars, srvVars, reqPending, srvClosed, cmd>>

\* The CLI process is killed; its end of the connection closes.
Kill(c) ==
  /\ cpc[c] # "done"
  /\ cpc' = [cpc EXCEPT ![c] = "done"]
  /\ ret' = [ret EXCEPT ![c] = "killed"]
  /\ UNCHANGED <<daemonVars, srvVars, chanVars, cmd, out>>

-----------------------------------------------------------------------------
(* The daemon's message thread: comm_handler_loop.                         *)

\* connect(): poll found a pending connect and accept takes the oldest.
Accept ==
  /\ up /\ srvPc = "loop" /\ data_socket = NoClient /\ backlog # <<>>
  /\ data_socket' = Head(backlog)
  /\ backlog' = Tail(backlog)
  /\ empty_read_count' = 0
  /\ UNCHANGED <<daemonVars, up, crashes, srvPc, res, chanVars, cliVars>>

\* disconnect(): close the data socket.
Disconnect ==
  /\ srvClosed' = [srvClosed EXCEPT ![data_socket] = TRUE]
  /\ data_socket' = NoClient

(***************************************************************************)
(* handle_message for the request of client c: the type picks the branch, *)
(* the daemon's handler runs, and __HANDLE_RESPONSE builds the response.  *)
(* docker_exec's request is an inspect.                                    *)
(***************************************************************************)
handle_message(c) ==
  LET n == cmd[c].name IN
  CASE cmd[c].op = "create"  -> D!HandleCreate(n) /\ res' = reply'
    [] cmd[c].op = "destroy" -> D!destroy_container(n) /\ res' = reply'
    [] cmd[c].op = "start"   -> D!start_container(n) /\ res' = reply'
    [] cmd[c].op = "stop"    -> D!stop_container(n) /\ res' = reply'
    [] cmd[c].op \in {"inspect", "attach"} ->
         /\ res' = Response(IF n \in DOMAIN inst THEN "inspect_res"
                            ELSE "inspect_error", n)
         /\ UNCHANGED daemonVars
    [] cmd[c].op = "list" -> res' = Response("list_res", NoName)
                             /\ UNCHANGED daemonVars

\* read_socket returned the request record.
ReadRequest ==
  /\ up /\ srvPc = "loop" /\ data_socket # NoClient
  /\ reqPending[data_socket]
  /\ reqPending' = [reqPending EXCEPT ![data_socket] = FALSE]
  /\ handle_message(data_socket)
  /\ srvPc' = "sendLen"
  /\ UNCHANGED <<up, crashes, backlog, data_socket, empty_read_count,
                 srvClosed, toClient, cliVars>>

\* Mutant: the empty read is not counted.
NextEmptyReadsStuck == empty_read_count

\* The count after one more empty read.
NextEmptyReads == empty_read_count + 1

\* Mutant: the threshold is passed before the connection is dropped.
ReachedEmptyReadThresholdOffByOne(k) == k = EMPTY_READ_TRESHOLD + 1

\* Whether k consecutive empty reads end the connection.
ReachedEmptyReadThreshold(k) == k = EMPTY_READ_TRESHOLD

\* read_socket returned 0: the client closed its end without a request.
EmptyRead ==
  /\ up /\ srvPc = "loop" /\ data_socket # NoClient
  /\ ~reqPending[data_socket] /\ cpc[data_socket] = "done"
  /\ IF ReachedEmptyReadThreshold(NextEmptyReads)
     THEN Disconnect /\ empty_read_count' = 0
     ELSE /\ empty_read_count' = NextEmptyReads
          /\ UNCHANGED <<data_socket, srvClosed>>
  /\ UNCHANGED <<daemonVars, up, crashes, backlog, srvPc, res, reqPending,
                 toClient, cliVars>>

\* send(), first write: the length record.  A client that has gone makes
\* the write fail (the message thread masks SIGPIPE) and send disconnects.
SendLen ==
  /\ up /\ srvPc = "sendLen"
  /\ IF cpc[data_socket] = "done"
     THEN /\ Disconnect /\ srvPc' = "loop"
          /\ UNCHANGED toClient
     ELSE /\ toClient' = [toClient EXCEPT ![data_socket] =
                            Append(@, [kind |-> "len", of |-> res])]
          /\ srvPc' = "sendMsg"
          /\ UNCHANGED <<data_socket, srvClosed>>
  /\ UNCHANGED <<daemonVars, up, crashes, backlog, empty_read_count, res,
                 reqPending, cliVars>>

\* send(), second write: the reply; then the connection is closed.
SendMsg ==
  /\ up /\ srvPc = "sendMsg"
  /\ toClient' = IF cpc[data_socket] = "done" THEN toClient
                 ELSE [toClient EXCEPT ![data_socket] =
                         Append(@, [kind |-> "msg", of |-> res])]
  /\ Disconnect
  /\ srvPc' = "loop"
  /\ UNCHANGED <<daemonVars, up, crashes, backlog, empty_read_count, res,
                 reqPending, cliVars>>

(***************************************************************************)
(* The daemon process dies: every connection it held, accepted or still  *)
(* in the backlog, is closed.  The socket file stays, so a later connect *)
(* is refused until the daemon is started again.                          *)
(***************************************************************************)
Crash ==
  /\ up /\ crashes < MaxCrashes
  /\ up' = FALSE /\ crashes' = crashes + 1
  /\ srvClosed' = [c \in Clients |-> srvClosed[c] \/ InBacklog(c) \/ c = data_socket]
  /\ backlog' = <<>> /\ data_socket' = NoClient
  /\ srvPc' = "loop" /\ empty_read_count' = 0
  /\ UNCHANGED <<daemonVars, res, reqPending, toClient, cliVars>>

\* The daemon starts: hp::init rebuilds the allocator, comm::init binds
\* and listens on a fresh socket.
Boot ==
  /\ ~up
  /\ up' = TRUE
  /\ D!Restart
  /\ UNCHANGED <<crashes, backlog, data_socket, empty_read_count, srvPc, res,
                 chanVars, cliVars>>

Server == Accept \/ ReadRequest \/ EmptyRead \/ SendLen \/ SendMsg

Client(c) == CliInit(c) \/ CliWrite(c) \/ CliReadLen(c) \/ CliReadMsg(c)

Next ==
  \/ Server
  \/ \E c \in Clients : Client(c) \/ Kill(c)
  \/ Crash \/ Boot

(***************************************************************************)
(* Fairness.  The message thread loops for ever and each CLI runs to its  *)
(* end: weak fairness for their steps.  A crashed daemon is started again *)
(* (it runs as a service).  Crashes and kills are not forced.            *)
(***************************************************************************)
Fairness ==
  /\ WF_vars(Server) /\ WF_vars(Boot)
  /\ \A c \in Clients : WF_vars(Client(c))

Spec == Init /\ [][Next]_vars /\ Fairness

-----------------------------------------------------------------------------
(* Properties.                                                             *)

Outputs == [type : D!ReplyTypes \cup {"junk", "inspect_res", "inspect_error", "list_res"},
            name : Names \cup {NoName}]

TypeOK ==
  /\ cmd \in [Clients -> Commands]
  /\ up \in BOOLEAN /\ crashes \in 0 .. MaxCrashes
  /\ backlog \in Seq(Clients)
  /\ data_socket \in Clients \cup {NoClient}
  /\ empty_read_count \in 0 .. EMPTY_READ_TRESHOLD - 1
  /\ srvPc \in {"loop", "sendLen", "sendMsg"}
  /\ reqPending \in [Clients -> BOOLEAN] /\ srvClosed \in [Clients -> BOOLEAN]
  /\ \A c \in Clients : toClient[c] \in Seq([kind : {"len", "msg"}, of : Outputs])
  /\ cpc \in [Clients -> {"init", "write", "readLen", "readMsg", "done"}]
  /\ ret \in [Clients -> {"none", "ok", "err", "abort", "killed"}]
  /\ out \in [Clients -> Outputs]

(* Every CLI command ends, whatever other CLIs do: a client that connects *)
(* and dies without a request holds the message thread only until the    *)
(* empty-read threshold of comm_handler_loop, and a daemon crash fails   *)
(* the connections it held.                                               *)
CliTerminates == \A c \in Clients : <>(cpc[c] = "done")

(* A CLI command that returns 0 has received the daemon's reply to its    *)
(* request (read_from_socket / get_json_output report success).          *)
CliSuccessHasReply ==
  \A c \in Clients : ret[c] = "ok" => out[c] # Junk

=============================================================================
