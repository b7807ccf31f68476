-------------------------- MODULE SocketLifecycle --------------------------
(***************************************************************************)
(* The Unix socket of the service: bind_socket, the accept loop of         *)
(* run_server with its consumer permits, the drop of SocketCleanup, and a  *)
(* supervisor that starts, stops and restarts several processes on one     *)
(* path.                                                                   *)
(*                                                                         *)
(* An action is one system call of bind_socket or of the cleanup, so       *)
(* whatever another process does between two of them is explored.  What a  *)
(* served consumer reads is in Publication.                                *)
(***************************************************************************)
EXTENDS Integers, FiniteSets, Sequences, SequencesExt

CONSTANTS
  Processes,     \* processes configured with the same socket path
  Clients,       \* consumers
  Inodes,        \* inode numbers, reused once nothing refers to them
  None,          \* no path, no socket
  File,          \* something at the path that is not a socket
  MaxConsumers,  \* stream.max_consumers
  SerialStarts,  \* whether the supervisor waits for one start before the next
  MaxFaults      \* bound: crashes, failed calls, stops and removals by hand

ASSUME SocketAssumption ==
  /\ Inodes # {} /\ None \notin Inodes /\ File \notin Inodes /\ None # File
  /\ MaxConsumers \in Nat \ {0} /\ MaxFaults \in Nat
  /\ SerialStarts \in BOOLEAN

VARIABLES
  path,       \* what the path names
  pc,         \* where each process is
  own,        \* the inode its listener is bound to
  listening,  \* the processes whose listener takes connections
  saved,      \* the inode in its SocketCleanup
  backlog,    \* connections the kernel holds for it, in order
  consumers,  \* the connections it serves, one permit each
  unlinked,   \* the processes whose socket was removed by hand
  abandoned,  \* the socket a process left at the path when it died or could not remove it
  faults

sockets == <<path, own, listening>>
server == <<backlog, consumers>>
history == <<unlinked, abandoned>>
vars == <<path, pc, own, listening, saved, backlog, consumers, unlinked, abandoned, faults>>

Starting == {"inspect", "probe", "remove", "bind", "listen", "stat", "chmod"}
Stopping == {"draining", "check", "unlink", "close"}
Peers == Clients \cup Processes     \* a starting process connects, too

\* External: connect reaches the process that listens on the inode the path names.
Accepting == {p \in listening : own[p] = path}

\* External: an inode number is free when neither the path nor an open socket refers to it.
FreeInodes == Inodes \ ({path} \cup {own[p] : p \in Processes})

Connected == UNION {ToSet(backlog[p]) \cup consumers[p] : p \in Processes}

Init ==
  /\ path \in {None, File, CHOOSE i \in Inodes : TRUE}
  /\ pc = [p \in Processes |-> "down"]
  /\ own = [p \in Processes |-> None] /\ saved = own
  /\ listening = {} /\ unlinked = {}
  /\ backlog = [p \in Processes |-> <<>>]
  /\ consumers = [p \in Processes |-> {}]
  /\ abandoned = IF path \in Inodes THEN path ELSE None
  /\ faults = 0

Goto(p, from, to) == pc[p] = from /\ pc' = [pc EXCEPT ![p] = to]

\* External: the descriptors of p are closed, by drop or by its death.
Close(p) ==
  /\ own' = [own EXCEPT ![p] = None] /\ saved' = [saved EXCEPT ![p] = None]
  /\ listening' = listening \ {p}
  /\ unlinked' = unlinked \ {p}
  /\ backlog' = [backlog EXCEPT ![p] = <<>>]
  /\ consumers' = [consumers EXCEPT ![p] = {}]

\* Ghost: if the path names the socket of p, it is left behind.
Abandon(p) == abandoned' = IF own[p] # None /\ path = own[p] THEN path ELSE abandoned

\* A call fails for a reason of its own: a permission, a directory, the file system.
CallFails == faults < MaxFaults /\ faults' = faults + 1

\* A call of p on its own socket fails in one of these steps; p goes down without removing it.
SocketStays(p, steps) ==
  /\ pc[p] \in steps /\ CallFails
  /\ pc' = [pc EXCEPT ![p] = "close"]
  /\ Abandon(p)
  /\ UNCHANGED <<sockets, saved, server, unlinked>>

-----------------------------------------------------------------------------
(* bind_socket. *)

\* External: the supervisor starts a process that is down.
Start(p) ==
  /\ SerialStarts => \A q \in Processes : pc[q] \notin Starting
  /\ Goto(p, "down", "inspect")
  /\ UNCHANGED <<sockets, saved, server, history, faults>>

\* symlink_metadata: nothing there, a socket, or something the service must not replace.
Inspect(p) ==
  /\ pc[p] = "inspect"
  /\ pc' = [pc EXCEPT ![p] = IF path = None THEN "bind" ELSE IF path = File THEN "down" ELSE "probe"]
  /\ UNCHANGED <<sockets, saved, server, history, faults>>

\* connect: a listener answers and the start is refused, but the connection was made; or it is
\* refused, or the path has gone, and the socket counts as stale.
Probe(p) ==
  /\ pc[p] = "probe"
  /\ IF Accepting = {}
       THEN pc' = [pc EXCEPT ![p] = "remove"] /\ UNCHANGED backlog
       ELSE /\ pc' = [pc EXCEPT ![p] = "down"]
            /\ backlog' = [q \in Processes |->
                             IF q \in Accepting /\ p \notin Connected
                               THEN Append(backlog[q], p) ELSE backlog[q]]
  /\ UNCHANGED <<sockets, saved, consumers, history, faults>>

\* Fault: the stale socket is left for bind to replace.
KeepStale(p) ==
  /\ Goto(p, "remove", "bind")
  /\ UNCHANGED <<sockets, saved, server, history, faults>>

\* remove_file, which fails when the path has gone since.
RemoveStale(p) ==
  /\ pc[p] = "remove"
  /\ pc' = [pc EXCEPT ![p] = IF path = None THEN "down" ELSE "bind"]
  /\ path' = None
  /\ abandoned' = IF path = abandoned THEN None ELSE abandoned
  /\ UNCHANGED <<own, listening, saved, server, unlinked, faults>>

\* UnixListener::bind, first half: the path appears, and connecting to it is still refused.
Bind(p) ==
  /\ pc[p] = "bind"
  /\ IF path = None
       THEN \E i \in FreeInodes :
              /\ path' = i /\ own' = [own EXCEPT ![p] = i]
              /\ pc' = [pc EXCEPT ![p] = "listen"]
       ELSE pc' = [pc EXCEPT ![p] = "down"] /\ UNCHANGED <<path, own>>
  /\ UNCHANGED <<listening, saved, server, history, faults>>

\* Second half: the listener takes connections.
Listen(p) ==
  /\ Goto(p, "listen", "stat")
  /\ listening' = listening \cup {p}
  /\ UNCHANGED <<path, own, saved, server, history, faults>>

\* symlink_metadata again: the inode the path names by now goes into SocketCleanup.
Stat(p) ==
  /\ pc[p] = "stat"
  /\ IF path = None
       THEN pc' = [pc EXCEPT ![p] = "close"] /\ UNCHANGED saved
       ELSE /\ pc' = [pc EXCEPT ![p] = "chmod"]
            /\ saved' = [saved EXCEPT ![p] = path]
  /\ UNCHANGED <<sockets, server, history, faults>>

\* set_permissions succeeds, and start_service spawns run_server.
Chmod(p) ==
  /\ path # None
  /\ Goto(p, "chmod", "serving")
  /\ UNCHANGED <<sockets, saved, server, history, faults>>

\* Fault: the error of set_permissions returns past the cleanup.
ChmodFailsBare(p) ==
  /\ Goto(p, "chmod", "close")
  /\ IF path = None THEN UNCHANGED faults ELSE CallFails
  /\ UNCHANGED <<sockets, saved, server, history>>

\* set_permissions fails: the guard is dropped, then the listener.
ChmodFails(p) ==
  /\ Goto(p, "chmod", "check")
  /\ IF path = None THEN UNCHANGED faults ELSE CallFails
  /\ UNCHANGED <<sockets, saved, server, history>>

\* symlink_metadata fails for another reason than a missing path: the error is returned before
\* there is a SocketCleanup.
StatFails(p) == SocketStays(p, {"stat"})

\* create_dir_all, symlink_metadata or connect fails in a way that proves nothing, or
\* remove_file, bind or listen fails.  A socket that is bound and cannot listen is dropped, and
\* the path stays.
StartFails(p) ==
  /\ pc[p] \in {"inspect", "probe", "remove", "bind", "listen"} /\ CallFails
  /\ pc' = [pc EXCEPT ![p] = "down"]
  /\ Close(p) /\ Abandon(p)
  /\ UNCHANGED path

-----------------------------------------------------------------------------
(* run_server. *)

\* External: a consumer connects to whoever listens at the path.
Connect(c) ==
  /\ c \notin Connected
  /\ \E p \in Accepting : backlog' = [backlog EXCEPT ![p] = Append(@, c)]
  /\ UNCHANGED <<sockets, pc, saved, consumers, history, faults>>

\* Fault: at the limit the loop waits for a permit before it accepts.
AcceptWithPermit(p) ==
  /\ pc[p] = "serving" /\ backlog[p] # <<>> /\ Cardinality(consumers[p]) < MaxConsumers
  /\ backlog' = [backlog EXCEPT ![p] = Tail(@)]
  /\ consumers' = [consumers EXCEPT ![p] = @ \cup {Head(backlog[p])}]
  /\ UNCHANGED <<sockets, pc, saved, history, faults>>

\* accept, then try_acquire_owned: served, or dropped at the limit.
Accept(p) ==
  /\ pc[p] = "serving" /\ backlog[p] # <<>>
  /\ backlog' = [backlog EXCEPT ![p] = Tail(@)]
  /\ consumers' = [consumers EXCEPT ![p] =
                     IF Cardinality(@) < MaxConsumers THEN @ \cup {Head(backlog[p])} ELSE @]
  /\ UNCHANGED <<sockets, pc, saved, history, faults>>

\* serve_consumer ends, for any reason; the permit is dropped with the task.
Finish(p, c) ==
  /\ pc[p] = "serving" /\ c \in consumers[p]
  /\ consumers' = [consumers EXCEPT ![p] = @ \ {c}]
  /\ UNCHANGED <<sockets, pc, saved, backlog, history, faults>>

\* ServiceHandle::shutdown reaches the accept loop.
Stop(p) ==
  /\ Goto(p, "serving", "draining") /\ faults < MaxFaults /\ faults' = faults + 1
  /\ UNCHANGED <<sockets, saved, server, history>>

\* abort_all and join_next; parameters drop in reverse order, so the guard before the listener.
Drain(p) ==
  /\ Goto(p, "draining", "check")
  /\ consumers' = [consumers EXCEPT ![p] = {}]
  /\ UNCHANGED <<sockets, saved, backlog, history, faults>>

\* Fault: the path is removed whatever it names.
CheckNothing(p) ==
  /\ Goto(p, "check", "unlink")
  /\ UNCHANGED <<sockets, saved, server, history, faults>>

\* SocketCleanup::drop: the path must still name the inode that was bound.
Check(p) ==
  /\ pc[p] = "check"
  /\ pc' = [pc EXCEPT ![p] = IF path = saved[p] THEN "unlink" ELSE "close"]
  /\ UNCHANGED <<sockets, saved, server, history, faults>>

Unlink(p) ==
  /\ Goto(p, "unlink", "close")
  /\ path' = None
  /\ UNCHANGED <<own, listening, saved, server, history, faults>>

\* symlink_metadata or remove_file fails: the error is logged, and the socket stays.
CleanupFails(p) == SocketStays(p, {"check", "unlink"})

\* The listener is dropped and the process exits.
Exit(p) ==
  /\ Goto(p, "close", "down")
  /\ Close(p)
  /\ UNCHANGED <<path, abandoned, faults>>

-----------------------------------------------------------------------------
(* The environment. *)

Crash(p) ==
  /\ pc[p] # "down" /\ faults < MaxFaults /\ faults' = faults + 1
  /\ pc' = [pc EXCEPT ![p] = "down"]
  /\ Close(p) /\ Abandon(p)
  /\ UNCHANGED path

\* An operator, or a cleaner of temporary files, removes the socket of a running service.
RemoveByHand(p) ==
  /\ pc[p] = "serving" /\ path = own[p] /\ faults < MaxFaults /\ faults' = faults + 1
  /\ path' = None
  /\ unlinked' = unlinked \cup {p}
  /\ UNCHANGED <<pc, own, listening, saved, server, abandoned>>

Step(p) ==
  \/ Inspect(p) \/ Probe(p) \/ RemoveStale(p) \/ Bind(p) \/ Listen(p) \/ Stat(p) \/ Chmod(p)
  \/ Drain(p) \/ Check(p) \/ Unlink(p) \/ Exit(p)

Next ==
  \/ \E p \in Processes :
       \/ Start(p) \/ Step(p) \/ Accept(p) \/ Stop(p)
       \/ StatFails(p) \/ ChmodFails(p) \/ StartFails(p) \/ CleanupFails(p) \/ Crash(p)
       \/ RemoveByHand(p)
       \/ \E c \in Peers : Finish(p, c)
  \/ \E c \in Clients : Connect(c)

Spec == Init /\ [][Next]_vars

\* Processes run, the accept loop is polled, and the supervisor restarts what is down.
FairSpec ==
  /\ Spec
  /\ \A p \in Processes : WF_vars(Step(p)) /\ WF_vars(Accept(p))
  /\ WF_vars(\E p \in Processes : Start(p))

-----------------------------------------------------------------------------
(* Properties. *)

\* bind_socket "refuses to replace a live listener", and SocketCleanup removes no socket but its
\* own: a process that serves is found at the path, unless its socket was removed by hand.
ServingReachable ==
  \A p \in Processes : pc[p] = "serving" => p \in unlinked \/ path = own[p]

\* Shutdown and a failed set_permissions remove the socket, however the removal interleaves with
\* other processes: one without a process was left by a crash, or by a process whose own call on
\* it failed (listen, the symlink_metadata that precedes SocketCleanup, or a call of its drop).
LeavesNoSocket ==
  path \in Inodes => path = abandoned \/ \E p \in Processes : own[p] = path

\* A socket left behind, a process that is still draining or a start that failed never keeps
\* the service away for good: some process comes to serve at the path, unless a file blocks
\* it or sockets are removed by hand.
ServiceReturns ==
  path # File ~> \E p \in Processes : (pc[p] = "serving" /\ path = own[p]) \/ p \in unlinked

\* A connection is served or dropped, never left waiting by a full house.
ConnectionsAnswered ==
  \A p \in Processes : \A c \in Peers : c \in ToSet(backlog[p]) ~> c \notin ToSet(backlog[p])

=============================================================================
