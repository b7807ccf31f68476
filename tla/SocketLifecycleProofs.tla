----------------------- MODULE SocketLifecycleProofs -----------------------
(***************************************************************************)
(* Proofs about SocketLifecycle, for any processes, consumers and inode    *)
(* numbers and any number of crashes, failed calls and removals by hand.   *)
(* What concerns live sockets holds when the supervisor waits for one      *)
(* start to end before the next; SocketRace.cfg shows that it must.        *)
(***************************************************************************)
EXTENDS SocketLifecycle, TLAPS

-----------------------------------------------------------------------------
(* The inductive invariant. *)

Places == {"down", "serving"} \cup Starting \cup Stopping

\* Where a process has a socket, where its listener takes connections, and where its
\* SocketCleanup is armed.
Bound == {"listen", "stat", "chmod", "serving", "draining", "check", "unlink", "close"}
Open == {"stat", "chmod", "serving", "draining", "check", "unlink", "close"}
Guarded == {"chmod", "serving", "draining", "check", "unlink"}

SocketTypes ==
  /\ path \in Inodes \cup {None, File}
  /\ pc \in [Processes -> Places]
  /\ own \in [Processes -> Inodes \cup {None}]
  /\ saved \in [Processes -> Inodes \cup {None, File}]
  /\ listening \subseteq Processes

\* One start at a time.
OneStart == \A p, q \in Processes : pc[p] \in Starting /\ pc[q] \in Starting => p = q

\* Each process with a socket has its own inode, and its guard names it.
OwnSockets ==
  /\ \A p \in Processes : own[p] # None <=> pc[p] \in Bound
  /\ \A p \in Processes : p \in listening <=> pc[p] \in Open
  /\ \A p, q \in Processes : own[p] = own[q] /\ own[p] # None => p = q
  /\ \A p \in Processes : pc[p] \in Guarded => saved[p] = own[p]

\* The path names the socket of a process that has just bound it or is about to remove it; it
\* names no live socket when it is about to be cleared as stale, nor one that is about to be left
\* behind unless a call on it failed.
PathKept ==
  /\ \A p \in Processes : pc[p] \in {"listen", "stat", "chmod", "unlink"} => path = own[p]
  /\ \A p \in Processes : pc[p] = "close" => path # own[p] \/ path = abandoned
  /\ \A p, q \in Processes : pc[q] = "remove" /\ p \in listening => own[p] # path

IInv == SocketTypes /\ OneStart /\ OwnSockets /\ PathKept /\ ServingReachable /\ LeavesNoSocket

-----------------------------------------------------------------------------
(* The steps. *)

\* The steps that change nothing the invariant speaks of but the place of one process.
Serves ==
  UNCHANGED <<path, pc, own, saved, listening, unlinked, abandoned>>

LEMMA Steps ==
  ASSUME [Next]_vars
  PROVE  \/ Serves
         \/ \E p \in Processes :
              \/ Start(p) \/ Inspect(p) \/ Probe(p) \/ RemoveStale(p) \/ Bind(p) \/ Listen(p)
              \/ Stat(p) \/ Chmod(p) \/ StatFails(p) \/ ChmodFails(p) \/ StartFails(p)
              \/ CleanupFails(p) \/ Stop(p) \/ Drain(p) \/ Check(p) \/ Unlink(p) \/ Exit(p)
              \/ Crash(p) \/ RemoveByHand(p)
<1>1. ASSUME NEW p \in Processes, Accept(p) PROVE Serves
  BY <1>1, Zenon DEF Accept, Serves, sockets, history
<1>2. ASSUME NEW p \in Processes, NEW c \in Peers, Finish(p, c) PROVE Serves
  BY <1>2, Zenon DEF Finish, Serves, sockets, history
<1>3. ASSUME NEW c \in Clients, Connect(c) PROVE Serves
  BY <1>3, Zenon DEF Connect, Serves, sockets, history
<1>4. CASE UNCHANGED vars
  BY <1>4, Zenon DEF vars, Serves
<1> QED
  BY <1>1, <1>2, <1>3, <1>4, Zenon DEF Next, Step

\* A probe, as far as the socket is concerned.
LEMMA ProbeEffect ==
  ASSUME NEW p \in Processes, Probe(p)
  PROVE  /\ pc[p] = "probe"
         /\ \/ Accepting = {} /\ pc' = [pc EXCEPT ![p] = "remove"]
            \/ pc' = [pc EXCEPT ![p] = "down"]
         /\ UNCHANGED <<path, own, saved, listening, unlinked, abandoned>>
BY Zenon DEF Probe, sockets, history

\* The socket's variables keep their types.
LEMMA TypesStep == SocketTypes /\ [Next]_vars => SocketTypes'
<1> SUFFICES ASSUME SocketTypes, [Next]_vars PROVE SocketTypes'
  OBVIOUS
<1> USE DEF SocketTypes, Places, Starting, Stopping
<1>1. CASE Serves
  BY <1>1 DEF Serves
<1>2. ASSUME NEW p \in Processes, Start(p) \/ Inspect(p) \/ RemoveStale(p)
      PROVE  SocketTypes'
  BY <1>2 DEF Start, Inspect, RemoveStale, Goto, sockets
<1>a. ASSUME NEW p \in Processes, Probe(p) PROVE SocketTypes'
  BY <1>a, ProbeEffect, SMTT(30)
<1>b. ASSUME NEW p \in Processes, Listen(p) \/ Stat(p) \/ Chmod(p) \/ ChmodFails(p)
      PROVE  SocketTypes'
  BY <1>b DEF Listen, Stat, Chmod, ChmodFails, Goto, sockets
<1>3. ASSUME NEW p \in Processes, Bind(p) PROVE SocketTypes'
  BY <1>3, SMTT(30) DEF Bind, FreeInodes
<1>4. ASSUME NEW p \in Processes,
             \/ Stop(p) \/ Drain(p) \/ Check(p) \/ Unlink(p) \/ Exit(p)
             \/ StartFails(p) \/ StatFails(p) \/ CleanupFails(p) \/ Crash(p) \/ RemoveByHand(p)
      PROVE  SocketTypes'
  BY <1>4, SMTT(30) DEF Stop, Drain, Check, Unlink, Exit, StartFails, StatFails, CleanupFails,
     SocketStays, Crash, RemoveByHand, Close, Goto, sockets
<1> QED
  BY <1>1, <1>2, <1>a, <1>b, <1>3, <1>4, Steps, SMTT(30)

\* With serial starts, no process begins to start while another does.
LEMMA OneStartStep ==
  ASSUME SerialStarts, IInv, [Next]_vars
  PROVE  OneStart'
<1>1. SocketTypes /\ OneStart
  BY DEF IInv
<1> USE <1>1 DEF SocketTypes, OneStart, Starting
<1>2. CASE Serves
  BY <1>2 DEF Serves
<1>3. ASSUME NEW p \in Processes, Start(p) PROVE OneStart'
  BY <1>3 DEF Start, Goto
<1>4. ASSUME NEW p \in Processes,
             \/ Inspect(p) \/ RemoveStale(p) \/ Bind(p) \/ StartFails(p)
      PROVE  OneStart'
  BY <1>4 DEF Inspect, RemoveStale, Bind, StartFails, Goto
<1>5. ASSUME NEW p \in Processes, Probe(p) PROVE OneStart'
  BY <1>5, ProbeEffect, SMTT(30)
<1>6. ASSUME NEW p \in Processes, Listen(p) \/ Stat(p) \/ Chmod(p) \/ ChmodFails(p)
      PROVE  OneStart'
  BY <1>6, SMTT(30) DEF Listen, Stat, Chmod, ChmodFails, Goto
<1>7. ASSUME NEW p \in Processes,
             \/ Stop(p) \/ Drain(p) \/ Check(p) \/ Unlink(p) \/ Exit(p)
             \/ StatFails(p) \/ CleanupFails(p) \/ Crash(p) \/ RemoveByHand(p)
      PROVE  OneStart'
  BY <1>7, SMTT(30) DEF Stop, Drain, Check, Unlink, Exit, StatFails, CleanupFails, SocketStays,
     Crash, RemoveByHand, Goto
<1> QED
  BY <1>2, <1>3, <1>4, <1>5, <1>6, <1>7, Steps, SMTT(30)

\* Sockets are bound to free inodes, and a guard is armed with the socket just bound.
LEMMA OwnSocketsStep ==
  ASSUME IInv, [Next]_vars
  PROVE  OwnSockets'
<1>1. SocketTypes /\ OwnSockets /\ PathKept
  BY DEF IInv
<1> USE <1>1 DEF SocketTypes, OwnSockets, Bound, Open, Guarded
<1>2. CASE Serves
  BY <1>2, SMTT(30) DEF Serves
<1>3. ASSUME NEW p \in Processes, Start(p) \/ Inspect(p) \/ RemoveStale(p)
      PROVE  OwnSockets'
  BY <1>3 DEF Start, Inspect, RemoveStale, Goto, sockets
<1>4. ASSUME NEW p \in Processes, Bind(p) PROVE OwnSockets'
  BY <1>4, SocketAssumption, SMTT(30) DEF Bind, FreeInodes
<1>5. ASSUME NEW p \in Processes, Probe(p) PROVE OwnSockets'
  BY <1>5, ProbeEffect, SMTT(30)
<1>6. ASSUME NEW p \in Processes, Listen(p) PROVE OwnSockets'
  BY <1>6, SMTT(30) DEF Listen, Goto
<1>7. ASSUME NEW p \in Processes, Stat(p) PROVE OwnSockets'
  BY <1>7 DEF Stat, PathKept, sockets
<1>8. ASSUME NEW p \in Processes, Chmod(p) \/ ChmodFails(p) PROVE OwnSockets'
  BY <1>8, SMTT(30) DEF Chmod, ChmodFails, Goto, sockets
<1>9. ASSUME NEW p \in Processes,
             Stop(p) \/ Drain(p) \/ Check(p) \/ Unlink(p) \/ StatFails(p) \/ CleanupFails(p)
      PROVE  OwnSockets'
  BY <1>9, SMTT(30) DEF Stop, Drain, Check, Unlink, StatFails, CleanupFails, SocketStays, Goto, sockets
<1>10. ASSUME NEW p \in Processes, Exit(p) \/ Crash(p) \/ StartFails(p) PROVE OwnSockets'
  BY <1>10 DEF Exit, Crash, StartFails, Close, Goto
<1>11. ASSUME NEW p \in Processes, RemoveByHand(p) PROVE OwnSockets'
  BY <1>11, SMTT(30) DEF RemoveByHand
<1> QED
  BY <1>2, <1>3, <1>4, <1>5, <1>6, <1>7, <1>8, <1>9, <1>10, <1>11, Steps, ZenonT(30)

\* What the path names changes only by the hand of the one process that may change it.
LEMMA PathKeptStep ==
  ASSUME IInv, [Next]_vars
  PROVE  PathKept'
<1>1. SocketTypes /\ OneStart /\ OwnSockets /\ PathKept
  BY DEF IInv
<1> USE <1>1 DEF SocketTypes, PathKept
<1>2. CASE Serves
  BY <1>2 DEF Serves
<1>3. ASSUME NEW p \in Processes, Start(p) \/ Inspect(p) PROVE PathKept'
  BY <1>3, SMTT(30) DEF Start, Inspect, Goto, sockets, history
<1>4. ASSUME NEW p \in Processes, RemoveStale(p) PROVE PathKept'
  BY <1>4, SocketAssumption, SMTT(30) DEF RemoveStale, OneStart, OwnSockets, Starting, Bound, Open
<1>5. ASSUME NEW p \in Processes, Bind(p) PROVE PathKept'
  BY <1>5, SocketAssumption, SMTT(30)
     DEF Bind, FreeInodes, OneStart, OwnSockets, Starting, Bound, Open, history
<1>6. ASSUME NEW p \in Processes, Probe(p) PROVE PathKept'
  BY <1>6, ProbeEffect, SMTT(30) DEF Accepting
<1>7. ASSUME NEW p \in Processes, Listen(p) PROVE PathKept'
  BY <1>7, SMTT(30) DEF Listen, Goto, OneStart, Starting, history
<1>8. ASSUME NEW p \in Processes, Stat(p) PROVE PathKept'
  BY <1>8 DEF Stat, OwnSockets, Bound, sockets, history
<1>9. ASSUME NEW p \in Processes, Chmod(p) \/ ChmodFails(p) PROVE PathKept'
  BY <1>9, SMTT(30) DEF Chmod, ChmodFails, Goto, sockets, history
<1>10. ASSUME NEW p \in Processes, Stop(p) \/ Drain(p) PROVE PathKept'
  BY <1>10 DEF Stop, Drain, Goto, sockets, history
<1>11. ASSUME NEW p \in Processes, Check(p) PROVE PathKept'
  BY <1>11, SMTT(30) DEF Check, OwnSockets, Guarded, sockets, history
<1>12. ASSUME NEW p \in Processes, Unlink(p) PROVE PathKept'
  BY <1>12, SMTT(30) DEF Unlink, Goto, OwnSockets, Bound, Open, history
<1>13. ASSUME NEW p \in Processes,
              \/ Exit(p) \/ Crash(p) \/ StartFails(p) \/ StatFails(p) \/ CleanupFails(p)
       PROVE  PathKept'
  BY <1>13, SMTT(30) DEF Exit, Crash, StartFails, StatFails, CleanupFails, SocketStays, Abandon,
     Close, Goto, OwnSockets, Bound, Open, sockets
<1>14. ASSUME NEW p \in Processes, RemoveByHand(p) PROVE PathKept'
  BY <1>14, SMTT(30) DEF RemoveByHand, OwnSockets, Bound, Open
<1> QED
  BY <1>2, <1>3, <1>4, <1>5, <1>6, <1>7, <1>8, <1>9, <1>10, <1>11, <1>12, <1>13, <1>14, Steps, ZenonT(30)

\* No step takes the path away from a process that serves, except a removal by hand.
LEMMA ReachableStep ==
  ASSUME IInv, [Next]_vars
  PROVE  ServingReachable'
<1>1. SocketTypes /\ OwnSockets /\ PathKept /\ ServingReachable
  BY DEF IInv
<1> USE <1>1 DEF SocketTypes, ServingReachable
<1>2. CASE Serves
  BY <1>2 DEF Serves
<1>3. ASSUME NEW p \in Processes, Start(p) \/ Inspect(p) PROVE ServingReachable'
  BY <1>3, SMTT(30) DEF Start, Inspect, Goto, sockets, history
<1>4. ASSUME NEW p \in Processes, RemoveStale(p) PROVE ServingReachable'
  BY <1>4, SMTT(30) DEF RemoveStale, OwnSockets, PathKept, Open
<1>5. ASSUME NEW p \in Processes, Bind(p) PROVE ServingReachable'
  BY <1>5, SMTT(30) DEF Bind, OwnSockets, Bound, history
<1>6. ASSUME NEW p \in Processes, Probe(p) PROVE ServingReachable'
  BY <1>6, ProbeEffect, SMTT(30)
<1>7. ASSUME NEW p \in Processes, Listen(p) \/ Stat(p) \/ ChmodFails(p)
      PROVE  ServingReachable'
  BY <1>7 DEF Listen, Stat, ChmodFails, Goto, sockets, history
<1>8. ASSUME NEW p \in Processes, Chmod(p) PROVE ServingReachable'
  BY <1>8 DEF Chmod, Goto, PathKept, sockets, history
<1>9. ASSUME NEW p \in Processes, Stop(p) \/ Drain(p) \/ Check(p) PROVE ServingReachable'
  BY <1>9 DEF Stop, Drain, Check, Goto, sockets, history
<1>10. ASSUME NEW p \in Processes, Unlink(p) PROVE ServingReachable'
  BY <1>10, SMTT(30) DEF Unlink, Goto, OwnSockets, PathKept, Bound, history
<1>11. ASSUME NEW p \in Processes,
              \/ Exit(p) \/ Crash(p) \/ StartFails(p) \/ StatFails(p) \/ CleanupFails(p)
       PROVE  ServingReachable'
  BY <1>11, SMTT(30) DEF Exit, Crash, StartFails, StatFails, CleanupFails, SocketStays, Close, Goto, sockets
<1>12. ASSUME NEW p \in Processes, RemoveByHand(p) PROVE ServingReachable'
  BY <1>12, SMTT(30) DEF RemoveByHand, OwnSockets, Bound
<1> QED
  BY <1>2, <1>3, <1>4, <1>5, <1>6, <1>7, <1>8, <1>9, <1>10, <1>11, <1>12, Steps, SMTT(30)

\* A process that comes down has removed its socket, died with it, or failed to remove it.
LEMMA LeavesStep ==
  ASSUME IInv, [Next]_vars
  PROVE  LeavesNoSocket'
<1>1. SocketTypes /\ OwnSockets /\ PathKept /\ LeavesNoSocket
  BY DEF IInv
<1> USE <1>1 DEF SocketTypes, LeavesNoSocket
<1>2. CASE UNCHANGED <<path, own, abandoned>>
  BY <1>2
<1>3. CASE path' = None
  BY <1>3, SocketAssumption, SMTT(30)
<1>4. ASSUME NEW p \in Processes, Bind(p) PROVE LeavesNoSocket'
  BY <1>4, SMTT(30) DEF Bind, history
<1>5. ASSUME NEW p \in Processes, Exit(p) PROVE LeavesNoSocket'
  BY <1>5, SMTT(30) DEF Exit, Close, Goto, PathKept
<1>6. ASSUME NEW p \in Processes, Crash(p) \/ StartFails(p) \/ StatFails(p) \/ CleanupFails(p)
      PROVE  LeavesNoSocket'
  BY <1>6, SocketAssumption, SMTT(30)
     DEF Crash, StartFails, StatFails, CleanupFails, SocketStays, Abandon, Close, sockets
<1>7. \/ UNCHANGED <<path, own, abandoned>> \/ path' = None
      \/ \E p \in Processes :
           \/ Bind(p) \/ Exit(p) \/ Crash(p) \/ StartFails(p) \/ StatFails(p) \/ CleanupFails(p)
  BY Steps, Zenon
     DEF Serves, Start, Inspect, Probe, RemoveStale, Listen, Stat, Chmod, ChmodFails,
         Stop, Drain, Check, Unlink, RemoveByHand, sockets, history
<1> QED
  BY <1>2, <1>3, <1>4, <1>5, <1>6, <1>7, SMTT(30)

LEMMA InitIInv == Init => IInv
<1> SUFFICES ASSUME Init PROVE IInv
  OBVIOUS
<1>1. path \in Inodes \cup {None, File}
  <2>1. (CHOOSE i \in Inodes : TRUE) \in Inodes
    BY SocketAssumption
  <2> QED
    BY <2>1 DEF Init
<1>2. /\ \A p \in Processes : pc[p] = "down" /\ own[p] = None
      /\ listening = {}
  BY DEF Init
<1>3. SocketTypes
  BY <1>1, SMTT(30) DEF Init, SocketTypes, Places
<1>4. OneStart /\ OwnSockets /\ PathKept /\ ServingReachable
  BY <1>2 DEF OneStart, OwnSockets, PathKept, ServingReachable, Starting, Bound, Open, Guarded
<1>5. LeavesNoSocket
  BY DEF Init, LeavesNoSocket
<1> QED
  BY <1>3, <1>4, <1>5 DEF IInv

LEMMA IInvStep ==
  ASSUME SerialStarts
  PROVE  IInv /\ [Next]_vars => IInv'
<1> SUFFICES ASSUME IInv, [Next]_vars PROVE IInv'
  OBVIOUS
<1>1. SocketTypes'
  BY TypesStep DEF IInv
<1> QED
  BY <1>1, OneStartStep, OwnSocketsStep, PathKeptStep, ReachableStep, LeavesStep, SMTT(30) DEF IInv

\* A process that serves is found at the path, unless its socket was removed by hand: neither
\* the replacement of a stale socket nor the cleanup of another process, however late it runs,
\* takes a live socket away.
THEOREM LiveSocketKept ==
  ASSUME SerialStarts
  PROVE  Spec => []ServingReachable
<1>1. Init => IInv
  BY InitIInv
<1>2. IInv /\ [Next]_vars => IInv'
  BY IInvStep
<1>3. IInv => ServingReachable
  BY SMTT(30) DEF IInv
<1> QED
  BY <1>1, <1>2, <1>3, PTL DEF Spec

\* A socket that belongs to no process was left by a crash, or by a process whose own call on it
\* failed: shutdown, a failed set_permissions and whatever other processes do meanwhile leave none.
THEOREM NoSocketLeft ==
  ASSUME SerialStarts
  PROVE  Spec => []LeavesNoSocket
<1>1. Init => IInv
  BY InitIInv
<1>2. IInv /\ [Next]_vars => IInv'
  BY IInvStep
<1>3. IInv => LeavesNoSocket
  BY DEF IInv
<1> QED
  BY <1>1, <1>2, <1>3, PTL DEF Spec

=============================================================================
