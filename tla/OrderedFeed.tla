----------------------------- MODULE OrderedFeed -----------------------------
(***************************************************************************)
(* What the stream promises a consumer.  There is one log of published     *)
(* states.  A consumer attaches at some entry of the log that no gap has   *)
(* disowned, learns that entry, and is then given every later entry once   *)
(* and in order until it is detached.                                      *)
(***************************************************************************)
EXTENDS Integers, Sequences

CONSTANTS Consumers, Entries, Initial, Trusted(_)

VARIABLES
  log,   \* the entries published so far
  seen,  \* how many of them each consumer knows; 0 when it is detached
  view   \* the entry a consumer holds

vars == <<log, seen, view>>

Init ==
  /\ log = <<Initial>>
  /\ seen = [c \in Consumers |-> 0]
  /\ view = [c \in Consumers |-> Initial]

Extend ==
  /\ Len(log') = Len(log) + 1
  /\ log' = Append(log, log'[Len(log')]) /\ log'[Len(log')] \in Entries
  /\ UNCHANGED <<seen, view>>

Attach(c) ==
  /\ seen[c] = 0
  /\ \E n \in 1 .. Len(log) :
       /\ Trusted(log[n])
       /\ seen' = [seen EXCEPT ![c] = n]
       /\ view' = [view EXCEPT ![c] = log[n]]
  /\ UNCHANGED log

Advance(c) ==
  /\ seen[c] > 0 /\ seen[c] < Len(log)
  /\ seen' = [seen EXCEPT ![c] = @ + 1]
  /\ view' = [view EXCEPT ![c] = log[seen[c] + 1]]
  /\ UNCHANGED log

Detach(c) ==
  /\ seen[c] > 0
  /\ seen' = [seen EXCEPT ![c] = 0]
  /\ view' = [view EXCEPT ![c] = Initial]
  /\ UNCHANGED log

Next == Extend \/ \E c \in Consumers : Attach(c) \/ Advance(c) \/ Detach(c)

Spec == Init /\ [][Next]_vars

==============================================================================
