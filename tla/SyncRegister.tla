------------------------------- MODULE SyncRegister -------------------------------
(***************************************************************************)
(* What the control server promises to the installations of an account: a   *)
(* register per conversation whose revision counts its changes and whose    *)
(* state is the last of them; a change takes effect at most once however    *)
(* often its request is repeated, it is newer than the one it replaces, and *)
(* a revoked installation changes nothing any more                          *)
(* (docs/architecture/SYNC.md, docs/development/client-i1/C3E_*.md).        *)
(***************************************************************************)
EXTENDS Naturals, Sequences

CONSTANTS Device, Conversation, None

VARIABLES
  log,      \* the changes every conversation took, in order: the n-th made revision n
  entity,   \* what the server tells of a conversation: its revision and its state
  members   \* the installations that may make changes

registers == <<log, entity, members>>

\* A change is identified by its installation and the number it has there.
Used(c) == \E e \in Conversation : \E n \in 1 .. Len(log[e]) :
             log[e][n].dev = c.dev /\ log[e][n].seq = c.seq

Newer(c, e) == log[e] # <<>> => c.content.rev > log[e][Len(log[e])].content.rev

Take(e) ==
  LET c == log'[e][Len(log[e]) + 1]
  IN /\ log' = [log EXCEPT ![e] = Append(@, c)]
     /\ entity' = [entity EXCEPT ![e] = [rev |-> Len(log[e]) + 1, state |-> c.content]]
     /\ c.dev \in members
     /\ ~Used(c)
     /\ Newer(c, e)
     /\ UNCHANGED members

Leave == members' \subseteq members /\ UNCHANGED <<log, entity>>

Init ==
  /\ log = [e \in Conversation |-> <<>>]
  /\ entity = [e \in Conversation |-> [rev |-> 0, state |-> None]]
  /\ members = Device

Next == Leave \/ \E e \in Conversation : Take(e)

Spec == Init /\ [][Next]_registers
================================================================================
