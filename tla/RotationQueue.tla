----------------------------- MODULE RotationQueue -----------------------------
(***************************************************************************)
(* What the scheduling of treasuries promises: a queue whose first clients *)
(* are taken together and put behind all others. A client that joins is    *)
(* put somewhere in the queue, never in front of clients twice; nobody is  *)
(* dropped except when the scheduler restarts.                             *)
(***************************************************************************)
EXTENDS Naturals, Sequences, FiniteSets

CONSTANTS Clients, \* the clients that may join
          Batch    \* how many are taken at most in one turn

VARIABLES queue, \* clients in the order of their next turn
          taken  \* the clients taken in the latest turn

RInit == queue = <<>> /\ taken = <<>>

\* New clients join together at one point of the queue.
Join ==
  \E p \in 0..Len(queue), new \in UNION {[1..n -> Clients] : n \in 1..Cardinality(Clients)} :
    /\ \A i, j \in DOMAIN new : i # j => new[i] # new[j]
    /\ \A i \in DOMAIN new, j \in DOMAIN queue : new[i] # queue[j]
    /\ queue' = SubSeq(queue, 1, p) \o new \o SubSeq(queue, p + 1, Len(queue))
    /\ UNCHANGED taken

\* A turn takes as many as fit, from the front, and puts them at the end.
Take ==
  LET n == IF Len(queue) < Batch THEN Len(queue) ELSE Batch IN
  /\ queue # <<>>
  /\ taken' = SubSeq(queue, 1, n)
  /\ queue' = SubSeq(queue, n + 1, Len(queue)) \o taken'

\* What is over is forgotten, so that two equal turns are two steps.
Forget == taken # <<>> /\ taken' = <<>> /\ UNCHANGED queue

Restart == queue' = <<>> /\ taken' = <<>>

RSpec == RInit /\ [][Join \/ Take \/ Forget \/ Restart]_<<queue, taken>>
================================================================================
