------------------------------- MODULE Delivery -------------------------------
(***************************************************************************)
(* What the relayer promises of the packages it pays for: on every channel *)
(* it submits them in turn.  A package is submitted only when it exists    *)
(* and all packages before it have been delivered or are on their way, and *)
(* submitting the package whose turn it is gets it delivered.              *)
(*                                                                         *)
(* A channel is two counters and a set: created[c] packages exist, with    *)
(* sequences 0 to created[c]-1; due[c] is the sequence expected once all   *)
(* that has been submitted is executed; and submitted holds the pairs      *)
(* <<c, s>> the relayer has sent.                                          *)
(***************************************************************************)
EXTENDS Integers

CONSTANT Channels

VARIABLES created, due, submitted
vars == <<created, due, submitted>>

Init ==
  /\ created \in [Channels -> Nat]
  /\ due = [c \in Channels |-> 0]
  /\ submitted = {}

\* A block creates any number of packages on any of the channels.
Create ==
  /\ created' \in [Channels -> Nat]
  /\ \A c \in Channels : created'[c] >= created[c]
  /\ UNCHANGED <<due, submitted>>

\* A package that others deliver first may be submitted all the same.
Submit(c, s) ==
  /\ s < created[c]
  /\ submitted' = submitted \cup {<<c, s>>}
  /\ due' = [due EXCEPT ![c] = IF s = @ THEN @ + 1 ELSE @]
  /\ UNCHANGED created

\* Other relayers deliver packages too.
Overtaken ==
  /\ due' \in [Channels -> Nat]
  /\ \A c \in Channels : due'[c] >= due[c]
  /\ UNCHANGED <<created, submitted>>

Next ==
  \/ Create
  \/ \E c \in Channels : \E s \in 0..due[c] : Submit(c, s)
  \/ Overtaken

Spec == Init /\ [][Next]_vars
===============================================================================
