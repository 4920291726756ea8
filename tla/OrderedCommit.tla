--------------------------- MODULE OrderedCommit ---------------------------
(***************************************************************************)
(* What the rekeying of two endpoints promises, whatever the network does: *)
(* generations are committed in order, first by the follower and then by   *)
(* the driver, who commits the very version the follower committed; what   *)
(* is committed is never taken back.                                       *)
(***************************************************************************)
EXTENDS Naturals

CONSTANTS
  Key,      \* the keys
  NoKey     \* before the first generation

VARIABLES
  driver,    \* the version the driver committed last (Alice)
  follower   \* the version the follower committed last (Bob)

First == [gen |-> 0, key |-> NoKey]

Init == driver = First /\ follower = First

FollowerCommits ==
  /\ follower = driver
  /\ \E k \in Key : follower' = [gen |-> driver.gen + 1, key |-> k]
  /\ UNCHANGED driver

DriverCommits ==
  /\ follower.gen = driver.gen + 1
  /\ driver' = follower
  /\ UNCHANGED follower

Next == FollowerCommits \/ DriverCommits

Spec == Init /\ [][Next]_<<driver, follower>>
=============================================================================
