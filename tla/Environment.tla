---------------------------- MODULE Environment ----------------------------
(***************************************************************************)
(* What the services of the control plane share: the Redis counters behind *)
(* their codes (pkg/sequence), the clock, and the bounds of an instance.    *)
(*                                                                         *)
(* A day has two instants: the day itself and its last two seconds, in      *)
(* which the daily counters expire.  A daily code is its prefix, day and    *)
(* number; the two random characters at its end may repeat and are left out.*)
(***************************************************************************)
EXTENDS Integers, FiniteSets

CONSTANTS
    MaxTime,    \* bound: how often the clock moves
    MaxCalls,   \* bound: how many calls are served
    MaxFaults   \* bound: how many statements fail or replicas die

ASSUME EnvironmentAssumption ==
    MaxTime \in Nat /\ MaxCalls \in Nat /\ MaxFaults \in Nat

VARIABLES
    counter,    \* Redis: the number each key holds, 0 if it does not exist
    expiry,     \* Redis: the day at the end of which a key expires
    time,       \* how many instants have passed
    served,     \* how many calls arrived
    faults      \* how many faults happened

redis == <<counter, expiry>>
environment == <<redis, time, served, faults>>

Today == time \div 2

\* The last two seconds of a day have begun.
Ending(day) == time >= 2 * day + 1

\* "seq:tenant" and the daily keys of one tenant.
Key == {"T", "CMP", "TXN"} \X (0..MaxTime)
TenantKey == <<"T", 0>>
NoExpiry == -1

EnvironmentInit ==
    /\ counter = [k \in Key |-> 0]
    /\ expiry = [k \in Key |-> NoExpiry]
    /\ time = 0 /\ served = 0 /\ faults = 0

Fault == faults < MaxFaults /\ faults' = faults + 1

\* INCR.
Increment(key) ==
    /\ counter' = [counter EXCEPT ![key] = @ + 1]
    /\ UNCHANGED expiry

Forget(keys) ==
    /\ counter' = [k \in Key |-> IF k \in keys THEN 0 ELSE counter[k]]
    /\ expiry' = [k \in Key |-> IF k \in keys THEN NoExpiry ELSE expiry[k]]

\* EXPIRE until one second before midnight.
SetExpiry(key) ==
    /\ expiry' = [expiry EXCEPT ![key] = IF counter[key] = 0 THEN @ ELSE Today]
    /\ UNCHANGED counter

\* A key goes.  The client cuts the time to live to whole seconds, so that may
\* be a second earlier than was meant, but not more; one of less than a second
\* is made a whole one, and one that is not positive deletes the key at once.
\* How much later it may be depends on the time EXPIRE takes.
Drop(key) ==
    /\ expiry[key] # NoExpiry /\ Ending(expiry[key])
    /\ Forget({key})
    /\ UNCHANGED <<time, served, faults>>

Tick ==
    /\ time < MaxTime
    /\ time' = time + 1
    /\ UNCHANGED <<redis, served, faults>>

EnvironmentTypeOK ==
    /\ counter \in [Key -> Nat]
    /\ expiry \in [Key -> 0..MaxTime \cup {NoExpiry}]
    /\ time \in 0..MaxTime /\ served \in 0..MaxCalls /\ faults \in 0..MaxFaults
=============================================================================
