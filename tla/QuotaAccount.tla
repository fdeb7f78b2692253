----------------------------- MODULE QuotaAccount -----------------------------
(***************************************************************************)
(* What the quota columns promise to whoever changes them: a change is     *)
(* booked once, at once in the database or first in memory; what is in     *)
(* memory moves to the database without gain or loss, or is lost by a      *)
(* failure, which leaves the database as it is.                            *)
(***************************************************************************)
EXTENDS Integers

CONSTANTS
    Cols,     \* quota columns
    Changes,  \* changes
    Amounts   \* amounts of a change

VARIABLES
    durable,   \* the columns
    buffered,  \* what is booked and not yet in the columns
    booked,    \* changes that were booked
    losses     \* failures so far

avars == <<durable, buffered, booked, losses>>

AInit ==
    /\ durable \in [Cols -> Int] /\ buffered = [k \in Cols |-> 0]
    /\ booked = {} /\ losses = 0

Add(f, k, a) == [f EXCEPT ![k] = @ + a]

Book(c, k, a) ==
    /\ c \notin booked /\ booked' = booked \cup {c}
    /\ \/ durable' = Add(durable, k, a) /\ UNCHANGED buffered
       \/ buffered' = Add(buffered, k, a) /\ UNCHANGED durable
    /\ UNCHANGED losses

(* The column is set, whatever was in it.                                  *)
Reset(c, k, a) ==
    /\ c \notin booked /\ booked' = booked \cup {c}
    /\ durable' = [durable EXCEPT ![k] = a] /\ UNCHANGED <<buffered, losses>>

Save ==
    /\ durable' \in [Cols -> Int] /\ buffered' \in [Cols -> Int]
    /\ \A k \in Cols : durable'[k] + buffered'[k] = durable[k] + buffered[k]
    /\ UNCHANGED <<booked, losses>>

Lose ==
    /\ losses' = losses + 1
    /\ buffered' \in [Cols -> Int]
    /\ UNCHANGED <<durable, booked>>

ANext == (\E c \in Changes, k \in Cols, a \in Amounts : Book(c, k, a) \/ Reset(c, k, a)) \/ Save \/ Lose

ASpec == AInit /\ [][ANext]_avars
=============================================================================
