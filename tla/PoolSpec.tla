------------------------------- MODULE PoolSpec -------------------------------
(***************************************************************************)
(* What update/pool.h promises to update/main.c for one round of polling:  *)
(* entries are added, then poll_pool() gives them back one at a time, with *)
(* an answer or without, until it returns NULL.  It bounds how many        *)
(* requests are outstanding, and asks again before it gives an entry up.   *)
(* Lists, clock and sockets are not visible.                               *)
(***************************************************************************)
EXTENDS Integers, FiniteSets

CONSTANTS Entries, MaxPending, MaxTries

None == <<>>

VARIABLES tries,     \* requests tried for each entry the pool holds
          awaiting,  \* entries asked and not yet given up
          ret,       \* what poll_pool() returned, None if it did not (yet)
          polling    \* a round of polling is going on

vars == <<tries, awaiting, ret, polling>>

Held == DOMAIN tries
Without(e) == [f \in Held \ {e} |-> tries[f]]

Init == /\ tries = None
        /\ awaiting = {}
        /\ ret = None
        /\ polling = FALSE

Add(e) == /\ ~polling
          /\ e \notin Held
          /\ tries' = [f \in Held \cup {e} |-> IF f = e THEN 0 ELSE tries[f]]
          /\ UNCHANGED <<awaiting, ret, polling>>

Start == /\ ~polling
         /\ polling' = TRUE
         /\ UNCHANGED <<tries, awaiting, ret>>

\* A request that could not be sent counts as tried, but awaits nothing.
Send(e) == /\ polling /\ ret = None
           /\ e \in Held \ awaiting
           /\ tries[e] < MaxTries
           /\ Cardinality(awaiting) < MaxPending
           /\ tries' = [tries EXCEPT ![e] = @ + 1]
           /\ awaiting' \in {awaiting, awaiting \cup {e}}
           /\ UNCHANGED <<ret, polling>>

Expire(e) == /\ polling /\ ret = None
             /\ e \in awaiting
             /\ awaiting' = awaiting \ {e}
             /\ UNCHANGED <<tries, ret, polling>>

\* Only an entry that awaits an answer is given back with one.
Answer(e) == /\ polling /\ ret = None
             /\ e \in awaiting
             /\ ret' = [entry |-> e, packet |-> TRUE]
             /\ UNCHANGED <<tries, awaiting, polling>>

\* An entry is given up only after every try, and leaves the pool.
Failure(e) == /\ polling /\ ret = None
              /\ e \in Held \ awaiting
              /\ tries[e] = MaxTries
              /\ tries' = Without(e)
              /\ ret' = [entry |-> e, packet |-> FALSE]
              /\ UNCHANGED <<awaiting, polling>>

\* The caller takes what was returned, and may remove an answering entry.
Keep == /\ ret # None
        /\ ret' = None
        /\ UNCHANGED <<tries, awaiting, polling>>

Remove == /\ ret # None /\ ret.packet
          /\ ret' = None
          /\ tries' = Without(ret.entry)
          /\ awaiting' = awaiting \ {ret.entry}
          /\ UNCHANGED polling

\* NULL: the pool holds nothing any more.
Finish == /\ polling /\ ret = None
          /\ Held = {}
          /\ polling' = FALSE
          /\ UNCHANGED <<tries, awaiting, ret>>

Next == \/ \E e \in Entries : \/ Add(e) \/ Send(e) \/ Expire(e)
                              \/ Answer(e) \/ Failure(e)
        \/ Start \/ Keep \/ Remove \/ Finish

Spec == Init /\ [][Next]_vars
=============================================================================
