--------------------------------- MODULE Pool ---------------------------------
(***************************************************************************)
(* update/pool.c and the loop of update/main.c that drains it.  Lists are  *)
(* sequences, head first.  poll_pool() is cut where it reads the socket,   *)
(* the clock or one list element, so that packets arrive and time passes   *)
(* between any two of its steps.                                           *)
(***************************************************************************)
EXTENDS Integers, Sequences, SequencesExt

CONSTANTS Entries,     \* struct pool_entry, one in each struct netclient
          Masters,     \* those of masters: main.c never removes them
          Addrs,       \* network addresses
          Addr,        \* entry->addr
          MaxPending,  \* MAX_PENDING
          MaxRetries,  \* MAX_RETRIES
          Second,      \* clock ticks in a second
          MaxAnswers,  \* packets one request may cause (a server list has many)
          MaxStray,    \* packets nobody asked for, over a whole behaviour
          MaxInbox     \* packets the socket buffer holds

ASSUME PoolAssumption ==
    /\ Masters \subseteq Entries
    /\ Addr \in [Entries -> Addrs]
    /\ MaxPending \in Nat \ {0}
    /\ MaxRetries \in Nat
    /\ Second \in Nat \ {0}
    /\ MaxAnswers \in Nat
    /\ MaxStray \in Nat
    /\ MaxInbox \in Nat

VARIABLES idle, pending, failed,  \* the three lists
          nrPending,              \* nr_pending
          retries,                \* entry->retries
          age,                    \* ticks since entry->start_time, up to Second
          pc,                     \* where poll_pool() or its caller stands
          walk,                   \* list_foreach: index of the iterated entry
          ret,                    \* what poll_pool() returned to its caller
          inbox,                  \* packets in the socket buffer: their sources
          owed,                   \* answers each address may still send
          strays                  \* unasked packets sent so far

lists == <<idle, pending, failed, nrPending, retries>>
net   == <<inbox, owed, strays>>
vars  == <<lists, age, pc, walk, ret, net>>

NoEntry == <<>>

-----------------------------------------------------------------------------

Goto(from, to) == pc = from /\ pc' = to

\* Mutant of Full: one request too many.
FullLate == idle = <<>> \/ nrPending > MaxPending

\* fill_pending_list() has nothing more to send.
Full == idle = <<>> \/ nrPending >= MaxPending

\* Mutant of EntryExpired: retries are not counted.
EntryExpiredUncounted(e, rest) ==
    /\ UNCHANGED retries
    /\ IF retries[e] = MaxRetries
         THEN failed' = Cons(e, failed) /\ idle' = rest
         ELSE idle' = Cons(e, rest) /\ UNCHANGED failed

\* entry_expired(), for an entry already unlinked; rest is what idle became.
EntryExpired(e, rest) ==
    IF retries[e] = MaxRetries
      THEN /\ failed' = Cons(e, failed)
           /\ idle' = rest
           /\ UNCHANGED retries
      ELSE /\ idle' = Cons(e, rest)
           /\ retries' = [retries EXCEPT ![e] = @ + 1]
           /\ UNCHANGED failed

\* The entries get_pending_entry() compares equal to a, and the one it takes.
Matching(a) == {i \in 1..Len(pending) : Addr[pending[i]] = a}
GetPendingEntry(a) ==
    pending[CHOOSE i \in Matching(a) : \A k \in Matching(a) : i <= k]

Unlink(s, e) == RemoveAt(s, CHOOSE i \in 1..Len(s) : s[i] = e)

-----------------------------------------------------------------------------

Init == /\ idle = <<>> /\ pending = <<>> /\ failed = <<>>
        /\ nrPending = 0
        /\ retries = [e \in Entries |-> 0]
        /\ age = [e \in Entries |-> 0]
        /\ pc = "idle"
        /\ walk = 1
        /\ ret = NoEntry
        /\ inbox = <<>>
        /\ owed = [a \in Addrs |-> 0]
        /\ strays = 0

\* add_pool_entry(): main.c adds the entries whose job is due, then polls.
AddPoolEntry(e) ==
    /\ pc = "idle"
    /\ e \notin ToSet(idle)
    /\ idle' = Cons(e, idle)
    /\ retries' = [retries EXCEPT ![e] = 0]
    /\ age' = [age EXCEPT ![e] = 0]
    /\ UNCHANGED <<pending, failed, nrPending, pc, walk, ret, net>>

PollPool == /\ Goto("idle", "fill")
            /\ UNCHANGED <<lists, age, walk, ret, net>>

\* One turn of fill_pending_list() whose request is sent ...
AddPendingEntry ==
    /\ pc \in {"fill", "refill"}
    /\ ~Full
    /\ LET e == Last(idle) IN
        /\ idle' = Front(idle)
        /\ pending' = Cons(e, pending)
        /\ nrPending' = nrPending + 1
        /\ age' = [age EXCEPT ![e] = 0]
        /\ owed' = [owed EXCEPT ![Addr[e]] = MaxAnswers]
    /\ UNCHANGED <<failed, retries, pc, walk, ret, inbox, strays>>

\* ... or is not, when send_packet() fails.
SendFails ==
    /\ pc \in {"fill", "refill"}
    /\ ~Full
    /\ EntryExpired(Last(idle), Front(idle))
    /\ UNCHANGED <<pending, nrPending, age, pc, walk, ret, net>>

Filled == /\ Full
          /\ \/ Goto("fill", "clean")
             \/ Goto("refill", "failed")
          /\ walk' = 1
          /\ UNCHANGED <<lists, age, ret, net>>

\* Mutant of CleanExpired: nr_pending is not decremented.
CleanExpiredUncounted ==
    /\ pc \in {"clean", "cleanup"}
    /\ walk <= Len(pending)
    /\ age[pending[walk]] >= Second
    /\ pending' = RemoveAt(pending, walk)
    /\ EntryExpired(pending[walk], idle)
    /\ UNCHANGED <<nrPending, age, pc, walk, ret, net>>

\* One turn of the loop of clean_expired_pending_entries().
CleanExpired ==
    /\ pc \in {"clean", "cleanup"}
    /\ walk <= Len(pending)
    /\ age[pending[walk]] >= Second
    /\ pending' = RemoveAt(pending, walk)
    /\ nrPending' = nrPending - 1
    /\ EntryExpired(pending[walk], idle)
    /\ UNCHANGED <<age, pc, walk, ret, net>>

CleanSkip ==
    /\ pc \in {"clean", "cleanup"}
    /\ walk <= Len(pending)
    /\ age[pending[walk]] < Second
    /\ walk' = walk + 1
    /\ UNCHANGED <<lists, age, pc, ret, net>>

Cleaned == /\ walk > Len(pending)
           /\ \/ Goto("clean", "refill")
              \/ Goto("cleanup", "fill")
           /\ UNCHANGED <<lists, age, walk, ret, net>>

\* Mutant of ReturnFailed: the entry stays in the list of failed ones.
ReturnFailedLinked ==
    /\ failed # <<>>
    /\ Goto("failed", "handle")
    /\ ret' = [entry |-> Head(failed), packet |-> FALSE]
    /\ UNCHANGED <<lists, age, walk, net>>

\* The end of next_failed_entry(), and what poll_pool() does of it.
ReturnFailed ==
    /\ failed # <<>>
    /\ Goto("failed", "handle")
    /\ failed' = Tail(failed)
    /\ ret' = [entry |-> Head(failed), packet |-> FALSE]
    /\ UNCHANGED <<idle, pending, nrPending, retries, age, walk, net>>

NoneFailed == /\ failed = <<>>
              /\ pending # <<>>
              /\ Goto("failed", "recv")
              /\ UNCHANGED <<lists, age, walk, ret, net>>

ReturnNull == /\ failed = <<>>
              /\ pending = <<>>
              /\ Goto("failed", "idle")
              /\ UNCHANGED <<lists, age, walk, ret, net>>

\* recv_packet() gets a packet from an address that was asked.
RecvAnswer ==
    /\ inbox # <<>>
    /\ Matching(Head(inbox)) # {}
    /\ Goto("recv", "handle")
    /\ LET e == GetPendingEntry(Head(inbox)) IN
        /\ ret' = [entry |-> e, packet |-> TRUE]
        /\ age' = [age EXCEPT ![e] = 0]
    /\ inbox' = Tail(inbox)
    /\ UNCHANGED <<lists, walk, owed, strays>>

\* A packet from elsewhere, one too small, or poll() interrupted.
RecvStray ==
    /\ inbox # <<>>
    /\ Matching(Head(inbox)) = {}
    /\ Goto("recv", "cleanup")
    /\ inbox' = Tail(inbox)
    /\ walk' = 1
    /\ UNCHANGED <<lists, age, ret, owed, strays>>

\* poll() timed out: it waited a whole second.
RecvTimeout ==
    /\ inbox = <<>>
    /\ Goto("recv", "cleanup")
    /\ age' = [e \in Entries |-> Second]
    /\ walk' = 1
    /\ UNCHANGED <<lists, ret, net>>

\* handle_server_packet() removes the entry first; the other handlers do not.
HandleServerPacket ==
    /\ Goto("handle", "fill")
    /\ ret.packet
    /\ ret.entry \notin Masters
    /\ pending' = Unlink(pending, ret.entry)
    /\ nrPending' = nrPending - 1
    /\ ret' = NoEntry
    /\ UNCHANGED <<idle, failed, retries, age, walk, net>>

HandleOther ==
    /\ Goto("handle", "fill")
    /\ ret.packet => ret.entry \in Masters
    /\ ret' = NoEntry
    /\ UNCHANGED <<lists, age, walk, net>>

-----------------------------------------------------------------------------

(***************************************************************************)
(* The environment.  The loop of clean_expired_pending_entries() reads the *)
(* clock once, so time does not pass for it.                               *)
(***************************************************************************)
Tick == /\ pc \notin {"idle", "clean", "cleanup"}
        /\ age' = [e \in Entries |-> IF age[e] < Second THEN age[e] + 1 ELSE Second]
        /\ UNCHANGED <<lists, pc, walk, ret, net>>

Arrive(a) == /\ owed[a] > 0
             /\ Len(inbox) < MaxInbox
             /\ inbox' = Append(inbox, a)
             /\ owed' = [owed EXCEPT ![a] = @ - 1]
             /\ UNCHANGED <<lists, age, pc, walk, ret, strays>>

Stray(a) == /\ strays < MaxStray
            /\ Len(inbox) < MaxInbox
            /\ inbox' = Append(inbox, a)
            /\ strays' = strays + 1
            /\ UNCHANGED <<lists, age, pc, walk, ret, owed>>

Poller == \/ AddPendingEntry \/ SendFails \/ Filled
          \/ CleanExpired \/ CleanSkip \/ Cleaned
          \/ ReturnFailed \/ NoneFailed \/ ReturnNull
          \/ RecvAnswer \/ RecvStray \/ RecvTimeout
          \/ HandleServerPacket \/ HandleOther

Next == \/ \E e \in Entries : AddPoolEntry(e)
        \/ PollPool
        \/ Poller
        \/ Tick
        \/ \E a \in Addrs : Arrive(a) \/ Stray(a)

Spec == Init /\ [][Next]_vars

\* The process runs and poll() has a timeout; nothing is assumed of the network.
FairSpec == Spec /\ WF_vars(Poller)

-----------------------------------------------------------------------------

Held == ToSet(idle) \cup ToSet(pending) \cup ToSet(failed)

TypeOK == /\ idle \in Seq(Entries) /\ pending \in Seq(Entries)
          /\ failed \in Seq(Entries)
          /\ nrPending \in 0..MaxPending
          /\ retries \in [Entries -> 0..MaxRetries]
          /\ age \in [Entries -> 0..Second]
          /\ pc \in {"idle", "fill", "clean", "refill", "failed", "recv",
                     "cleanup", "handle"}
          /\ walk \in Nat \ {0}
          /\ ret \in {NoEntry} \cup [entry : Entries, packet : BOOLEAN]
          /\ inbox \in Seq(Addrs)
          /\ owed \in [Addrs -> 0..MaxAnswers]
          /\ strays \in 0..MaxStray

(***************************************************************************)
(* An entry moved between lists while they are walked is linked in exactly *)
(* one of them, once, and nr_pending counts the pending ones: an entry     *)
(* linked twice would corrupt both lists, and a counter that drifted would *)
(* stop the polling or trip the assertion of add_pending_entry().          *)
(***************************************************************************)
Distinct(s) == \A i, k \in 1..Len(s) : s[i] = s[k] => i = k

ListsExclusive == /\ Distinct(idle) /\ Distinct(pending) /\ Distinct(failed)
                  /\ ToSet(idle) \cap ToSet(pending) = {}
                  /\ ToSet(idle) \cap ToSet(failed) = {}
                  /\ ToSet(pending) \cap ToSet(failed) = {}
                  /\ nrPending = Len(pending)

(***************************************************************************)
(* remove_pool_entry() unlinks from the pending list: the entry it is      *)
(* given by handle_server_packet() is still there, and an entry given back *)
(* without an answer is in no list, so that its job can be scheduled and   *)
(* it can be added again.                                                  *)
(***************************************************************************)
ReturnedEntry == ret # NoEntry => IF ret.packet
                                    THEN ret.entry \in ToSet(pending)
                                    ELSE ret.entry \notin Held

(***************************************************************************)
(* Whatever is lost, delayed, duplicated or not even sent, a round of      *)
(* polling ends: the loop of update() reaches its COMMIT.                  *)
(***************************************************************************)
RoundEnds == (pc # "idle") ~> (pc = "idle")

(***************************************************************************)
(* The lists implement the promise of PoolSpec.  The number of tries of an *)
(* entry is read off its list: an idle entry was asked retries times, a    *)
(* pending or failed one once more.                                        *)
(***************************************************************************)
Tries == [e \in Held |-> IF e \in ToSet(idle) THEN retries[e] ELSE retries[e] + 1]

Abstract == INSTANCE PoolSpec WITH
                MaxTries <- MaxRetries + 1,
                tries    <- Tries,
                awaiting <- ToSet(pending),
                polling  <- pc # "idle"

AbstractSpec == Abstract!Spec
=============================================================================
