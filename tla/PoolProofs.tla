------------------------------- MODULE PoolProofs -------------------------------
(***************************************************************************)
(* The pool of pool.c, for any number of entries, any window and any       *)
(* number of retries: its lists stay lists, and it implements PoolSpec.    *)
(***************************************************************************)
EXTENDS Pool, ListLemmas

\* TypeOK and ListsExclusive, for the lists; an entry fails after every retry.
Lists ==
    /\ idle \in Seq(Entries) /\ pending \in Seq(Entries) /\ failed \in Seq(Entries)
    /\ Once(idle) /\ Once(pending) /\ Once(failed)
    /\ ToSet(idle) \cap ToSet(pending) = {}
    /\ ToSet(idle) \cap ToSet(failed) = {}
    /\ ToSet(pending) \cap ToSet(failed) = {}
    /\ nrPending = Len(pending)
    /\ nrPending <= MaxPending
    /\ retries \in [Entries -> 0..MaxRetries]
    /\ \A e \in ToSet(failed) : retries[e] = MaxRetries

\* TypeOK for the rest; what is known of the lists where poll_pool() stands.
Control ==
    /\ age \in [Entries -> 0..Second]
    /\ pc \in {"idle", "fill", "clean", "refill", "failed", "recv",
               "cleanup", "handle"}
    /\ walk \in Nat \ {0}
    /\ ret \in {NoEntry} \cup [entry : Entries, packet : BOOLEAN]
    /\ inbox \in Seq(Addrs)
    /\ owed \in [Addrs -> 0..MaxAnswers]
    /\ strays \in 0..MaxStray
    /\ ret # NoEntry <=> pc = "handle"
    /\ pc = "idle" => pending = <<>> /\ failed = <<>>
    /\ pc = "failed" => Full

IInv == Lists /\ Control /\ ReturnedEntry

-----------------------------------------------------------------------------

\* What entry_expired() does to the lists.
Expired(e, rest) ==
    \/ /\ retries[e] = MaxRetries /\ retries' = retries
       /\ ToSet(idle)' = ToSet(rest)
       /\ ToSet(failed)' = ToSet(failed) \cup {e}
    \/ /\ retries[e] < MaxRetries /\ retries' = [retries EXCEPT ![e] = @ + 1]
       /\ ToSet(idle)' = ToSet(rest) \cup {e}
       /\ ToSet(failed)' = ToSet(failed)

LEMMA ExpiredLists ==
  ASSUME PoolAssumption, Lists, NEW e \in Entries, NEW rest \in Seq(Entries),
         Once(rest), e \notin ToSet(rest), e \notin ToSet(failed),
         ToSet(rest) \cap ToSet(failed) = {},
         EntryExpired(e, rest)
  PROVE  /\ idle' \in Seq(Entries) /\ failed' \in Seq(Entries)
         /\ Once(idle') /\ Once(failed')
         /\ ToSet(idle') \cap ToSet(failed') = {}
         /\ retries' \in [Entries -> 0..MaxRetries]
         /\ \A f \in ToSet(failed') : retries'[f] = MaxRetries
         /\ Expired(e, rest)
<1>1. /\ failed \in Seq(Entries) /\ Once(failed)
      /\ retries \in [Entries -> 0..MaxRetries] /\ MaxRetries \in Nat
      /\ \A f \in ToSet(failed) : retries[f] = MaxRetries
  BY DEF Lists, PoolAssumption
<1>2. CASE retries[e] = MaxRetries
  <2>1. failed' = Cons(e, failed) /\ idle' = rest /\ retries' = retries
    BY <1>2 DEF EntryExpired
  <2>2. /\ failed' \in Seq(Entries) /\ Once(failed')
        /\ ToSet(failed') = ToSet(failed) \cup {e}
    <3>1. /\ Cons(e, failed) \in Seq(Entries)
          /\ Len(Cons(e, failed)) = Len(failed) + 1
          /\ ToSet(Cons(e, failed)) = ToSet(failed) \cup {e}
          /\ Once(failed) /\ e \notin ToSet(failed) => Once(Cons(e, failed))
      BY <1>1, Consed
    <3> QED
      BY <1>1, <2>1, <3>1
  <2> QED
    BY <1>1, <1>2, <2>1, <2>2 DEF Expired
<1>3. CASE retries[e] # MaxRetries
  <2>1. /\ failed' = failed /\ idle' = Cons(e, rest)
        /\ retries' = [retries EXCEPT ![e] = @ + 1]
    BY <1>3 DEF EntryExpired
  <2>2. /\ idle' \in Seq(Entries) /\ Once(idle')
        /\ ToSet(idle') = ToSet(rest) \cup {e}
    BY <2>1, Consed
  <2>3. retries[e] < MaxRetries
    BY <1>1, <1>3
  <2>4. retries' \in [Entries -> 0..MaxRetries]
    BY <1>1, <2>1, <2>3
  <2>5. \A f \in ToSet(failed) : retries'[f] = MaxRetries
    <3>1. \A f \in ToSet(failed) : f # e /\ f \in Entries
      BY <1>1, ElementsIn
    <3> QED
      BY <1>1, <2>1, <3>1
  <2> QED
    BY <1>1, <2>1, <2>2, <2>3, <2>4, <2>5 DEF Expired
<1> QED
  BY <1>2, <1>3

LEMMA EmptyLists == ToSet(<<>>) = {}
  BY DEF ToSet

LEMMA AddPoolEntryLists ==
  ASSUME PoolAssumption, IInv, NEW e \in Entries, AddPoolEntry(e)
  PROVE  /\ Lists'
         /\ e \notin Held
         /\ ToSet(idle)' = ToSet(idle) \cup {e}
<1>1. /\ idle' = Cons(e, idle) /\ retries' = [retries EXCEPT ![e] = 0]
      /\ pending' = pending /\ failed' = failed /\ nrPending' = nrPending
      /\ e \notin ToSet(idle)
      /\ pending = <<>> /\ failed = <<>>
  BY DEF AddPoolEntry, IInv, Control
<1>2. ToSet(pending) = {} /\ ToSet(failed) = {}
  BY <1>1, EmptyLists
<1>3. /\ idle' \in Seq(Entries) /\ Once(idle')
      /\ ToSet(idle') = ToSet(idle) \cup {e}
  <2>1. idle \in Seq(Entries) /\ Once(idle)
    BY DEF IInv, Lists
  <2>2. /\ Cons(e, idle) \in Seq(Entries)
        /\ Len(Cons(e, idle)) = Len(idle) + 1
        /\ ToSet(Cons(e, idle)) = ToSet(idle) \cup {e}
        /\ Once(idle) /\ e \notin ToSet(idle) => Once(Cons(e, idle))
    BY <2>1, Consed
  <2> QED
    BY <1>1, <2>1, <2>2
<1>4. retries' \in [Entries -> 0..MaxRetries]
  BY <1>1 DEF IInv, Lists, PoolAssumption
<1> QED
  BY <1>1, <1>2, <1>3, <1>4 DEF IInv, Lists, Held

LEMMA AddPendingEntryLists ==
  ASSUME PoolAssumption, IInv, AddPendingEntry
  PROVE  /\ Lists'
         /\ Last(idle) \in ToSet(idle) /\ Last(idle) \in Entries
         /\ ToSet(idle)' = ToSet(idle) \ {Last(idle)}
         /\ ToSet(pending)' = ToSet(pending) \cup {Last(idle)}
         /\ Len(pending) < MaxPending
<1> DEFINE e == Last(idle)
<1>1. /\ idle # <<>> /\ ~ (nrPending >= MaxPending)
      /\ idle' = Front(idle) /\ pending' = Cons(e, pending)
      /\ nrPending' = nrPending + 1
      /\ failed' = failed /\ retries' = retries
  BY DEF AddPendingEntry, Full
<1>2. /\ Front(idle) \in Seq(Entries) /\ Once(Front(idle))
      /\ e \in ToSet(idle) /\ e \in Entries
      /\ ToSet(Front(idle)) = ToSet(idle) \ {e}
  BY <1>1, Fronted, ElementsIn DEF IInv, Lists
<1>3. e \notin ToSet(pending)
  BY <1>2 DEF IInv, Lists
<1> HIDE DEF e
<1>4. /\ pending' \in Seq(Entries) /\ Once(pending')
      /\ Len(pending') = Len(pending) + 1
      /\ ToSet(pending') = ToSet(pending) \cup {e}
  <2>1. pending \in Seq(Entries) /\ Once(pending)
    BY DEF IInv, Lists
  <2>2. /\ Cons(e, pending) \in Seq(Entries)
        /\ Len(Cons(e, pending)) = Len(pending) + 1
        /\ ToSet(Cons(e, pending)) = ToSet(pending) \cup {e}
        /\ Once(pending) /\ e \notin ToSet(pending) => Once(Cons(e, pending))
    BY <1>2, <2>1, Consed
  <2> QED
    BY <1>1, <1>3, <2>1, <2>2
<1>5. nrPending' = Len(pending') /\ nrPending' <= MaxPending /\ Len(pending) < MaxPending
  <2>1. Len(pending) \in Nat /\ nrPending = Len(pending) /\ MaxPending \in Nat
    BY LenProperties DEF IInv, Lists, PoolAssumption
  <2> QED
    BY <1>1, <1>4, <2>1
<1> QED
  BY <1>1, <1>2, <1>4, <1>5 DEF IInv, Lists, e

LEMMA SendFailsLists ==
  ASSUME PoolAssumption, IInv, SendFails
  PROVE  /\ Lists'
         /\ Last(idle) \in ToSet(idle) /\ Last(idle) \in Entries
         /\ ToSet(Front(idle)) = ToSet(idle) \ {Last(idle)}
         /\ Expired(Last(idle), Front(idle))
         /\ Len(pending) < MaxPending
<1> DEFINE e == Last(idle)
           rest == Front(idle)
<1>1. /\ idle # <<>> /\ ~ (nrPending >= MaxPending)
      /\ EntryExpired(e, rest)
      /\ nrPending' = nrPending /\ pending' = pending
  BY DEF SendFails, Full
<1>2. /\ rest \in Seq(Entries) /\ Once(rest)
      /\ e \in ToSet(idle) /\ e \in Entries
      /\ ToSet(rest) = ToSet(idle) \ {e}
  BY <1>1, Fronted, ElementsIn DEF IInv, Lists
<1> HIDE DEF e, rest
<1>3. /\ e \notin ToSet(rest) /\ e \notin ToSet(failed) /\ e \notin ToSet(pending)
      /\ ToSet(rest) \cap ToSet(failed) = {}
  BY <1>2 DEF IInv, Lists
<1>4. /\ idle' \in Seq(Entries) /\ failed' \in Seq(Entries)
      /\ Once(idle') /\ Once(failed')
      /\ ToSet(idle') \cap ToSet(failed') = {}
      /\ retries' \in [Entries -> 0..MaxRetries]
      /\ \A f \in ToSet(failed') : retries'[f] = MaxRetries
      /\ Expired(e, rest)
  BY <1>1, <1>2, <1>3, ExpiredLists DEF IInv
<1>5. /\ ToSet(idle') \cap ToSet(pending) = {}
      /\ ToSet(pending) \cap ToSet(failed') = {}
  BY <1>2, <1>3, <1>4 DEF Expired, IInv, Lists
<1>6. Len(pending) < MaxPending
  <2>1. Len(pending) \in Nat /\ nrPending = Len(pending) /\ MaxPending \in Nat
    BY LenProperties DEF IInv, Lists, PoolAssumption
  <2> QED
    BY <1>1, <2>1
<1> QED
  BY <1>1, <1>2, <1>4, <1>5, <1>6 DEF IInv, Lists, e, rest

LEMMA CleanExpiredLists ==
  ASSUME PoolAssumption, IInv, CleanExpired
  PROVE  /\ Lists'
         /\ pending[walk] \in ToSet(pending) /\ pending[walk] \in Entries
         /\ ToSet(pending)' = ToSet(pending) \ {pending[walk]}
         /\ Expired(pending[walk], idle)
<1> DEFINE e == pending[walk]
<1>1. /\ walk <= Len(pending)
      /\ pending' = RemoveAt(pending, walk)
      /\ nrPending' = nrPending - 1
      /\ EntryExpired(e, idle)
  BY DEF CleanExpired
<1>2. walk \in 1..Len(pending) /\ Len(pending) \in Nat
  BY <1>1, LenProperties DEF IInv, Lists, Control
<1>3. /\ pending' \in Seq(Entries) /\ Len(pending') = Len(pending) - 1
  BY <1>1, <1>2, Removed DEF IInv, Lists
<1>4. /\ Once(pending')
      /\ ToSet(pending') = ToSet(pending) \ {e}
  BY <1>1, <1>2, RemovedElements DEF IInv, Lists
<1>5. e \in ToSet(pending) /\ e \in Entries
  BY <1>2, ElementsIn DEF IInv, Lists
<1> HIDE DEF e
<1>6. /\ e \notin ToSet(idle) /\ e \notin ToSet(failed)
      /\ ToSet(idle) \cap ToSet(failed) = {}
      /\ idle \in Seq(Entries) /\ Once(idle)
  BY <1>5 DEF IInv, Lists
<1>7. /\ idle' \in Seq(Entries) /\ failed' \in Seq(Entries)
      /\ Once(idle') /\ Once(failed')
      /\ ToSet(idle') \cap ToSet(failed') = {}
      /\ retries' \in [Entries -> 0..MaxRetries]
      /\ \A f \in ToSet(failed') : retries'[f] = MaxRetries
      /\ Expired(e, idle)
  BY <1>1, <1>5, <1>6, ExpiredLists DEF IInv
<1>8. /\ ToSet(idle') \cap ToSet(pending') = {}
      /\ ToSet(pending') \cap ToSet(failed') = {}
  BY <1>4, <1>6, <1>7 DEF Expired, IInv, Lists
<1>9. nrPending' = Len(pending') /\ nrPending' <= MaxPending
  BY <1>1, <1>2, <1>3 DEF IInv, Lists, PoolAssumption
<1> QED
  BY <1>3, <1>4, <1>5, <1>7, <1>8, <1>9 DEF Lists, e

LEMMA ReturnFailedLists ==
  ASSUME IInv, ReturnFailed
  PROVE  /\ Lists'
         /\ Head(failed) \in ToSet(failed) /\ Head(failed) \in Entries
         /\ ToSet(failed)' = ToSet(failed) \ {Head(failed)}
<1>1. /\ failed # <<>> /\ failed' = Tail(failed)
      /\ idle' = idle /\ pending' = pending
      /\ nrPending' = nrPending /\ retries' = retries
  BY DEF ReturnFailed
<1>2. /\ failed' \in Seq(Entries) /\ Once(failed')
      /\ Head(failed) \in ToSet(failed) /\ Head(failed) \in Entries
      /\ ToSet(failed') = ToSet(failed) \ {Head(failed)}
  BY <1>1, Tailed, ElementsIn DEF IInv, Lists
<1> QED
  BY <1>1, <1>2 DEF IInv, Lists

LEMMA HandleServerPacketLists ==
  ASSUME PoolAssumption, IInv, HandleServerPacket
  PROVE  /\ Lists'
         /\ ret.entry \in ToSet(pending)
         /\ ToSet(pending)' = ToSet(pending) \ {ret.entry}
<1> DEFINE i == CHOOSE i \in 1..Len(pending) : pending[i] = ret.entry
<1>1. /\ pending' = RemoveAt(pending, i) /\ nrPending' = nrPending - 1
      /\ idle' = idle /\ failed' = failed /\ retries' = retries
  BY DEF HandleServerPacket, Unlink
<1>2. ret.entry \in ToSet(pending)
  BY DEF HandleServerPacket, Goto, IInv, Control, ReturnedEntry
<1>3. i \in 1..Len(pending) /\ pending[i] = ret.entry
  <2>1. \E k \in 1..Len(pending) : pending[k] = ret.entry
    BY <1>2, ElementsIn DEF IInv, Lists
  <2> QED
    BY <2>1
<1> HIDE DEF i
<1>4. pending' \in Seq(Entries) /\ Len(pending') = Len(pending) - 1
  BY <1>1, <1>3, Removed DEF IInv, Lists
<1>5. /\ Once(pending')
      /\ ToSet(pending') = ToSet(pending) \ {ret.entry}
  BY <1>1, <1>3, RemovedElements DEF IInv, Lists
<1>6. nrPending' = Len(pending') /\ nrPending' <= MaxPending
  <2>1. Len(pending) \in Nat
    BY LenProperties DEF IInv, Lists
  <2> QED
    BY <1>1, <1>4, <2>1 DEF IInv, Lists, PoolAssumption
<1> QED
  BY <1>1, <1>2, <1>4, <1>5, <1>6 DEF IInv, Lists

-----------------------------------------------------------------------------

LEMMA ListsFrame == ASSUME Lists, UNCHANGED lists PROVE Lists'
  BY DEF Lists, lists

\* A record is not NoEntry.
LEMMA SomeEntry == \A e, p : [entry |-> e, packet |-> p] # NoEntry
<1> SUFFICES ASSUME NEW e, NEW p, [entry |-> e, packet |-> p] = NoEntry PROVE FALSE
  OBVIOUS
<1>1. "entry" \in DOMAIN [entry |-> e, packet |-> p]
  OBVIOUS
<1>2. DOMAIN NoEntry = {}
  BY DEF NoEntry
<1> QED
  BY <1>1, <1>2

LEMMA Initially == ASSUME PoolAssumption, Init PROVE IInv
<1>1. Lists
  <2>1. <<>> \in Seq(Entries) /\ Len(<<>>) = 0 /\ Once(<<>>)
    BY EmptySeq DEF Once
  <2> QED
    BY <2>1, EmptyLists DEF Init, Lists, PoolAssumption
<1>2. Control
  <2>1. <<>> \in Seq(Addrs)
    BY EmptySeq
  <2> QED
    BY <2>1 DEF Init, Control, PoolAssumption
<1>3. ReturnedEntry
  BY DEF Init, ReturnedEntry
<1> QED
  BY <1>1, <1>2, <1>3 DEF IInv

LEMMA AddPoolEntryKeeps ==
  ASSUME PoolAssumption, IInv, NEW e \in Entries, AddPoolEntry(e) PROVE IInv'
<1>1. Lists'
  BY AddPoolEntryLists
<1>2. Control'
  BY DEF AddPoolEntry, net, IInv, Control, PoolAssumption
<1>3. ReturnedEntry'
  BY DEF AddPoolEntry, IInv, Control, ReturnedEntry
<1> QED
  BY <1>1, <1>2, <1>3 DEF IInv

LEMMA AddPendingEntryKeeps ==
  ASSUME PoolAssumption, IInv, AddPendingEntry PROVE IInv'
<1>1. Lists'
  BY AddPendingEntryLists
<1>2. age' \in [Entries -> 0..Second] /\ owed' \in [Addrs -> 0..MaxAnswers]
  <2> DEFINE e == Last(idle)
  <2>1. age' = [age EXCEPT ![e] = 0] /\ owed' = [owed EXCEPT ![Addr[e]] = MaxAnswers]
    BY DEF AddPendingEntry
  <2>2. age \in [Entries -> 0..Second] /\ Second \in Nat
    BY DEF IInv, Control, PoolAssumption
  <2>3. owed \in [Addrs -> 0..MaxAnswers] /\ MaxAnswers \in Nat
    BY DEF IInv, Control, PoolAssumption
  <2>4. e \in Entries /\ Addr[e] \in Addrs
    BY AddPendingEntryLists DEF PoolAssumption
  <2> HIDE DEF e
  <2>5. age' \in [Entries -> 0..Second]
    BY <2>1, <2>2, <2>4
  <2>6. owed' \in [Addrs -> 0..MaxAnswers]
    BY <2>1, <2>3, <2>4
  <2> QED
    BY <2>5, <2>6
<1>3. pc \in {"fill", "refill"} /\ UNCHANGED <<pc, walk, ret, inbox, strays>>
  BY DEF AddPendingEntry
<1>4. Control'
  BY <1>2, <1>3 DEF IInv, Control
<1>5. ReturnedEntry'
  BY <1>3 DEF IInv, Control, ReturnedEntry
<1> QED
  BY <1>1, <1>4, <1>5 DEF IInv

LEMMA SendFailsKeeps == ASSUME PoolAssumption, IInv, SendFails PROVE IInv'
<1>1. Lists'
  BY SendFailsLists
<1>2. Control'
  BY DEF SendFails, net, IInv, Control
<1>3. ReturnedEntry'
  BY DEF SendFails, IInv, Control, ReturnedEntry
<1> QED
  BY <1>1, <1>2, <1>3 DEF IInv

LEMMA CleanExpiredKeeps == ASSUME PoolAssumption, IInv, CleanExpired PROVE IInv'
<1>1. Lists'
  BY CleanExpiredLists
<1>2. Control'
  BY DEF CleanExpired, net, IInv, Control
<1>3. ReturnedEntry'
  BY DEF CleanExpired, IInv, Control, ReturnedEntry
<1> QED
  BY <1>1, <1>2, <1>3 DEF IInv

LEMMA ReturnFailedKeeps == ASSUME IInv, ReturnFailed PROVE IInv'
<1>1. Lists' /\ Head(failed) \in Entries
  BY ReturnFailedLists
<1>2. ret' = [entry |-> Head(failed), packet |-> FALSE] /\ ret' # NoEntry
  BY SomeEntry DEF ReturnFailed
<1>3. Control'
  BY <1>1, <1>2 DEF ReturnFailed, Goto, net, IInv, Control
<1>4. ret'.entry = Head(failed) /\ ret'.packet = FALSE
  BY <1>2
<1>5. Head(failed) \notin Held'
  <2>1. /\ Head(failed) \in ToSet(failed)
        /\ ToSet(failed') = ToSet(failed) \ {Head(failed)}
    BY ReturnFailedLists
  <2>2. idle' = idle /\ pending' = pending
    BY DEF ReturnFailed
  <2> QED
    BY <2>1, <2>2 DEF Held, IInv, Lists
<1>6. ReturnedEntry'
  BY <1>4, <1>5 DEF ReturnedEntry
<1> QED
  BY <1>1, <1>3, <1>6 DEF IInv

\* The entry an address is attributed to is pending.
LEMMA PendingEntry ==
  ASSUME IInv, NEW a, Matching(a) # {}
  PROVE  GetPendingEntry(a) \in ToSet(pending) /\ GetPendingEntry(a) \in Entries
<1>1. Matching(a) \in SUBSET (1..Len(pending)) /\ Len(pending) \in Nat
  BY LenProperties DEF Matching, IInv, Lists
<1>2. \E i \in Matching(a) : \A k \in Matching(a) : i <= k
  BY <1>1, LeastNatural
<1>3. PICK i \in 1..Len(pending) : GetPendingEntry(a) = pending[i]
  BY <1>1, <1>2 DEF GetPendingEntry
<1> QED
  BY <1>3, ElementsIn DEF IInv, Lists

LEMMA RecvAnswerKeeps == ASSUME PoolAssumption, IInv, RecvAnswer PROVE IInv'
<1> DEFINE e == GetPendingEntry(Head(inbox))
<1>1. e \in ToSet(pending) /\ e \in Entries
  BY PendingEntry DEF RecvAnswer
<1>2. /\ ret' = [entry |-> e, packet |-> TRUE] /\ age' = [age EXCEPT ![e] = 0]
      /\ inbox # <<>> /\ inbox' = Tail(inbox)
      /\ pc' = "handle" /\ UNCHANGED lists /\ walk' = walk
      /\ owed' = owed /\ strays' = strays
  BY DEF RecvAnswer, Goto
<1> HIDE DEF e
<1>3. Lists'
  BY <1>2, ListsFrame DEF IInv
<1>4. ret' # NoEntry /\ ret'.entry = e /\ ret'.packet = TRUE
  BY <1>2, SomeEntry
<1>5. inbox' \in Seq(Addrs)
  BY <1>2, HeadTailProperties DEF IInv, Control
<1>6. Control'
  BY <1>1, <1>2, <1>4, <1>5 DEF IInv, Control, PoolAssumption
<1>7. ReturnedEntry'
  BY <1>1, <1>2, <1>4 DEF ReturnedEntry, lists
<1> QED
  BY <1>3, <1>6, <1>7 DEF IInv

LEMMA RecvStrayKeeps == ASSUME IInv, RecvStray PROVE IInv'
<1>1. /\ inbox # <<>> /\ inbox' = Tail(inbox)
      /\ pc = "recv" /\ pc' = "cleanup" /\ UNCHANGED lists /\ walk' = 1
      /\ owed' = owed /\ strays' = strays /\ ret' = ret /\ age' = age
  BY DEF RecvStray, Goto
<1>2. Lists'
  BY <1>1, ListsFrame DEF IInv
<1>3. inbox' \in Seq(Addrs)
  BY <1>1, HeadTailProperties DEF IInv, Control
<1>4. Control' /\ ReturnedEntry'
  BY <1>1, <1>3 DEF IInv, Control, ReturnedEntry
<1> QED
  BY <1>2, <1>4 DEF IInv

LEMMA HandleServerPacketKeeps ==
  ASSUME PoolAssumption, IInv, HandleServerPacket PROVE IInv'
<1>1. Lists'
  BY HandleServerPacketLists
<1>2. Control'
  BY DEF HandleServerPacket, Goto, net, IInv, Control
<1>3. ReturnedEntry'
  BY DEF HandleServerPacket, ReturnedEntry
<1> QED
  BY <1>1, <1>2, <1>3 DEF IInv

\* The steps that move nothing.
LEMMA FrameKeeps ==
  ASSUME PoolAssumption, IInv,
         \/ PollPool \/ Filled \/ CleanSkip \/ Cleaned \/ NoneFailed \/ ReturnNull
         \/ RecvTimeout \/ HandleOther \/ Tick
         \/ \E a \in Addrs : Arrive(a) \/ Stray(a)
         \/ UNCHANGED vars
  PROVE  IInv'
<1>1. UNCHANGED lists
  BY DEF PollPool, Filled, CleanSkip, Cleaned, NoneFailed, ReturnNull, RecvTimeout,
         HandleOther, Tick, Arrive, Stray, vars
<1>2. Lists'
  BY <1>1, ListsFrame DEF IInv
<1>3. ReturnedEntry'
  <2>1. ret' = ret \/ ret' = NoEntry
    BY DEF PollPool, Filled, CleanSkip, Cleaned, NoneFailed, ReturnNull, RecvTimeout,
           HandleOther, Tick, Arrive, Stray, vars
  <2> QED
    BY <1>1, <2>1 DEF IInv, ReturnedEntry, Held, lists
<1>4. Full' <=> Full
  BY <1>1 DEF Full, lists
<1>5. ASSUME PollPool PROVE Control'
  BY <1>1, <1>4, <1>5 DEF PollPool, Goto, net, lists, IInv, Control
<1>6. ASSUME Filled PROVE Control'
  BY <1>1, <1>4, <1>6 DEF Filled, Goto, net, lists, IInv, Control
<1>7. ASSUME CleanSkip PROVE Control'
  <2>1. walk' \in Nat \ {0}
    BY <1>7 DEF CleanSkip, IInv, Control
  <2> QED
    BY <1>1, <1>4, <1>7, <2>1 DEF CleanSkip, net, lists, IInv, Control
<1>8. ASSUME Cleaned PROVE Control'
  BY <1>1, <1>4, <1>8 DEF Cleaned, Goto, net, lists, IInv, Control
<1>9. ASSUME NoneFailed \/ ReturnNull PROVE Control'
  BY <1>1, <1>4, <1>9 DEF NoneFailed, ReturnNull, Goto, net, lists, IInv, Control
<1>10. ASSUME RecvTimeout PROVE Control'
  BY <1>1, <1>4, <1>10 DEF RecvTimeout, Goto, net, lists, IInv, Control, PoolAssumption
<1>11. ASSUME HandleOther PROVE Control'
  BY <1>1, <1>4, <1>11 DEF HandleOther, Goto, net, lists, IInv, Control
<1>12. ASSUME Tick PROVE Control'
  BY <1>1, <1>4, <1>12 DEF Tick, net, lists, IInv, Control, PoolAssumption
<1>13. ASSUME NEW a \in Addrs, Arrive(a) \/ Stray(a) PROVE Control'
  <2>1. inbox \in Seq(Addrs) /\ inbox' = Append(inbox, a)
    BY <1>13 DEF Arrive, Stray, IInv, Control
  <2>2. inbox' \in Seq(Addrs)
    BY <2>1, AppendProperties
  <2>3. owed' \in [Addrs -> 0..MaxAnswers] /\ strays' \in 0..MaxStray
    <3>1. CASE Arrive(a)
      BY <3>1 DEF Arrive, IInv, Control, PoolAssumption
    <3>2. CASE Stray(a)
      BY <3>2 DEF Stray, IInv, Control, PoolAssumption
    <3> QED
      BY <1>13, <3>1, <3>2
  <2> QED
    BY <1>1, <1>4, <1>13, <2>2, <2>3 DEF Arrive, Stray, lists, IInv, Control
<1>14. ASSUME UNCHANGED vars PROVE Control'
  BY <1>1, <1>4, <1>14 DEF vars, net, lists, IInv, Control
<1> QED
  BY <1>2, <1>3, <1>5, <1>6, <1>7, <1>8, <1>9, <1>10, <1>11, <1>12, <1>13, <1>14
     DEF IInv

-----------------------------------------------------------------------------

LEMMA Inductive == ASSUME PoolAssumption, IInv, [Next]_vars PROVE IInv'
<1>1. CASE \E e \in Entries : AddPoolEntry(e)
  BY <1>1, AddPoolEntryKeeps
<1>2. CASE AddPendingEntry
  BY <1>2, AddPendingEntryKeeps
<1>3. CASE SendFails
  BY <1>3, SendFailsKeeps
<1>4. CASE CleanExpired
  BY <1>4, CleanExpiredKeeps
<1>5. CASE ReturnFailed
  BY <1>5, ReturnFailedKeeps
<1>6. CASE RecvAnswer
  BY <1>6, RecvAnswerKeeps
<1>7. CASE RecvStray
  BY <1>7, RecvStrayKeeps
<1>8. CASE HandleServerPacket
  BY <1>8, HandleServerPacketKeeps
<1>9. CASE \/ PollPool \/ Filled \/ CleanSkip \/ Cleaned \/ NoneFailed \/ ReturnNull
           \/ RecvTimeout \/ HandleOther \/ Tick
           \/ \E a \in Addrs : Arrive(a) \/ Stray(a)
           \/ UNCHANGED vars
  BY <1>9, FrameKeeps
<1> QED
  BY <1>1, <1>2, <1>3, <1>4, <1>5, <1>6, <1>7, <1>8, <1>9 DEF Next, Poller

\* The inductive invariant: every property below is read off it.
THEOREM Invariance == Spec => []IInv
<1>1. Init => IInv
  BY PoolAssumption, Initially
<1>2. IInv /\ [Next]_vars => IInv'
  BY PoolAssumption, Inductive
<1> QED
  BY <1>1, <1>2, PTL DEF Spec

\* The lists hold entries, and no counter leaves the range the code relies on.
THEOREM TypeCorrect == Spec => []TypeOK
<1>1. IInv => TypeOK
  <2>1. ASSUME IInv PROVE nrPending \in 0..MaxPending
    <3>1. Len(pending) \in Nat
      BY <2>1, LenProperties DEF IInv, Lists
    <3> QED
      BY <2>1, <3>1, PoolAssumption DEF IInv, Lists, PoolAssumption
  <2> QED
    BY <2>1 DEF IInv, Lists, Control, TypeOK
<1> QED
  BY <1>1, Invariance, PTL

(***************************************************************************)
(* Whatever packets arrive and however time passes between two steps of    *)
(* poll_pool(), an entry is linked at most once, in one list, and          *)
(* nr_pending is the length of the pending list.                           *)
(***************************************************************************)
THEOREM AlwaysExclusive == Spec => []ListsExclusive
<1>1. IInv => ListsExclusive
  BY DEF IInv, Lists, ListsExclusive, Once, Distinct
<1> QED
  BY <1>1, Invariance, PTL

\* The entry handed to the caller is pending if it answered, else in no list.
THEOREM AlwaysReturnedEntry == Spec => []ReturnedEntry
<1>1. IInv => ReturnedEntry
  BY DEF IInv
<1> QED
  BY <1>1, Invariance, PTL

-----------------------------------------------------------------------------

(***************************************************************************)
(* The refinement: what each step does to Held and Tries, then the step of *)
(* PoolSpec that it is.                                                    *)
(***************************************************************************)
LEMMA AddStep ==
  ASSUME PoolAssumption, IInv, NEW e \in Entries, AddPoolEntry(e) PROVE Abstract!Add(e)
<1>1. /\ e \notin Held /\ ToSet(idle)' = ToSet(idle) \cup {e}
      /\ ToSet(pending)' = ToSet(pending) /\ ToSet(failed)' = ToSet(failed)
      /\ retries' = [retries EXCEPT ![e] = 0]
      /\ retries \in [Entries -> 0..MaxRetries]
      /\ pc = "idle" /\ pc' = pc /\ ret' = ret
  BY AddPoolEntryLists DEF AddPoolEntry, IInv, Lists
<1>2. ToSet(idle) \subseteq Entries /\ Held \subseteq Entries
  BY ElementsIn DEF IInv, Lists, Held
<1>3. Held' = Held \cup {e}
  BY <1>1 DEF Held
<1>4. Tries' = [f \in Held \cup {e} |-> IF f = e THEN 0 ELSE Tries[f]]
  <2>1. \A f \in Held : retries'[f] = retries[f] /\ f # e
    BY <1>1, <1>2
  <2>2. retries'[e] = 0 /\ e \in ToSet(idle)'
    BY <1>1
  <2>3. \A f \in Held : f \in ToSet(idle)' <=> f \in ToSet(idle)
    BY <1>1
  <2> QED
    BY <1>3, <2>1, <2>2, <2>3 DEF Tries
<1>5. DOMAIN Tries = Held
  BY DEF Tries
<1> QED
  BY <1>1, <1>4, <1>5 DEF Abstract!Add, Abstract!Held

LEMMA SendStep ==
  ASSUME PoolAssumption, IInv, AddPendingEntry \/ SendFails
  PROVE  Last(idle) \in Entries /\ Abstract!Send(Last(idle))
<1> DEFINE e == Last(idle)
<1>1. /\ e \in ToSet(idle) /\ e \in Entries
      /\ Len(pending) < MaxPending
  BY AddPendingEntryLists, SendFailsLists
<1>2. pc # "idle" /\ pc' = pc /\ ret = NoEntry /\ ret' = ret
  BY DEF AddPendingEntry, SendFails, IInv, Control
<1>3. Cardinality(ToSet(pending)) < MaxPending
  <2>1. Cardinality(ToSet(pending)) \in Nat /\ Cardinality(ToSet(pending)) <= Len(pending)
    BY ElementsCounted DEF IInv, Lists
  <2>2. Len(pending) \in Nat /\ MaxPending \in Nat
    BY LenProperties DEF IInv, Lists, PoolAssumption
  <2> QED
    BY <1>1, <2>1, <2>2
<1>4. e \in Held \ ToSet(pending) /\ DOMAIN Tries = Held
  BY <1>1 DEF Held, Tries, IInv, Lists
<1>5. Tries[e] < MaxRetries + 1
  <2>1. Tries[e] = retries[e] /\ retries[e] \in 0..MaxRetries
    BY <1>1, <1>4 DEF Tries, IInv, Lists
  <2> QED
    BY <2>1 DEF PoolAssumption
<1>6. /\ Tries' = [Tries EXCEPT ![e] = @ + 1]
      /\ ToSet(pending)' \in {ToSet(pending), ToSet(pending) \cup {e}}
  <2>1. CASE AddPendingEntry
    <3>1. /\ ToSet(idle)' = ToSet(idle) \ {e}
          /\ ToSet(pending)' = ToSet(pending) \cup {e}
          /\ ToSet(failed)' = ToSet(failed)
          /\ retries' = retries
      BY <2>1, AddPendingEntryLists DEF AddPendingEntry
    <3> HIDE DEF e
    <3>2. Held' = Held
      BY <1>1, <3>1 DEF Held
    <3> QED
      BY <1>1, <1>4, <3>1, <3>2 DEF Tries
  <2>2. CASE SendFails
    <3>1. /\ ToSet(Front(idle)) = ToSet(idle) \ {e}
          /\ Expired(e, Front(idle))
          /\ ToSet(pending)' = ToSet(pending)
      BY <2>2, SendFailsLists DEF SendFails
    <3>2. retries \in [Entries -> 0..MaxRetries] /\ Held \subseteq Entries
      BY ElementsIn DEF IInv, Lists, Held
    <3>3. ToSet(idle) \cap ToSet(failed) = {}
      BY DEF IInv, Lists
    <3> HIDE DEF e
    <3>4. Held' = Held
      BY <1>1, <3>1 DEF Held, Expired
    <3>5. Tries' = [Tries EXCEPT ![e] = @ + 1]
      BY <1>1, <1>4, <3>1, <3>2, <3>3, <3>4 DEF Tries, Expired
    <3> QED
      BY <3>1, <3>5
  <2> QED
    BY <2>1, <2>2
<1> HIDE DEF e
<1>7. Abstract!Cardinality(ToSet(pending)) = Cardinality(ToSet(pending))
  BY DEF Abstract!Cardinality, Cardinality
<1>8. Abstract!Send(e)
  BY <1>1, <1>2, <1>3, <1>4, <1>5, <1>6, <1>7
     DEF Abstract!Send, Abstract!Held, Abstract!None, NoEntry
<1> QED
  BY <1>1, <1>8 DEF e

LEMMA ExpireStep ==
  ASSUME PoolAssumption, IInv, CleanExpired
  PROVE  pending[walk] \in Entries /\ Abstract!Expire(pending[walk])
<1> DEFINE e == pending[walk]
<1>1. /\ e \in ToSet(pending) /\ e \in Entries
      /\ ToSet(pending)' = ToSet(pending) \ {e}
      /\ Expired(e, idle)
  BY CleanExpiredLists
<1>2. pc # "idle" /\ pc' = pc /\ ret = NoEntry /\ ret' = ret
  BY DEF CleanExpired, IInv, Control
<1>3. /\ retries \in [Entries -> 0..MaxRetries] /\ Held \subseteq Entries
      /\ e \notin ToSet(idle) /\ e \in Held
  BY <1>1, ElementsIn DEF IInv, Lists, Held
<1> HIDE DEF e
<1>4. Held' = Held
  BY <1>1 DEF Held, Expired
<1>5. Tries' = Tries
  BY <1>1, <1>3, <1>4 DEF Tries, Expired
<1> QED
  BY <1>1, <1>2, <1>5 DEF Abstract!Expire, Abstract!None, NoEntry, e

LEMMA FailureStep ==
  ASSUME PoolAssumption, IInv, ReturnFailed
  PROVE  Head(failed) \in Entries /\ Abstract!Failure(Head(failed))
<1> DEFINE e == Head(failed)
<1>1. /\ e \in ToSet(failed) /\ e \in Entries
      /\ ToSet(failed)' = ToSet(failed) \ {e}
      /\ ToSet(idle)' = ToSet(idle) /\ ToSet(pending)' = ToSet(pending)
      /\ retries' = retries
  BY ReturnFailedLists DEF ReturnFailed
<1>2. /\ pc = "failed" /\ pc' = "handle" /\ ret = NoEntry
      /\ ret' = [entry |-> e, packet |-> FALSE]
  BY DEF ReturnFailed, Goto, IInv, Control
<1>3. e \in Held \ ToSet(pending) /\ e \notin ToSet(idle) /\ DOMAIN Tries = Held
  BY <1>1 DEF Held, Tries, IInv, Lists
<1>4. Tries[e] = MaxRetries + 1
  BY <1>1, <1>3 DEF Tries, IInv, Lists
<1> HIDE DEF e
<1>5. Held' = Held \ {e}
  BY <1>1, <1>3 DEF Held
<1>6. Tries' = [f \in Held \ {e} |-> Tries[f]]
  BY <1>1, <1>5 DEF Tries
<1> QED
  BY <1>1, <1>2, <1>3, <1>4, <1>6
     DEF Abstract!Failure, Abstract!Without, Abstract!Held, Abstract!None, NoEntry, e

LEMMA AnswerStep ==
  ASSUME IInv, RecvAnswer
  PROVE  \E e \in Entries : Abstract!Answer(e)
<1> DEFINE e == GetPendingEntry(Head(inbox))
<1>1. e \in ToSet(pending) /\ e \in Entries
  BY PendingEntry DEF RecvAnswer
<1>2. /\ pc = "recv" /\ pc' = "handle" /\ ret = NoEntry
      /\ ret' = [entry |-> e, packet |-> TRUE] /\ UNCHANGED lists
  BY DEF RecvAnswer, Goto, IInv, Control
<1> HIDE DEF e
<1>3. Tries' = Tries
  BY <1>2 DEF Tries, Held, lists
<1>4. Abstract!Answer(e)
  BY <1>1, <1>2, <1>3 DEF Abstract!Answer, Abstract!None, NoEntry, lists
<1> QED
  BY <1>1, <1>4

LEMMA RemoveStep == ASSUME PoolAssumption, IInv, HandleServerPacket PROVE Abstract!Remove
<1> DEFINE e == ret.entry
<1>1. /\ e \in ToSet(pending)
      /\ ToSet(pending)' = ToSet(pending) \ {e}
      /\ ToSet(idle)' = ToSet(idle) /\ ToSet(failed)' = ToSet(failed)
      /\ retries' = retries
  BY HandleServerPacketLists DEF HandleServerPacket
<1>2. pc = "handle" /\ pc' = "fill" /\ ret # NoEntry /\ ret.packet /\ ret' = NoEntry
  BY DEF HandleServerPacket, Goto, IInv, Control
<1>3. e \notin ToSet(idle) /\ e \notin ToSet(failed)
  BY <1>1 DEF IInv, Lists
<1> HIDE DEF e
<1>4. Held' = Held \ {e}
  BY <1>1, <1>3 DEF Held
<1>5. Tries' = [f \in Held \ {e} |-> Tries[f]] /\ DOMAIN Tries = Held
  BY <1>1, <1>4 DEF Tries
<1> QED
  BY <1>1, <1>2, <1>5
     DEF Abstract!Remove, Abstract!Without, Abstract!Held, Abstract!None, NoEntry, e

LEMMA FinishStep == ASSUME IInv, ReturnNull PROVE Abstract!Finish
<1>1. /\ failed = <<>> /\ pending = <<>> /\ UNCHANGED lists
      /\ pc = "failed" /\ pc' = "idle" /\ ret = NoEntry /\ ret' = NoEntry
  BY DEF ReturnNull, Goto, IInv, Control
<1>2. idle = <<>>
  <2>1. Full /\ nrPending = 0 /\ MaxPending \in Nat \ {0}
    BY <1>1, EmptySeq, PoolAssumption DEF IInv, Lists, Control, PoolAssumption
  <2> QED
    BY <2>1 DEF Full
<1>3. DOMAIN Tries = {} /\ Tries' = Tries
  BY <1>1, <1>2, EmptyLists DEF Tries, Held, lists
<1> QED
  BY <1>1, <1>3 DEF Abstract!Finish, Abstract!Held, Abstract!None, NoEntry, lists

\* The steps that PoolSpec does not see, or sees only as Start or Keep.
LEMMA FrameStep ==
  ASSUME IInv,
         \/ PollPool \/ Filled \/ CleanSkip \/ Cleaned \/ NoneFailed
         \/ RecvStray \/ RecvTimeout \/ HandleOther \/ Tick
         \/ \E a \in Addrs : Arrive(a) \/ Stray(a)
         \/ UNCHANGED vars
  PROVE  Abstract!Start \/ Abstract!Keep \/ UNCHANGED Abstract!vars
<1>1. UNCHANGED lists
  BY DEF PollPool, Filled, CleanSkip, Cleaned, NoneFailed, RecvStray, RecvTimeout,
         HandleOther, Tick, Arrive, Stray, vars
<1>2. Tries' = Tries /\ ToSet(pending)' = ToSet(pending)
  BY <1>1 DEF Tries, Held, lists
<1>3. CASE PollPool
  BY <1>2, <1>3 DEF PollPool, Goto, Abstract!Start
<1>4. CASE HandleOther
  <2>1. pc = "handle" /\ pc' = "fill" /\ ret # NoEntry /\ ret' = NoEntry
    BY <1>4 DEF HandleOther, Goto, IInv, Control
  <2> QED
    BY <1>2, <2>1 DEF Abstract!Keep, Abstract!None, NoEntry
<1>5. CASE ~ PollPool /\ ~ HandleOther
  <2>1. ret' = ret /\ (pc' # "idle" <=> pc # "idle")
    BY <1>5 DEF Filled, CleanSkip, Cleaned, NoneFailed, RecvStray, RecvTimeout,
                Tick, Arrive, Stray, Goto, vars
  <2> QED
    BY <1>2, <2>1 DEF Abstract!vars
<1> QED
  BY <1>3, <1>4, <1>5

(***************************************************************************)
(* Whatever the network does, main.c sees only the pool of PoolSpec: never *)
(* more than MaxPending requests out, an entry given up only after         *)
(* MaxRetries + 1 tries, NULL only when nothing is left.                   *)
(***************************************************************************)
THEOREM Implements == Spec => AbstractSpec
<1>1. Init => Abstract!Init
  <2>1. ASSUME Init PROVE Held = {}
    BY <2>1, EmptyLists DEF Init, Held
  <2>2. ASSUME Init PROVE Tries = <<>>
    BY <2>1, <2>2 DEF Tries
  <2> QED
    BY <2>2, EmptyLists DEF Init, Abstract!Init, Abstract!None, NoEntry
<1>2. ASSUME IInv, [Next]_vars PROVE [Abstract!Next]_(Abstract!vars)
  <2> USE PoolAssumption
  <2>1. ASSUME NEW e \in Entries, AddPoolEntry(e) PROVE Abstract!Next
    BY <1>2, <2>1, AddStep DEF Abstract!Next
  <2>2. CASE AddPendingEntry \/ SendFails
    BY <1>2, <2>2, SendStep DEF Abstract!Next
  <2>3. CASE CleanExpired
    BY <1>2, <2>3, ExpireStep DEF Abstract!Next
  <2>4. CASE ReturnFailed
    BY <1>2, <2>4, FailureStep DEF Abstract!Next
  <2>5. CASE RecvAnswer
    BY <1>2, <2>5, AnswerStep DEF Abstract!Next
  <2>6. CASE HandleServerPacket
    BY <1>2, <2>6, RemoveStep DEF Abstract!Next
  <2>7. CASE ReturnNull
    BY <1>2, <2>7, FinishStep DEF Abstract!Next
  <2>8. CASE \/ PollPool \/ Filled \/ CleanSkip \/ Cleaned \/ NoneFailed
             \/ RecvStray \/ RecvTimeout \/ HandleOther \/ Tick
             \/ \E a \in Addrs : Arrive(a) \/ Stray(a)
             \/ UNCHANGED vars
    BY <1>2, <2>8, FrameStep DEF Abstract!Next
  <2> QED
    BY <1>2, <2>1, <2>2, <2>3, <2>4, <2>5, <2>6, <2>7, <2>8 DEF Next, Poller
<1> QED
  BY <1>1, <1>2, Invariance, PTL DEF Spec, AbstractSpec, Abstract!Spec
=============================================================================
