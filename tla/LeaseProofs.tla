---------------------------- MODULE LeaseProofs ----------------------------
(***************************************************************************)
(* Things that are held for a time, for every set of workers and buyers    *)
(* and every length of a hold: the Redis lock with its fencing tokens, a   *)
(* seat, the right to refill a cache entry, and a job of the queue.        *)
(*                                                                         *)
(* The lock.  The row only takes higher tokens, and a token that was taken *)
(* while its worker still held the lock is higher than the token of every  *)
(* worker that acquired the lock later and has none yet, and lower than    *)
(* every token to come (InTimeTokens).                                     *)
(*                                                                         *)
(* The seat.  Between SELECT ... FOR UPDATE and COMMIT the row is the      *)
(* buyer's (RowIsLocked), so what it read is still so when it writes; and  *)
(* a seat that names a buyer is held until the minute that buyer was told  *)
(* (HoldsAgree).                                                           *)
(*                                                                         *)
(* The refill.  A request that refills is the one in the map of its        *)
(* process (MapHoldsRefiller), or has the lease until it lapses, and then  *)
(* no entry is newer than what it read (LeaseHoldsRefiller).  That a cold  *)
(* burst costs one call per process takes two more facts: a request that   *)
(* is over left an entry (ColdEntries), so its process never calls again   *)
(* (ColdCalls).                                                            *)
(*                                                                         *)
(* The job.  Who owns a job, the bound on its retries, and that a claim    *)
(* never cuts a running lease short.                                       *)
(***************************************************************************)
EXTENDS FencedLock, Tickets, CacheRefill, JobQueue, FiniteSetTheorems, TLAPS

-----------------------------------------------------------------------------
(* The Redis lock and its fencing tokens. *)

WorkerStates == {"ready", "acquired", "working", "written", "deleting", "done", "crashed"}

LockTypes ==
    /\ lock \in Holders \cup {Nobody}
    /\ ttl \in 0 .. Ttl
    /\ counter \in Nat /\ row \in 0 .. counter
    /\ pc \in [Holders -> WorkerStates]
    /\ token \in [Holders -> {-1} \cup 1 .. counter]
    /\ writes \in {"naive", "fenced"} /\ releases \in {"script", "getThenDel"}
    /\ acquired \in Seq(Holders) /\ accepted \in Seq(Holders)
    /\ late \subseteq Holders

Acquired(w) == \E i \in 1 .. Len(acquired) : acquired[i] = w

\* The lock key holds the last worker that acquired it; a worker acquires once.
LastHolds ==
    /\ lock # Nobody => Len(acquired) > 0 /\ acquired[Len(acquired)] = lock
    /\ lock = Nobody <=> ttl = 0
    /\ \A w \in Holders :
          /\ pc[w] \in {"ready", "acquired"} => token[w] = -1
          /\ pc[w] = "acquired" => Acquired(w) /\ writes = "fenced"
          /\ token[w] > 0 => Acquired(w)

\* Lower tokens belong to earlier acquisitions, seen from one taken in time.
InTimeTokens ==
    \A v, w \in Holders :
        w \notin late /\ token[v] > 0 /\ token[v] < token[w] =>
            \E i, j \in 1 .. Len(acquired) : i < j /\ acquired[i] = v /\ acquired[j] = w

\* The row took tokens in ascending order.
RowAscends ==
    writes = "fenced" =>
        /\ \A i \in 1 .. Len(accepted) : token[accepted[i]] \in 1 .. row
        /\ \A i, j \in 1 .. Len(accepted) : i < j => token[accepted[i]] < token[accepted[j]]

LockInv == LockTypes /\ LastHolds /\ InTimeTokens /\ RowAscends

\* Nobody holds or has written anything at first.
LEMMA LockInitInv == LockInit => LockInv
  BY LockAssumption
     DEF LockAssumption, LockInit, LockInv, LockTypes, LastHolds, InTimeTokens, RowAscends, WorkerStates,
         NoToken, Acquired

\* An acquisition appends to the order and changes no earlier pair.
LEMMA AcquireInv == ASSUME LockInv, NEW w \in Holders, AcquireLock(w) PROVE LockInv'
  <1> USE LockAssumption DEF LockAssumption, LockInv, LockTypes, WorkerStates
  <1>1. /\ acquired' \in Seq(Holders)
        /\ Len(acquired') = Len(acquired) + 1
        /\ acquired'[Len(acquired')] = w
        /\ \A i \in 1 .. Len(acquired) : acquired'[i] = acquired[i]
    BY DEF AcquireLock
  <1>2. LockTypes'
    BY <1>1 DEF AcquireLock, LockGoto
  <1>3. LastHolds'
    BY <1>1, <1>2 DEF AcquireLock, LockGoto, LastHolds, Acquired
  <1>4. InTimeTokens'
    BY <1>1, <1>2 DEF AcquireLock, InTimeTokens
  <1>5. RowAscends'
    BY DEF AcquireLock, RowAscends
  <1> QED
    BY <1>2, <1>3, <1>4, <1>5

\* A token is higher than every token before it; in time, its worker is the last.
LEMMA TokenInv == ASSUME LockInv, NEW w \in Holders, TakeToken(w) PROVE LockInv'
  <1>1. /\ token' = [token EXCEPT ![w] = counter + 1] /\ counter' = counter + 1
        /\ late' = IF lock = w THEN late ELSE late \cup {w}
        /\ pc[w] = "acquired" /\ pc' = [pc EXCEPT ![w] = "working"]
        /\ UNCHANGED <<lock, ttl, row, writes, releases, acquired, accepted>>
    BY DEF TakeToken, LockGoto
  <1>2. token[w] = -1 /\ Acquired(w) /\ writes = "fenced"
    BY <1>1 DEF LockInv, LastHolds
  <1>3. /\ counter \in Nat /\ row \in 0 .. counter /\ token \in [Holders -> {-1} \cup 1 .. counter]
        /\ acquired \in Seq(Holders) /\ accepted \in Seq(Holders)
    BY DEF LockInv, LockTypes
  <1>4. /\ token'[w] = counter + 1
        /\ \A v \in Holders \ {w} : token'[v] = token[v] /\ token[v] <= counter
    BY <1>1, <1>3
  <1>5. LockTypes'
    BY <1>1, <1>3 DEF LockInv, LockTypes, WorkerStates
  <1>6. LastHolds'
    BY <1>1, <1>2, <1>4 DEF LockInv, LockTypes, LastHolds, Acquired
  <1>7. ASSUME NEW v \in Holders, NEW u \in Holders,
               u \notin late', token'[v] > 0, token'[v] < token'[u]
        PROVE  \E i, j \in 1 .. Len(acquired) : i < j /\ acquired[i] = v /\ acquired[j] = u
    <2>1. v # w
      BY <1>3, <1>4, <1>7
    <2>2. CASE u = w
      <3>1. lock = w /\ w \in Holders /\ token[v] > 0
        BY <1>1, <1>4, <1>7, <2>1, <2>2
      <3>2. lock # Nobody
        BY <3>1, LockAssumption DEF LockAssumption
      <3>3. Len(acquired) > 0 /\ acquired[Len(acquired)] = w
        BY <3>1, <3>2 DEF LockInv, LastHolds
      <3>4. PICK i \in 1 .. Len(acquired) : acquired[i] = v
        BY <3>1 DEF LockInv, LastHolds, Acquired
      <3> QED
        BY <1>3, <2>1, <2>2, <3>3, <3>4
    <2>3. CASE u # w
      <3>1. u \notin late /\ token[v] > 0 /\ token[v] < token[u]
        BY <1>1, <1>4, <1>7, <2>1, <2>3
      <3> QED
        BY <3>1 DEF LockInv, InTimeTokens
    <2> QED
      BY <2>2, <2>3
  <1>8. InTimeTokens'
    BY <1>1, <1>7 DEF InTimeTokens
  <1>9. RowAscends'
    <2>1. ASSUME NEW i \in 1 .. Len(accepted)
          PROVE  token[accepted[i]] \in 1 .. row /\ token'[accepted[i]] = token[accepted[i]]
      <3>1. accepted[i] \in Holders /\ token[accepted[i]] \in 1 .. row
        BY <1>2, <1>3 DEF LockInv, RowAscends
      <3>2. accepted[i] # w
        BY <1>2, <1>3, <3>1
      <3> QED
        BY <1>4, <3>1, <3>2
    <2>2. ASSUME NEW i \in 1 .. Len(accepted), NEW j \in 1 .. Len(accepted), i < j
          PROVE  token[accepted[i]] < token[accepted[j]]
      BY <1>2, <2>2 DEF LockInv, RowAscends
    <2> QED
      BY <1>1, <2>1, <2>2 DEF RowAscends
  <1> QED
    BY <1>5, <1>6, <1>8, <1>9 DEF LockInv

\* An accepted write carries a token above all those the row took before.
LEMMA WriteInv == ASSUME LockInv, NEW w \in Holders, WriteFenced(w) PROVE LockInv'
  <1>1. /\ UNCHANGED <<lock, ttl, counter, token, writes, releases, acquired, late>>
        /\ writes = "fenced" /\ pc' = [pc EXCEPT ![w] = "written"] /\ pc[w] = "working"
    BY DEF WriteFenced, LockGoto
  <1>2. LastHolds' /\ InTimeTokens'
    <2>1. LastHolds'
      BY <1>1 DEF LockInv, LockTypes, LastHolds, Acquired
    <2> QED
      BY <1>1, <2>1 DEF LockInv, InTimeTokens
  <1>3. CASE row < token[w]
    <2>1. accepted' = Append(accepted, w) /\ row' = token[w]
      BY <1>3 DEF WriteFenced
    <2>2. accepted \in Seq(Holders) /\ Len(accepted) \in Nat
      BY DEF LockInv, LockTypes
    <2>3. /\ accepted' \in Seq(Holders)
          /\ Len(accepted') = Len(accepted) + 1
          /\ accepted'[Len(accepted')] = w
          /\ \A i \in 1 .. Len(accepted) : accepted'[i] = accepted[i]
      BY <2>1, <2>2
    <2>4. row \in Nat /\ token[w] \in 1 .. counter
      BY <1>3 DEF LockInv, LockTypes
    <2>5. LockTypes'
      BY <1>1, <2>1, <2>3, <2>4 DEF LockInv, LockTypes, WorkerStates
    <2>6. ASSUME NEW i \in 1 .. Len(accepted)
          PROVE  token[accepted'[i]] \in 1 .. token[w] /\ token[accepted'[i]] < token[w]
      <3>1. token[accepted[i]] \in 1 .. row
        BY <1>1 DEF LockInv, RowAscends
      <3> QED
        BY <1>3, <2>3, <2>4, <3>1
    <2>7. ASSUME NEW i \in 1 .. Len(accepted) + 1, NEW j \in 1 .. Len(accepted) + 1, i < j
          PROVE  token[accepted'[i]] < token[accepted'[j]]
      <3>1. CASE j = Len(accepted) + 1
        BY <2>2, <2>3, <2>6, <2>7, <3>1
      <3>2. CASE j # Len(accepted) + 1
        <4>1. i \in 1 .. Len(accepted) /\ j \in 1 .. Len(accepted)
          BY <2>2, <2>7, <3>2
        <4>2. token[accepted[i]] < token[accepted[j]]
          BY <1>1, <2>7, <4>1 DEF LockInv, RowAscends
        <4> QED
          BY <2>3, <4>1, <4>2
      <3> QED
        BY <3>1, <3>2
    <2>8. ASSUME NEW i \in 1 .. Len(accepted) + 1 PROVE token[accepted'[i]] \in 1 .. token[w]
      BY <2>2, <2>3, <2>4, <2>6, <2>8
    <2>9. RowAscends'
      BY <1>1, <2>1, <2>3, <2>7, <2>8 DEF RowAscends
    <2> QED
      BY <1>2, <2>5, <2>9 DEF LockInv
  <1>4. CASE ~(row < token[w])
    <2>1. UNCHANGED <<row, accepted>>
      BY <1>4 DEF WriteFenced
    <2>2. LockTypes'
      BY <1>1, <2>1 DEF LockInv, LockTypes, WorkerStates
    <2>3. RowAscends'
      BY <1>1, <2>1 DEF LockInv, RowAscends
    <2> QED
      BY <1>2, <2>2, <2>3 DEF LockInv
  <1> QED
    BY <1>3, <1>4

\* Neither tokens nor the two orders of fenced writes.
Quiet ==
    /\ UNCHANGED <<counter, row, token, writes, releases, acquired, late>>
    /\ writes = "fenced" => UNCHANGED accepted

\* Steps that leave those alone keep what is said about them.
LEMMA QuietInv == ASSUME LockInv, Quiet PROVE InTimeTokens' /\ RowAscends'
  <1>1. InTimeTokens'
    BY DEF Quiet, LockInv, InTimeTokens
  <1>2. RowAscends'
    BY DEF Quiet, LockInv, RowAscends
  <1> QED
    BY <1>1, <1>2

\* The remaining steps are quiet; they move the lock, the clock or a position.
LEMMA LockStepInv == LockInv /\ [LockNext]_lockVars => LockInv'
  <1> SUFFICES ASSUME LockInv, [LockNext]_lockVars PROVE LockInv'
    OBVIOUS
  <1> USE LockAssumption DEF LockAssumption
  <1>0. ASSUME Quiet, LockTypes', LastHolds' PROVE LockInv'
    BY <1>0, QuietInv DEF LockInv
  <1>1. CASE Tick
    <2>1. Quiet
      BY <1>1 DEF Tick, Quiet
    <2>2. LockTypes'
      BY <1>1 DEF Tick, LockInv, LockTypes, WorkerStates
    <2>3. LastHolds'
      BY <1>1 DEF Tick, LockInv, LockTypes, WorkerStates, LastHolds, Acquired
    <2> QED
      BY <1>0, <2>1, <2>2, <2>3
  <1>2. ASSUME NEW w \in Holders, AcquireFails(w) PROVE LockInv'
    <2>1. Quiet
      BY <1>2 DEF AcquireFails, LockGoto, Quiet
    <2>2. LockTypes'
      BY <1>2 DEF AcquireFails, LockGoto, LockInv, LockTypes, WorkerStates
    <2>3. LastHolds'
      BY <1>2 DEF AcquireFails, LockGoto, LockInv, LockTypes, WorkerStates, LastHolds, Acquired
    <2> QED
      BY <1>0, <2>1, <2>2, <2>3
  <1>3. ASSUME NEW w \in Holders, RenewLock(w) PROVE LockInv'
    <2>1. Quiet
      BY <1>3 DEF RenewLock, Quiet
    <2>2. LockTypes'
      BY <1>3 DEF RenewLock, LockInv, LockTypes, WorkerStates
    <2>3. LastHolds'
      BY <1>3 DEF RenewLock, LockInv, LockTypes, WorkerStates, LastHolds, Acquired
    <2> QED
      BY <1>0, <2>1, <2>2, <2>3
  <1>4. ASSUME NEW w \in Holders, WriteNaive(w) PROVE LockInv'
    <2>1. Quiet
      BY <1>4 DEF WriteNaive, LockGoto, Quiet
    <2>2. LockTypes'
      BY <1>4 DEF WriteNaive, LockGoto, LockInv, LockTypes, WorkerStates
    <2>3. LastHolds'
      BY <1>4 DEF WriteNaive, LockGoto, LockInv, LockTypes, WorkerStates, LastHolds, Acquired
    <2> QED
      BY <1>0, <2>1, <2>2, <2>3
  <1>5. ASSUME NEW w \in Holders, ReleaseLock(w) PROVE LockInv'
    <2>1. Quiet
      BY <1>5 DEF ReleaseLock, SetFree, LockGoto, Quiet
    <2>2. LockTypes'
      BY <1>5 DEF ReleaseLock, SetFree, LockGoto, LockInv, LockTypes, WorkerStates
    <2>3. LastHolds'
      BY <1>5 DEF ReleaseLock, SetFree, LockGoto, LockInv, LockTypes, WorkerStates, LastHolds, Acquired
    <2> QED
      BY <1>0, <2>1, <2>2, <2>3
  <1>6. ASSUME NEW w \in Holders, UnsafeGet(w) PROVE LockInv'
    <2>1. Quiet
      BY <1>6 DEF UnsafeGet, LockGoto, Quiet
    <2>2. LockTypes'
      BY <1>6 DEF UnsafeGet, LockGoto, LockInv, LockTypes, WorkerStates
    <2>3. LastHolds'
      BY <1>6 DEF UnsafeGet, LockGoto, LockInv, LockTypes, WorkerStates, LastHolds, Acquired
    <2> QED
      BY <1>0, <2>1, <2>2, <2>3
  <1>7. ASSUME NEW w \in Holders, UnsafeDel(w) PROVE LockInv'
    <2>1. Quiet
      BY <1>7 DEF UnsafeDel, SetFree, LockGoto, Quiet
    <2>2. LockTypes'
      BY <1>7 DEF UnsafeDel, SetFree, LockGoto, LockInv, LockTypes, WorkerStates
    <2>3. LastHolds'
      BY <1>7 DEF UnsafeDel, SetFree, LockGoto, LockInv, LockTypes, WorkerStates, LastHolds, Acquired
    <2> QED
      BY <1>0, <2>1, <2>2, <2>3
  <1>8. ASSUME NEW w \in Holders, HolderCrashes(w) PROVE LockInv'
    <2>1. Quiet
      BY <1>8 DEF HolderCrashes, LockGoto, Quiet
    <2>2. LockTypes'
      BY <1>8 DEF HolderCrashes, LockGoto, LockInv, LockTypes, WorkerStates
    <2>3. LastHolds'
      BY <1>8 DEF HolderCrashes, LockGoto, LockInv, LockTypes, WorkerStates, LastHolds, Acquired
    <2> QED
      BY <1>0, <2>1, <2>2, <2>3
  <1>9. CASE UNCHANGED lockVars
    BY <1>9 DEF lockVars, LockInv, LockTypes, LastHolds, Acquired, InTimeTokens, RowAscends
  <1> QED
    BY <1>1, <1>2, <1>3, <1>4, <1>5, <1>6, <1>7, <1>8, <1>9, AcquireInv, TokenInv, WriteInv
       DEF LockNext, Proceed

\* The invariant holds throughout.
LEMMA LockInvariant == LockSpec => []LockInv
  BY LockInitInv, LockStepInv, PTL DEF LockSpec

\* The variables keep their types.
THEOREM LockTypeCorrect == LockSpec => []LockTypeOK
  <1>1. LockInv => LockTypeOK
    BY DEF LockInv, LockTypes, LockTypeOK, WorkerStates, NoToken
  <1> QED
    BY <1>1, LockInvariant, PTL

\* Fenced writes are accepted in the order in which their workers held the lock,
\* if each took its token before its lease ran out.
THEOREM FencedWritesFollowTheLock == LockSpec => []AcceptedInLockOrder
  <1>1. LockInv => AcceptedInLockOrder
    <2> SUFFICES ASSUME LockInv, writes = "fenced"
                 PROVE  /\ ToSet(accepted) \subseteq ToSet(acquired)
                        /\ \A i, j \in DOMAIN accepted :
                              i < j /\ accepted[j] \notin late => AcquiredBefore(accepted[i], accepted[j])
      BY DEF AcceptedInLockOrder
    <2> USE DEF LockInv, LockTypes
    <2>1. /\ DOMAIN accepted = 1 .. Len(accepted) /\ DOMAIN acquired = 1 .. Len(acquired)
          /\ \A i \in 1 .. Len(accepted) : accepted[i] \in Holders /\ token[accepted[i]] > 0
      BY DEF RowAscends
    <2>2. ToSet(accepted) \subseteq ToSet(acquired)
      BY <2>1 DEF ToSet, LastHolds, Acquired
    <2>3. ASSUME NEW i \in DOMAIN accepted, NEW j \in DOMAIN accepted, i < j, accepted[j] \notin late
          PROVE  AcquiredBefore(accepted[i], accepted[j])
      <3>1. /\ accepted[i] \in Holders /\ accepted[j] \in Holders
            /\ token[accepted[i]] > 0 /\ token[accepted[i]] < token[accepted[j]]
        BY <2>1, <2>3 DEF RowAscends
      <3>2. PICK k, l \in 1 .. Len(acquired) : k < l /\ acquired[k] = accepted[i] /\ acquired[l] = accepted[j]
        BY <2>3, <3>1 DEF InTimeTokens
      <3> QED
        BY <2>1, <3>2 DEF AcquiredBefore
    <2> QED
      BY <2>2, <2>3
  <1> QED
    BY <1>1, LockInvariant, PTL

\* The second round trip of the unsafe release exists only where it is deployed.
NoDelete == releases = "script" => \A w \in Holders : pc[w] # "deleting"

\* With the script deployed no worker is between GET and DEL.
LEMMA NoDeleteInvariant == LockSpec => []NoDelete
  <1>1. LockInit => NoDelete
    BY DEF LockInit, NoDelete
  <1>2. LockInv /\ NoDelete /\ [LockNext]_lockVars => NoDelete'
    BY DEF LockInv, LockTypes, NoDelete, LockNext, lockVars, Proceed, LockGoto, Tick, AcquireLock, AcquireFails,
       TakeToken, RenewLock, WriteNaive, WriteFenced, ReleaseLock, UnsafeGet, UnsafeDel, HolderCrashes
  <1> QED
    BY <1>1, <1>2, LockInvariant, PTL DEF LockSpec

\* With the release script, every change of the key is an acquisition of a free
\* one, time, or the doing of the worker that holds it.
THEOREM OnlyTheHolder == LockSpec => OnlyItsHolderTouchesTheLock
  <1> DEFINE Allowed == releases = "script" =>
                          \/ lock = Nobody
                          \/ <<lock', ttl'>> = <<lock, ttl>>
                          \/ ttl' = ttl - 1 /\ lock' \in {lock, Nobody}
                          \/ lock' = lock /\ pc[lock] = "working"
                          \/ pc[lock] = "written" /\ pc'[lock] = "done"
  <1>1. ASSUME LockInv, NoDelete, LockNext PROVE Allowed
    <2> USE <1>1 DEF LockInv, LockTypes, NoDelete
    <2>1. CASE Tick
      BY <2>1 DEF Tick
    <2>2. ASSUME NEW w \in Holders, RenewLock(w) PROVE Allowed
      BY <2>2 DEF RenewLock
    <2>3. ASSUME NEW w \in Holders, ReleaseLock(w) PROVE Allowed
      BY <2>3 DEF ReleaseLock, SetFree, LockGoto
    <2>4. ASSUME NEW w \in Holders,
                 \/ AcquireLock(w) \/ AcquireFails(w) \/ TakeToken(w) \/ WriteNaive(w)
                 \/ WriteFenced(w) \/ UnsafeGet(w) \/ UnsafeDel(w) \/ HolderCrashes(w)
          PROVE  Allowed
      BY <2>4 DEF AcquireLock, AcquireFails, TakeToken, WriteNaive, WriteFenced, UnsafeGet, UnsafeDel, HolderCrashes
    <2> QED
      BY <1>1, <2>1, <2>2, <2>3, <2>4 DEF LockNext, Proceed
  <1>2. LockInv /\ NoDelete /\ [LockNext]_lockVars => [Allowed]_lockVars
    BY <1>1
  <1> QED
    BY <1>2, LockInvariant, NoDeleteInvariant, PTL DEF LockSpec, OnlyItsHolderTouchesTheLock

-----------------------------------------------------------------------------
(* The seat. *)

\* Whoever has the row is between its SELECT ... FOR UPDATE and its end, and a
\* seat it found free stays free: nobody else can write it meanwhile.
RowIsLocked ==
    \A b \in Buyers :
        /\ buyer[b].pc \in {"locked", "updated"} => rowLock = b
        /\ Protected /\ BuyerAt(b, "locked") /\ buyer[b].saw = "AVAILABLE" => ticket.status = "AVAILABLE"
        /\ Protected /\ BuyerAt(b, "updated") => ticket.status = "AVAILABLE"

\* Only an unprotected attempt looks first, and a seat that names a buyer is
\* held until the minute that buyer was told.
HoldsAgree ==
    \A b \in Buyers :
        /\ BuyerAt(b, "looked") => mechanism[b] = "naive"
        /\ ticket.status = "RESERVED" /\ ticket.token = b => ticket.until = held[b]

TicketInv == TicketTypeOK /\ RowIsLocked /\ HoldsAgree /\ TicketsSafe

\* The seat is free and nobody has started.
LEMMA TicketInitInv == TicketInit => TicketInv
  BY TicketAssumption
     DEF TicketAssumption, TicketInit, TicketInv, TicketTypeOK, RowIsLocked, HoldsAgree, TicketsSafe,
         HoldIsKept, SoldOnce, BuyerAt, BuyerStates, Mechanisms, Available, LapsedHold, NoBuyer, Demo, Reserved

\* The statements of the three mechanisms and of the payment, and what becomes
\* of the seat, of the row lock and of the holds.
LEMMA BuyerStepInv ==
    ASSUME TicketInv, NEW b \in Buyers, BuyerStep(b) PROVE TicketInv'
  <1> USE TicketAssumption DEF TicketAssumption, TicketTypeOK, BuyerStates, BuyerAt
  <1>0. TicketTypeOK /\ RowIsLocked /\ HoldsAgree /\ HoldIsKept /\ SoldOnce
    BY DEF TicketInv, TicketsSafe
  <1>t. /\ ticket.status \in {"AVAILABLE", "RESERVED", "SOLD"}
        /\ buyer[b].at \in Nat /\ minute + HoldLength \in Nat
    BY <1>0
  <1>1. CASE NaiveSelect(b)
    <2> USE <1>1 DEF NaiveSelect, Starts
    <2>1. TicketTypeOK'
      BY <1>0, <1>t, ZenonT(60)
    <2>2. RowIsLocked'
      BY <1>0, <2>1 DEF RowIsLocked, HoldsAgree, Protected, NoBuyer
    <2>3. HoldsAgree'
      BY <1>0, <2>1 DEF HoldsAgree
    <2>4. HoldIsKept'
      BY <1>0, <2>1 DEF HoldIsKept, RowIsLocked, HoldsAgree, Protected, Reserved
    <2>5. SoldOnce'
      BY <1>0, <2>1 DEF SoldOnce, RowIsLocked, HoldsAgree, Protected
    <2> QED
      BY <2>1, <2>2, <2>3, <2>4, <2>5 DEF TicketInv, TicketsSafe
  <1>2. CASE NaiveUpdate(b)
    <2> USE <1>2 DEF NaiveUpdate, reservedUntilFromNow, Reserved, Done
    <2>1. TicketTypeOK'
      <3>1. CASE buyer[b].saw # "AVAILABLE"
        BY <1>0, <1>t, <3>1
      <3>2. CASE ~(buyer[b].saw # "AVAILABLE")
        <4>a. buyer' \in [Buyers -> [pc : BuyerStates, saw : {"-", "AVAILABLE", "RESERVED", "SOLD"}, at : Nat]]
          BY <1>0, <3>2
        <4>b. ticket' \in [status : {"AVAILABLE", "RESERVED", "SOLD"},
                     token : Buyers \cup {NoBuyer, Demo}, until : Nat]
          BY <1>0, <1>t, <3>2
        <4>c. held' \in [Buyers -> Nat]
          BY <1>0, <1>t, <3>2
        <4> QED
          BY <1>0, <4>a, <4>b, <4>c, <3>2
      <3> QED
        BY <3>1, <3>2
    <2>2. RowIsLocked'
      BY <1>0, <2>1 DEF RowIsLocked, HoldsAgree, Protected, NoBuyer
    <2>3. HoldsAgree'
      BY <1>0, <2>1 DEF HoldsAgree
    <2>4. HoldIsKept'
      BY <1>0, <2>1 DEF HoldIsKept, RowIsLocked, HoldsAgree, Protected, Reserved
    <2>5. SoldOnce'
      BY <1>0, <2>1 DEF SoldOnce, RowIsLocked, HoldsAgree, Protected
    <2> QED
      BY <2>1, <2>2, <2>3, <2>4, <2>5 DEF TicketInv, TicketsSafe
  <1>3. CASE ConditionalIssue(b)
    <2> USE <1>3 DEF ConditionalIssue, Starts, reservedUntilFromNow
    <2>1. TicketTypeOK'
      BY <1>0, <1>t, ZenonT(60)
    <2>2. RowIsLocked'
      BY <1>0, <2>1 DEF RowIsLocked, HoldsAgree, Protected, NoBuyer
    <2>3. HoldsAgree'
      BY <1>0, <2>1 DEF HoldsAgree
    <2>4. HoldIsKept'
      BY <1>0, <2>1 DEF HoldIsKept, RowIsLocked, HoldsAgree, Protected, Reserved
    <2>5. SoldOnce'
      BY <1>0, <2>1 DEF SoldOnce, RowIsLocked, HoldsAgree, Protected
    <2> QED
      BY <2>1, <2>2, <2>3, <2>4, <2>5 DEF TicketInv, TicketsSafe
  <1>4. CASE ConditionalUpdate(b)
    <2> USE <1>4 DEF ConditionalUpdate, ConditionalMatches, Unlocked, Reserved, Done
    <2>1. TicketTypeOK'
      <3>1. CASE ~ConditionalMatches
        BY <1>0, <1>t, <3>1
      <3>2. CASE ~(~ConditionalMatches)
        <4>a. buyer' \in [Buyers -> [pc : BuyerStates, saw : {"-", "AVAILABLE", "RESERVED", "SOLD"}, at : Nat]]
          BY <1>0, <3>2
        <4>b. ticket' \in [status : {"AVAILABLE", "RESERVED", "SOLD"},
                     token : Buyers \cup {NoBuyer, Demo}, until : Nat]
          BY <1>0, <1>t, <3>2
        <4>c. held' \in [Buyers -> Nat]
          BY <1>0, <1>t, <3>2
        <4> QED
          BY <1>0, <4>a, <4>b, <4>c, <3>2
      <3> QED
        BY <3>1, <3>2
    <2>2. RowIsLocked'
      BY <1>0, <2>1 DEF RowIsLocked, HoldsAgree, Protected, NoBuyer
    <2>3. HoldsAgree'
      BY <1>0, <2>1 DEF HoldsAgree
    <2>4. HoldIsKept'
      BY <1>0, <2>1 DEF HoldIsKept, RowIsLocked, HoldsAgree, Protected, Reserved
    <2>5. SoldOnce'
      BY <1>0, <2>1 DEF SoldOnce, RowIsLocked, HoldsAgree, Protected
    <2> QED
      BY <2>1, <2>2, <2>3, <2>4, <2>5 DEF TicketInv, TicketsSafe
  <1>5. CASE RowLockSelect(b)
    <2> USE <1>5 DEF RowLockSelect, Starts, Unlocked
    <2>1. TicketTypeOK'
      <3>1. buyer' \in [Buyers -> [pc : BuyerStates, saw : {"-", "AVAILABLE", "RESERVED", "SOLD"}, at : Nat]]
        <4> DEFINE newBuyer == [buyer[b] EXCEPT !.pc = "locked", !.saw = ticket.status]
        <4>1. buyer' = [buyer EXCEPT ![b] = newBuyer]
          OBVIOUS
        <4>2. newBuyer \in [pc : BuyerStates, saw : {"-", "AVAILABLE", "RESERVED", "SOLD"}, at : Nat]
          <5>1. buyer[b] \in [pc : BuyerStates, saw : {"-", "AVAILABLE", "RESERVED", "SOLD"}, at : Nat]
            BY <1>0
          <5> QED
            BY <1>t, <5>1
        <4> HIDE DEF newBuyer
        <4> QED
          BY <1>0, <4>1, <4>2
      <3>2. UNCHANGED <<mechanism, ticket, held, minute, expiredBefore>> /\ rowLock' = b
        OBVIOUS
      <3> QED
        BY <1>0, <3>1, <3>2
    <2>2. RowIsLocked'
      BY <1>0, <2>1 DEF RowIsLocked, HoldsAgree, Protected, NoBuyer
    <2>3. HoldsAgree'
      BY <1>0, <2>1 DEF HoldsAgree
    <2>4. HoldIsKept'
      BY <1>0, <2>1 DEF HoldIsKept, RowIsLocked, HoldsAgree, Protected, Reserved
    <2>5. SoldOnce'
      BY <1>0, <2>1 DEF SoldOnce, RowIsLocked, HoldsAgree, Protected
    <2> QED
      BY <2>1, <2>2, <2>3, <2>4, <2>5 DEF TicketInv, TicketsSafe
  <1>6. CASE RowLockUpdate(b)
    <2>1. /\ buyer' \in [Buyers -> [pc : BuyerStates, saw : {"-", "AVAILABLE", "RESERVED", "SOLD"}, at : Nat]]
          /\ \A a \in Buyers \ {b} : buyer'[a] = buyer[a]
          /\ \/ buyer'[b].pc = "unavailable" /\ rowLock' = NoBuyer
             \/ buyer'[b].pc = "updated" /\ rowLock' = rowLock /\ buyer[b].saw = "AVAILABLE"
      <3>1. CASE buyer[b].saw # "AVAILABLE"
        BY <1>0, <1>6, <3>1 DEF RowLockUpdate, Done
      <3>2. CASE buyer[b].saw = "AVAILABLE"
        <4> DEFINE until == minute + HoldLength
                   newBuyer == [buyer[b] EXCEPT !.pc = "updated", !.at = until]
        <4>1. buyer' = [buyer EXCEPT ![b] = newBuyer] /\ rowLock' = rowLock
          BY <1>6, <3>2 DEF RowLockUpdate, reservedUntilFromNow
        <4>2. until \in Nat
          BY <1>t
        <4> HIDE DEF until
        <4>3. /\ newBuyer \in [pc : BuyerStates, saw : {"-", "AVAILABLE", "RESERVED", "SOLD"}, at : Nat]
              /\ newBuyer.pc = "updated"
          <5>1. buyer[b] \in [pc : BuyerStates, saw : {"-", "AVAILABLE", "RESERVED", "SOLD"}, at : Nat]
            BY <1>0
          <5> QED
            BY <4>2, <5>1
        <4> HIDE DEF newBuyer
        <4> QED
          BY <1>0, <3>2, <4>1, <4>3
      <3> QED
        BY <3>1, <3>2
    <2>2. buyer[b].pc = "locked" /\ UNCHANGED <<mechanism, ticket, held, minute, expiredBefore>>
      BY <1>6 DEF RowLockUpdate
    <2>3. TicketTypeOK'
      BY <1>0, <2>1, <2>2
    <2>4. RowIsLocked'
      BY <1>0, <2>1, <2>2 DEF RowIsLocked, Protected, NoBuyer
    <2>5. HoldsAgree'
      BY <1>0, <2>1, <2>2 DEF HoldsAgree
    <2>6. HoldIsKept'
      BY <1>0, <2>1, <2>2 DEF HoldIsKept, Protected, Reserved
    <2>7. SoldOnce'
      BY <1>0, <2>1, <2>2 DEF SoldOnce, Protected
    <2> QED
      BY <2>3, <2>4, <2>5, <2>6, <2>7 DEF TicketInv, TicketsSafe
  <1>7. CASE RowLockCommit(b)
    <2> USE <1>7 DEF RowLockCommit, Reserved
    <2>1. TicketTypeOK'
      <3>a. buyer' \in [Buyers -> [pc : BuyerStates, saw : {"-", "AVAILABLE", "RESERVED", "SOLD"}, at : Nat]]
        BY <1>0
      <3>b. ticket' \in [status : {"AVAILABLE", "RESERVED", "SOLD"},
                   token : Buyers \cup {NoBuyer, Demo}, until : Nat]
        BY <1>0, <1>t
      <3>c. held' \in [Buyers -> Nat]
        BY <1>0, <1>t
      <3> QED
        BY <1>0, <3>a, <3>b, <3>c
    <2>2. RowIsLocked'
      BY <1>0, <2>1 DEF RowIsLocked, HoldsAgree, Protected, NoBuyer
    <2>3. HoldsAgree'
      BY <1>0, <2>1 DEF HoldsAgree
    <2>4. HoldIsKept'
      BY <1>0, <2>1 DEF HoldIsKept, RowIsLocked, HoldsAgree, Protected, Reserved
    <2>5. SoldOnce'
      BY <1>0, <2>1 DEF SoldOnce, RowIsLocked, HoldsAgree, Protected
    <2> QED
      BY <2>1, <2>2, <2>3, <2>4, <2>5 DEF TicketInv, TicketsSafe
  <1>8. CASE RowLockFails(b)
    <2> USE <1>8 DEF RowLockFails, Done
    <2>1. TicketTypeOK'
      <3>1. buyer' \in [Buyers -> [pc : BuyerStates, saw : {"-", "AVAILABLE", "RESERVED", "SOLD"}, at : Nat]]
        BY <1>0
      <3> QED
        BY <1>0, <3>1
    <2>2. RowIsLocked'
      BY <1>0, <2>1 DEF RowIsLocked, HoldsAgree, Protected, NoBuyer
    <2>3. HoldsAgree'
      BY <1>0, <2>1 DEF HoldsAgree
    <2>4. HoldIsKept'
      BY <1>0, <2>1 DEF HoldIsKept, RowIsLocked, HoldsAgree, Protected, Reserved
    <2>5. SoldOnce'
      BY <1>0, <2>1 DEF SoldOnce, RowIsLocked, HoldsAgree, Protected
    <2> QED
      BY <2>1, <2>2, <2>3, <2>4, <2>5 DEF TicketInv, TicketsSafe
  <1>9. CASE PaymentIssue(b)
    <2> USE <1>9 DEF PaymentIssue
    <2>1. TicketTypeOK'
      <3>1. buyer' \in [Buyers -> [pc : BuyerStates, saw : {"-", "AVAILABLE", "RESERVED", "SOLD"}, at : Nat]]
        <4>1. minute \in Nat /\ buyer[b] \in [pc : BuyerStates, saw : {"-", "AVAILABLE", "RESERVED", "SOLD"}, at : Nat]
          BY <1>0
        <4>2. [buyer[b] EXCEPT !.pc = "paying", !.at = minute]
                  \in [pc : BuyerStates, saw : {"-", "AVAILABLE", "RESERVED", "SOLD"}, at : Nat]
          BY <4>1
        <4>3. buyer' = [buyer EXCEPT ![b] = [buyer[b] EXCEPT !.pc = "paying", !.at = minute]]
          OBVIOUS
        <4> QED
          BY <1>0, <4>2, <4>3
      <3> QED
        BY <1>0, <3>1
    <2>2. RowIsLocked'
      BY <1>0, <2>1 DEF RowIsLocked, HoldsAgree, Protected, NoBuyer
    <2>3. HoldsAgree'
      BY <1>0, <2>1 DEF HoldsAgree
    <2>4. HoldIsKept'
      BY <1>0, <2>1 DEF HoldIsKept, RowIsLocked, HoldsAgree, Protected, Reserved
    <2>5. SoldOnce'
      BY <1>0, <2>1 DEF SoldOnce, RowIsLocked, HoldsAgree, Protected
    <2> QED
      BY <2>1, <2>2, <2>3, <2>4, <2>5 DEF TicketInv, TicketsSafe
  <1>10. CASE CompletePayment(b)
    <2> USE <1>10 DEF CompletePayment, PaymentMatches, Unlocked, Done
    <2>1. TicketTypeOK'
      BY <1>0, <1>t
    <2>2. RowIsLocked'
      BY <1>0, <2>1 DEF RowIsLocked, HoldsAgree, Protected, NoBuyer
    <2>3. HoldsAgree'
      BY <1>0, <2>1 DEF HoldsAgree
    <2>4. HoldIsKept'
      BY <1>0, <2>1 DEF HoldIsKept, RowIsLocked, HoldsAgree, Protected, Reserved
    <2>5. SoldOnce'
      BY <1>0, <2>1 DEF SoldOnce, RowIsLocked, HoldsAgree, Protected
    <2> QED
      BY <2>1, <2>2, <2>3, <2>4, <2>5 DEF TicketInv, TicketsSafe
  <1> QED
    BY <1>1, <1>2, <1>3, <1>4, <1>5, <1>6, <1>7, <1>8, <1>9, <1>10 DEF BuyerStep

\* The expiration worker takes back nothing that is still held.
LEMMA WorkerStepInv ==
    ASSUME TicketInv, ExpireIssue \/ ExpireReservations \/ MinutePasses PROVE TicketInv'
  <1> USE TicketAssumption
      DEF TicketAssumption, TicketInv, TicketTypeOK, BuyerStates, Mechanisms, NoBuyer, BuyerAt, Reserved
  <1>1. CASE ExpireIssue
    BY <1>1 DEF ExpireIssue, RowIsLocked, HoldsAgree, TicketsSafe, HoldIsKept, SoldOnce, Protected
  <1>2. CASE ExpireReservations
    BY <1>2 DEF ExpireReservations, HasLapsed, Unlocked, Available, RowIsLocked, HoldsAgree, TicketsSafe,
                HoldIsKept, SoldOnce, Protected
  <1>3. CASE MinutePasses
    BY <1>3 DEF MinutePasses, RowIsLocked, HoldsAgree, TicketsSafe, HoldIsKept, SoldOnce, Protected
  <1> QED
    BY <1>1, <1>2, <1>3

\* The row lock and the holds agree after every step.
LEMMA TicketInvariant == TicketSpec => []TicketInv
  <1>1. TicketInv /\ [TicketNext]_ticketVars => TicketInv'
    <2> SUFFICES ASSUME TicketInv, [TicketNext]_ticketVars PROVE TicketInv'
      OBVIOUS
    <2>1. CASE UNCHANGED ticketVars
      BY <2>1 DEF ticketVars, TicketInv, TicketTypeOK, RowIsLocked, HoldsAgree, TicketsSafe, HoldIsKept,
                  SoldOnce, BuyerAt, Protected
    <2> QED
      BY <2>1, BuyerStepInv, WorkerStepInv DEF TicketNext
  <1> QED
    BY TicketInitInv, <1>1, PTL DEF TicketSpec

\* The seat and the buyers' calls keep their types, and the expiration worker
\* never works with a minute that is still to come.
THEOREM TicketTypeCorrect == TicketSpec => []TicketTypeOK
  <1>1. TicketInv => TicketTypeOK
    BY DEF TicketInv
  <1> QED
    BY <1>1, TicketInvariant, PTL

\* However many buyers reserve, pay and are overtaken by the expiration worker,
\* whichever mixture of conditional UPDATE and SELECT ... FOR UPDATE they use:
\* a hold is kept until its minute, and the seat is sold once.
THEOREM TicketsAreSafe == TicketSpec => []TicketsSafe
  <1>1. TicketInv => TicketsSafe
    BY DEF TicketInv
  <1> QED
    BY <1>1, TicketInvariant, PTL

-----------------------------------------------------------------------------
(* The right to refill a cache entry. *)

\* Where a request of each cache can be.
PlacesOf(st) ==
    {"start", "query", "querying", "fill", "done", "failed"}
        \cup (IF st = "coalescing" THEN {"get", "joined"} ELSE {})
        \cup (IF st = "lease" THEN {"acquire", "poll", "release", "release_failed"} ELSE {})

RefillTypes ==
    /\ strategy \in {"naive", "coalescing", "lease", "swr"}
    /\ product \in Nat \ {0} /\ entry \in 0 .. product /\ dbCalls \in Nat
    /\ leaseOf \in Requests \cup {NoRequest} /\ lapsedLeases \subseteq Requests
    /\ losses \in Nat
    /\ request \in [Requests -> [pc : PlacesOf(strategy), got : Nat, attempt : Nat,
                                 behind : Requests \cup {NoRequest}]]
    /\ inFlight \in [Processes -> Requests \cup {NoRequest}]
    /\ refresh \in [Processes -> [pc : {"idle", "querying", "write"}, got : Nat]]

\* What was read was the row's version; only stale-while-revalidate refreshes.
ReadsAreReal ==
    /\ \A r \in Requests : /\ request[r].got <= product
                           /\ RequestAt(r, "fill") => request[r].got > 0
    /\ \A p \in Processes : /\ refresh[p].got <= product
                            /\ refresh[p].pc = "write" => refresh[p].got > 0
                            /\ strategy # "swr" => refresh[p].pc = "idle"

Refilling == {"query", "querying", "fill"}

\* The promise in the map is that of the request that refills.
MapHoldsRefiller ==
    strategy = "coalescing" =>
        \A r \in Requests : request[r].pc \in Refilling \cup {"get"} => Map(r) = r

\* Until its lease lapses, it is the refiller's, and no entry is newer than its read.
LeaseHoldsRefiller ==
    strategy = "lease" =>
        /\ \A r \in Requests \ lapsedLeases :
              request[r].pc \in Refilling \cup {"release", "release_failed"} => leaseOf = r
        /\ lapsedLeases = {} => \A r \in Requests : RequestAt(r, "fill") => entry <= request[r].got

\* In a cold burst the entry of a request that is over is there, and it was not
\* when another request of its process went to query.
ColdEntries ==
    strategy = "coalescing" /\ ColdBurst =>
        /\ \A r \in Requests : RequestAt(r, "done") => entry # NoEntry
        /\ \A r, q \in Requests :
              request[r].pc \in Refilling /\ ProcessOf[q] = ProcessOf[r] => ~RequestAt(q, "done")

\* The processes one of whose requests has called the database, or is over;
\* each calls it once.
Called == {"querying", "fill", "done"}
Calling == {p \in Processes : \E r \in InProcess(p) : request[r].pc \in Called}
ColdCalls == strategy = "coalescing" /\ ColdBurst => dbCalls <= Cardinality(Calling)

RefillInv == RefillTypes /\ ReadsAreReal /\ MapHoldsRefiller /\ LeaseHoldsRefiller
             /\ ColdEntries /\ ColdCalls

\* Nothing has been read at first.
LEMMA RefillInitInv == RefillInit => RefillInv
  <1> SUFFICES ASSUME RefillInit PROVE RefillInv
    OBVIOUS
  <1>1. RefillTypes
    BY RefillAssumption DEF RefillAssumption, RefillInit, RefillTypes, PlacesOf, NoEntry, NoRead
  <1>2. ReadsAreReal
    BY DEF RefillInit, ReadsAreReal, RequestAt, NoEntry, NoRead
  <1>3. MapHoldsRefiller /\ LeaseHoldsRefiller
    BY DEF RefillInit, MapHoldsRefiller, LeaseHoldsRefiller, Refilling, RequestAt
  <1>4. ColdEntries
    BY DEF RefillInit, ColdEntries, Refilling, RequestAt
  <1>5. ColdCalls
    <2>1. IsFiniteSet(Calling) /\ Cardinality(Calling) \in Nat
      BY RefillAssumption, FS_Subset, FS_CardinalityType DEF RefillAssumption, Calling
    <2> QED
      BY <2>1 DEF RefillInit, ColdCalls
  <1> QED
    BY <1>1, <1>2, <1>3, <1>4, <1>5 DEF RefillInv


\* A request that settles takes those with it that joined it; the others stay.
LEMMA SettledMoves ==
  ASSUME RefillTypes, NEW r \in Requests, NEW result \in {"done", "failed"}, NEW v \in Nat,
         Settled(r, result, v)
  PROVE  /\ request' \in [Requests -> [pc : PlacesOf(strategy), got : Nat, attempt : Nat,
                                       behind : Requests \cup {NoRequest}]]
         /\ inFlight' \in [Processes -> Requests \cup {NoRequest}]
         /\ request'[r].pc = result /\ request'[r].got = v
         /\ \A q \in Requests :
               \/ request'[q] = request[q] /\ q # r
               \/ /\ q = r \/ (strategy = "coalescing" /\ RequestAt(q, "joined") /\ ProcessOf[q] = ProcessOf[r])
                  /\ request'[q].pc = result /\ request'[q].got = v
         /\ \A p \in Processes :
               inFlight'[p] = IF p = ProcessOf[r] /\ inFlight[p] = r THEN NoRequest ELSE inFlight[p]
  <1> USE RefillAssumption DEF RefillAssumption, RefillTypes
  <1> DEFINE answered(q) == [request[q] EXCEPT !.pc = result, !.got = v]
  <1>1. \A q \in Requests :
           request'[q] = IF q = r \/ (strategy = "coalescing" /\ q \in Joined(r))
                         THEN answered(q) ELSE request[q]
    BY DEF Settled
  <1>2. ASSUME NEW q \in Requests
        PROVE  /\ answered(q) \in [pc : PlacesOf(strategy), got : Nat, attempt : Nat, behind : Requests \cup {NoRequest}]
               /\ answered(q).pc = result /\ answered(q).got = v
    <2>1. /\ request[q] \in [pc : PlacesOf(strategy), got : Nat, attempt : Nat, behind : Requests \cup {NoRequest}]
          /\ result \in PlacesOf(strategy)
      BY DEF PlacesOf
    <2> QED
      BY <2>1
  <1>4. request' \in [Requests -> [pc : PlacesOf(strategy), got : Nat, attempt : Nat,
                                   behind : Requests \cup {NoRequest}]]
    <2>1. DOMAIN request' = Requests /\ request' = [q \in Requests |-> request'[q]]
      BY DEF Settled
    <2> HIDE DEF answered
    <2>2. \A q \in Requests : request'[q] \in [pc : PlacesOf(strategy), got : Nat, attempt : Nat,
                                              behind : Requests \cup {NoRequest}]
      BY <1>1, <1>2
    <2> QED
      BY <2>1, <2>2
  <1>5. /\ inFlight' \in [Processes -> Requests \cup {NoRequest}]
        /\ \A p \in Processes :
               inFlight'[p] = IF p = ProcessOf[r] /\ inFlight[p] = r THEN NoRequest ELSE inFlight[p]
    BY DEF Settled, Map
  <1>6. \A q \in Requests :
           \/ request'[q] = request[q] /\ q # r
           \/ /\ q = r \/ (strategy = "coalescing" /\ RequestAt(q, "joined") /\ ProcessOf[q] = ProcessOf[r])
              /\ request'[q].pc = result /\ request'[q].got = v
    <2> HIDE DEF answered
    <2> QED
      BY <1>1, <1>2 DEF Joined
  <1> QED
    BY <1>4, <1>5, <1>6

\* Two fields of one request change.
LEMMA RequestUpdate ==
  ASSUME RefillTypes, NEW r \in Requests, NEW p \in PlacesOf(strategy), NEW v \in Nat,
         request' = [request EXCEPT ![r] = [@ EXCEPT !.pc = p, !.got = v]]
  PROVE  /\ request' \in [Requests -> [pc : PlacesOf(strategy), got : Nat, attempt : Nat,
                                       behind : Requests \cup {NoRequest}]]
         /\ request'[r].pc = p /\ request'[r].got = v
         /\ \A q \in Requests \ {r} : request'[q] = request[q]
  <1> DEFINE x == [request[r] EXCEPT !.pc = p, !.got = v]
  <1>1. /\ x \in [pc : PlacesOf(strategy), got : Nat, attempt : Nat, behind : Requests \cup {NoRequest}]
        /\ x.pc = p /\ x.got = v
    <2>1. request[r] \in [pc : PlacesOf(strategy), got : Nat, attempt : Nat, behind : Requests \cup {NoRequest}]
      BY DEF RefillTypes
    <2> QED
      BY <2>1
  <1>2. request' = [request EXCEPT ![r] = x]
    OBVIOUS
  <1>3. request \in [Requests -> [pc : PlacesOf(strategy), got : Nat, attempt : Nat, behind : Requests \cup {NoRequest}]]
    BY DEF RefillTypes
  <1>4. request'[r] = x /\ \A q \in Requests \ {r} : request'[q] = request[q]
    BY <1>2, <1>3
  <1> HIDE DEF x
  <1>5. request' \in [Requests -> [pc : PlacesOf(strategy), got : Nat, attempt : Nat, behind : Requests \cup {NoRequest}]]
    BY <1>1, <1>2, <1>3
  <1> QED
    BY <1>1, <1>4, <1>5

\* Whoever asks for the lease queries with it or polls behind its owner.
LEMMA AcquireMoves ==
  ASSUME RefillTypes, NEW r \in Requests, Acquire(r)
  PROVE  /\ request' \in [Requests -> [pc : PlacesOf(strategy), got : Nat, attempt : Nat,
                                       behind : Requests \cup {NoRequest}]]
         /\ strategy = "lease" /\ request'[r].pc \in {"query", "poll"}
         /\ request'[r].got = request[r].got
         /\ \A q \in Requests \ {r} : request'[q] = request[q]
         /\ request'[r].pc = "query" => leaseOf = NoRequest /\ leaseOf' = r
         /\ request'[r].pc = "poll" => leaseOf' = leaseOf
  <1>1. strategy = "lease" /\ request[r].pc = "acquire"
    BY DEF Acquire, RequestAt, RefillTypes, PlacesOf
  <1>2. PlacesOf(strategy) = PlacesOf("lease") /\ {"query", "poll"} \subseteq PlacesOf(strategy)
    BY <1>1 DEF PlacesOf
  <1>3. request[r] \in [pc : PlacesOf(strategy), got : Nat, attempt : Nat, behind : Requests \cup {NoRequest}]
    BY DEF RefillTypes
  <1>4. CASE leaseOf = NoRequest
    BY <1>1, <1>2, <1>4 DEF Acquire, Advance, RefillTypes
  <1>5. CASE leaseOf # NoRequest
    <2> DEFINE waiting == [request[r] EXCEPT !.pc = "poll", !.behind = leaseOf]
    <2>1. request' = [request EXCEPT ![r] = waiting] /\ leaseOf' = leaseOf
      BY <1>5 DEF Acquire
    <2>2. /\ waiting \in [pc : PlacesOf(strategy), got : Nat, attempt : Nat, behind : Requests \cup {NoRequest}]
          /\ waiting.pc = "poll" /\ waiting.got = request[r].got
      BY <1>2, <1>3 DEF RefillTypes
    <2> HIDE DEF waiting
    <2> QED
      BY <1>1, <2>1, <2>2 DEF RefillTypes
  <1> QED
    BY <1>4, <1>5

\* A poll that found nothing starts again, or gives up.
LEMMA PollMoves ==
  ASSUME RefillTypes, NEW r \in Requests, PollTimesOut(r)
  PROVE  /\ request' \in [Requests -> [pc : PlacesOf(strategy), got : Nat, attempt : Nat,
                                       behind : Requests \cup {NoRequest}]]
         /\ strategy = "lease" /\ request'[r].pc \in {"failed", "start"}
         /\ request'[r].got = request[r].got
         /\ \A q \in Requests \ {r} : request'[q] = request[q]
  <1>1. strategy = "lease" /\ {"failed", "start"} \subseteq PlacesOf(strategy)
    BY DEF PollTimesOut, RequestAt, RefillTypes, PlacesOf
  <1>2. request[r] \in [pc : PlacesOf(strategy), got : Nat, attempt : Nat, behind : Requests \cup {NoRequest}]
    BY DEF RefillTypes
  <1>3. CASE request[r].attempt >= RefillAttempts
    BY <1>1, <1>2, <1>3 DEF PollTimesOut, Advance, RefillTypes
  <1>4. CASE ~(request[r].attempt >= RefillAttempts)
    <2> DEFINE n == request[r].attempt + 1
               again == [request[r] EXCEPT !.pc = "start", !.attempt = n, !.behind = NoRequest]
    <2>1. request' = [request EXCEPT ![r] = again]
      BY <1>4 DEF PollTimesOut
    <2>2. n \in Nat
      BY <1>2
    <2> HIDE DEF n
    <2>3. /\ again \in [pc : PlacesOf(strategy), got : Nat, attempt : Nat, behind : Requests \cup {NoRequest}]
          /\ again.pc = "start" /\ again.got = request[r].got
      BY <1>1, <1>2, <2>2
    <2> HIDE DEF again
    <2> QED
      BY <1>1, <2>1, <2>3 DEF RefillTypes
  <1> QED
    BY <1>3, <1>4

\* Each step leaves every variable in its type, and a request where its cache has it.
LEMMA RefillTypesStep == RefillInv /\ [RefillNext]_refillVars => RefillTypes'
  <1> SUFFICES ASSUME RefillInv, [RefillNext]_refillVars PROVE RefillTypes'
    OBVIOUS
  <1> USE RefillAssumption DEF RefillAssumption, RefillInv, RefillTypes, RequestAt, NoEntry, NoRead, ReadsAreReal
  <1>0. /\ {"start", "query", "querying", "fill", "done", "failed"} \subseteq PlacesOf(strategy)
        /\ strategy = "coalescing" => {"get", "joined"} \subseteq PlacesOf(strategy)
        /\ strategy = "lease" => {"acquire", "poll", "release", "release_failed"} \subseteq PlacesOf(strategy)
        /\ \A r \in Requests : request[r].pc \in {"acquire", "poll", "release", "release_failed"} => strategy = "lease"
    BY DEF PlacesOf
  <1>1. ASSUME NEW r \in Requests, Join(r) PROVE RefillTypes'
    <2>1. CASE Map(r) # NoRequest
      BY <1>1, <1>0, <2>1 DEF Join, Advance
    <2>2. CASE Map(r) = NoRequest
      <3>1. /\ strategy = "coalescing" /\ request' = [request EXCEPT ![r].pc = "get"]
            /\ inFlight' = [inFlight EXCEPT ![ProcessOf[r]] = r]
        BY <1>1, <2>2 DEF Join, Advance
      <3>2. request' \in [Requests -> [pc : PlacesOf(strategy), got : Nat, attempt : Nat,
                                       behind : Requests \cup {NoRequest}]]
        BY <1>0, <3>1
      <3> QED
        BY <1>1, <3>1, <3>2 DEF Join
    <2> QED
      BY <2>1, <2>2
  <1>2. ASSUME NEW r \in Requests, CacheGet(r) PROVE RefillTypes'
    <2>1. CASE entry = NoEntry
      BY <1>2, <1>0, <2>1 DEF CacheGet, Advance
    <2>2. CASE entry # NoEntry
      <3>1. Settled(r, "done", entry) /\ entry \in Nat
        BY <1>2, <2>2 DEF CacheGet
      <3>2. /\ request' \in [Requests -> [pc : PlacesOf(strategy), got : Nat, attempt : Nat,
                                          behind : Requests \cup {NoRequest}]]
            /\ inFlight' \in [Processes -> Requests \cup {NoRequest}]
        BY <3>1, SettledMoves
      <3>3. /\ refresh' \in [Processes -> [pc : {"idle", "querying", "write"}, got : Nat]]
            /\ dbCalls' \in Nat
        <4>1. \/ UNCHANGED <<refresh, dbCalls>>
              \/ refresh' = [refresh EXCEPT ![ProcessOf[r]].pc = "querying"] /\ dbCalls' = dbCalls + 1
          BY <1>2, <2>2 DEF CacheGet
        <4> QED
          BY <4>1
      <3> QED
        BY <1>2, <3>2, <3>3 DEF CacheGet
    <2> QED
      BY <2>1, <2>2
  <1>3. ASSUME NEW r \in Requests, QueryStarts(r) PROVE RefillTypes'
    BY <1>3, <1>0 DEF QueryStarts, Advance
  <1>4. ASSUME NEW r \in Requests, QueryReturns(r) PROVE RefillTypes'
    <2>1. /\ request' \in [Requests -> [pc : PlacesOf(strategy), got : Nat, attempt : Nat,
                                        behind : Requests \cup {NoRequest}]]
      BY <1>4, <1>0, RequestUpdate DEF QueryReturns
    <2> QED
      BY <1>4, <2>1 DEF QueryReturns
  <1>5. ASSUME NEW r \in Requests, QueryFails(r) PROVE RefillTypes'
    <2>1. CASE strategy = "lease"
      <3>1. request' = [request EXCEPT ![r].pc = "release_failed"]
        BY <1>5, <2>1 DEF QueryFails
      <3>2. request' \in [Requests -> [pc : PlacesOf(strategy), got : Nat, attempt : Nat,
                                       behind : Requests \cup {NoRequest}]]
        BY <1>0, <2>1, <3>1
      <3> QED
        BY <1>5, <2>1, <3>2 DEF QueryFails
    <2>2. CASE strategy # "lease"
      <3>1. Settled(r, "failed", 0)
        BY <1>5, <2>2 DEF QueryFails
      <3>2. /\ request' \in [Requests -> [pc : PlacesOf(strategy), got : Nat, attempt : Nat,
                                          behind : Requests \cup {NoRequest}]]
            /\ inFlight' \in [Processes -> Requests \cup {NoRequest}]
        BY <3>1, SettledMoves
      <3> QED
        BY <1>5, <3>2 DEF QueryFails
    <2> QED
      BY <2>1, <2>2
  <1>6. ASSUME NEW r \in Requests, CacheSet(r) PROVE RefillTypes'
    <2>0. request[r].got \in Nat /\ entry' \in 0 .. product
      BY <1>6 DEF CacheSet
    <2>1. CASE strategy = "lease"
      <3>1. request' = [request EXCEPT ![r].pc = "release"] /\ inFlight' = inFlight
        BY <1>6, <2>1 DEF CacheSet, Advance
      <3>2. request' \in [Requests -> [pc : PlacesOf(strategy), got : Nat, attempt : Nat,
                                       behind : Requests \cup {NoRequest}]]
        BY <1>0, <2>1, <3>1
      <3> QED
        BY <1>6, <2>0, <3>1, <3>2 DEF CacheSet
    <2>2. CASE strategy # "lease"
      <3>1. Settled(r, "done", request[r].got)
        BY <1>6, <2>2 DEF CacheSet
      <3>2. /\ request' \in [Requests -> [pc : PlacesOf(strategy), got : Nat, attempt : Nat,
                                          behind : Requests \cup {NoRequest}]]
            /\ inFlight' \in [Processes -> Requests \cup {NoRequest}]
        BY <2>0, <3>1, SettledMoves
      <3> QED
        BY <1>6, <2>0, <3>2 DEF CacheSet
    <2> QED
      BY <2>1, <2>2
  <1>7. ASSUME NEW r \in Requests, Acquire(r) PROVE RefillTypes'
    BY <1>7, AcquireMoves DEF Acquire
  <1>8. ASSUME NEW r \in Requests, Release(r) PROVE RefillTypes'
    BY <1>8, <1>0 DEF Release, Advance, ReleaseIfOwner
  <1>9. ASSUME NEW r \in Requests, PollForCacheValue(r) PROVE RefillTypes'
    <2>0. /\ "done" \in PlacesOf(strategy) /\ entry \in Nat
          /\ request' = [request EXCEPT ![r] = [@ EXCEPT !.pc = "done", !.got = entry]]
      BY <1>9, <1>0 DEF PollForCacheValue
    <2>1. request' \in [Requests -> [pc : PlacesOf(strategy), got : Nat, attempt : Nat,
                                     behind : Requests \cup {NoRequest}]]
      BY <2>0, RequestUpdate
    <2> QED
      BY <1>9, <2>1 DEF PollForCacheValue
  <1>10. ASSUME NEW r \in Requests, PollTimesOut(r) PROVE RefillTypes'
    BY <1>10, PollMoves DEF PollTimesOut
  <1>11. ASSUME NEW p \in Processes, RefreshReads(p) PROVE RefillTypes'
    BY <1>11, <1>0 DEF RefreshReads
  <1>12. ASSUME NEW p \in Processes, RefreshWrites(p) PROVE RefillTypes'
    BY <1>12, <1>0 DEF RefreshWrites
  <1>13. CASE EntryExpires
    BY <1>13, <1>0 DEF EntryExpires
  <1>14. CASE EntryTurnsStale
    BY <1>14, <1>0 DEF EntryTurnsStale
  <1>15. CASE RefillLeaseExpires
    BY <1>15, <1>0 DEF RefillLeaseExpires
  <1>16. CASE ProductChanges
    BY <1>16, <1>0 DEF ProductChanges
  <1>17. CASE UNCHANGED refillVars
    BY <1>17 DEF refillVars
  <1> QED
    BY <1>1, <1>2, <1>3, <1>4, <1>5, <1>6, <1>7, <1>8, <1>9, <1>10, <1>11, <1>12, <1>13, <1>14, <1>15, <1>16, <1>17
          DEF RefillNext, RequestStep, RefreshStep

\* Every read takes the version of the moment, whoever it is for.
LEMMA ReadsAreRealStep == RefillInv /\ [RefillNext]_refillVars => ReadsAreReal'
  <1> SUFFICES ASSUME RefillInv, [RefillNext]_refillVars PROVE ReadsAreReal'
    OBVIOUS
  <1> USE RefillAssumption
        DEF RefillAssumption, RefillInv, RefillTypes, RequestAt, NoEntry, NoRead, ReadsAreReal, PlacesOf
  <1>1. ASSUME NEW r \in Requests, Join(r) PROVE ReadsAreReal'
    BY <1>1 DEF Join, Advance, Map
  <1>2. ASSUME NEW r \in Requests, CacheGet(r) PROVE ReadsAreReal'
    <2>1. CASE entry = NoEntry
      BY <1>2, <2>1 DEF CacheGet, Advance
    <2>2. CASE entry # NoEntry
      <3>1. Settled(r, "done", entry) /\ entry \in Nat
        BY <1>2, <2>2 DEF CacheGet
      <3>2. /\ \A q \in Requests :
               \/ request'[q] = request[q] /\ q # r
               \/ /\ q = r \/ (strategy = "coalescing" /\ RequestAt(q, "joined") /\ ProcessOf[q] = ProcessOf[r])
                  /\ request'[q].pc = "done" /\ request'[q].got = entry
            /\ request'[r].pc = "done" /\ request'[r].got = entry
            /\ \A p \in Processes :
               inFlight'[p] = IF p = ProcessOf[r] /\ inFlight[p] = r THEN NoRequest ELSE inFlight[p]
        BY <3>1, SettledMoves
      <3> QED
        BY <1>2, <2>2, <3>2 DEF CacheGet
    <2> QED
      BY <2>1, <2>2
  <1>3. ASSUME NEW r \in Requests, QueryStarts(r) PROVE ReadsAreReal'
    BY <1>3 DEF QueryStarts, Advance
  <1>4. ASSUME NEW r \in Requests, QueryReturns(r) PROVE ReadsAreReal'
    BY <1>4 DEF QueryReturns
  <1>5. ASSUME NEW r \in Requests, QueryFails(r) PROVE ReadsAreReal'
    <2>1. CASE strategy = "lease"
      BY <1>5, <2>1 DEF QueryFails
    <2>2. CASE strategy # "lease"
      <3>1. Settled(r, "failed", 0)
        BY <1>5, <2>2 DEF QueryFails
      <3>2. /\ \A q \in Requests :
               \/ request'[q] = request[q] /\ q # r
               \/ /\ q = r \/ (strategy = "coalescing" /\ RequestAt(q, "joined") /\ ProcessOf[q] = ProcessOf[r])
                  /\ request'[q].pc = "failed" /\ request'[q].got = 0
            /\ request'[r].pc = "failed" /\ request'[r].got = 0
            /\ \A p \in Processes :
               inFlight'[p] = IF p = ProcessOf[r] /\ inFlight[p] = r THEN NoRequest ELSE inFlight[p]
        BY <3>1, SettledMoves
      <3> QED
        BY <1>5, <2>2, <3>2 DEF QueryFails
    <2> QED
      BY <2>1, <2>2
  <1>6. ASSUME NEW r \in Requests, CacheSet(r) PROVE ReadsAreReal'
    <2>1. CASE strategy = "lease"
      BY <1>6, <2>1 DEF CacheSet, Advance
    <2>2. CASE strategy # "lease"
      <3>1. Settled(r, "done", request[r].got) /\ request[r].got \in Nat
        BY <1>6, <2>2 DEF CacheSet
      <3>2. /\ \A q \in Requests :
               \/ request'[q] = request[q] /\ q # r
               \/ /\ q = r \/ (strategy = "coalescing" /\ RequestAt(q, "joined") /\ ProcessOf[q] = ProcessOf[r])
                  /\ request'[q].pc = "done" /\ request'[q].got = request[r].got
            /\ request'[r].pc = "done" /\ request'[r].got = request[r].got
            /\ \A p \in Processes :
               inFlight'[p] = IF p = ProcessOf[r] /\ inFlight[p] = r THEN NoRequest ELSE inFlight[p]
        BY <3>1, SettledMoves
      <3> QED
        BY <1>6, <2>2, <3>2 DEF CacheSet
    <2> QED
      BY <2>1, <2>2
  <1>7. ASSUME NEW r \in Requests, Acquire(r) PROVE ReadsAreReal'
    <2>1. /\ UNCHANGED <<product, refresh, strategy>> /\ request'[r].pc \in {"query", "poll"}
          /\ \A q \in Requests : request'[q].got = request[q].got /\ (q # r => request'[q] = request[q])
      <3>1. UNCHANGED <<product, refresh, strategy>>
        BY <1>7 DEF Acquire
      <3>2. /\ request'[r].pc \in {"query", "poll"} /\ request'[r].got = request[r].got
            /\ \A q \in Requests \ {r} : request'[q] = request[q]
        BY <1>7, AcquireMoves
      <3> QED
        BY <3>1, <3>2
    <2> QED
      BY <2>1
  <1>8. ASSUME NEW r \in Requests, Release(r) PROVE ReadsAreReal'
    BY <1>8 DEF Release, Advance, ReleaseIfOwner
  <1>9. ASSUME NEW r \in Requests, PollForCacheValue(r) PROVE ReadsAreReal'
    BY <1>9 DEF PollForCacheValue
  <1>10. ASSUME NEW r \in Requests, PollTimesOut(r) PROVE ReadsAreReal'
    <2>1. /\ UNCHANGED <<product, refresh, strategy>>
          /\ \A q \in Requests : request'[q].got = request[q].got /\ (q # r => request'[q] = request[q])
          /\ request'[r].pc \in {"failed", "start"}
      BY <1>10, PollMoves DEF PollTimesOut
    <2> QED
      BY <2>1
  <1>11. ASSUME NEW p \in Processes, RefreshReads(p) PROVE ReadsAreReal'
    BY <1>11 DEF RefreshReads
  <1>12. ASSUME NEW p \in Processes, RefreshWrites(p) PROVE ReadsAreReal'
    BY <1>12 DEF RefreshWrites
  <1>13. CASE EntryExpires
    BY <1>13 DEF EntryExpires
  <1>14. CASE EntryTurnsStale
    BY <1>14 DEF EntryTurnsStale
  <1>15. CASE RefillLeaseExpires
    BY <1>15 DEF RefillLeaseExpires
  <1>16. CASE ProductChanges
    BY <1>16 DEF ProductChanges
  <1>17. CASE UNCHANGED refillVars
    BY <1>17 DEF refillVars
  <1> QED
    BY <1>1, <1>2, <1>3, <1>4, <1>5, <1>6, <1>7, <1>8, <1>9, <1>10, <1>11, <1>12, <1>13, <1>14, <1>15, <1>16, <1>17
          DEF RefillNext, RequestStep, RefreshStep

\* A request comes to the refill by putting its promise into the map, and the
\* promise leaves the map when it settles.
LEMMA MapHoldsRefillerStep == RefillInv /\ [RefillNext]_refillVars => MapHoldsRefiller'
  <1> SUFFICES ASSUME RefillInv, [RefillNext]_refillVars PROVE MapHoldsRefiller'
    OBVIOUS
  <1> USE RefillAssumption
        DEF RefillAssumption, RefillInv, RefillTypes, RequestAt, NoEntry, NoRead, MapHoldsRefiller, Refilling, Map,
            PlacesOf
  <1>1. ASSUME NEW r \in Requests, Join(r) PROVE MapHoldsRefiller'
    <2>1. CASE Map(r) # NoRequest
      <3>1. request' = [request EXCEPT ![r].pc = "joined"] /\ inFlight' = inFlight
        BY <1>1, <2>1 DEF Join, Advance
      <3>2. request'[r].pc = "joined" /\ \A q \in Requests \ {r} : request'[q] = request[q]
        BY <3>1
      <3> QED
        BY <1>1, <3>1, <3>2 DEF Join
    <2>2. CASE Map(r) = NoRequest
      <3>1. /\ request' = [request EXCEPT ![r].pc = "get"]
            /\ inFlight' = [inFlight EXCEPT ![ProcessOf[r]] = r]
        BY <1>1, <2>2 DEF Join, Advance
      <3>2. \A q \in Requests \ {r} : request'[q] = request[q]
        BY <3>1
      <3>3. inFlight'[ProcessOf[r]] = r /\ \A p \in Processes \ {ProcessOf[r]} : inFlight'[p] = inFlight[p]
        BY <3>1
      <3> QED
        BY <1>1, <2>2, <3>2, <3>3 DEF Join
    <2> QED
      BY <2>1, <2>2
  <1>2. ASSUME NEW r \in Requests, CacheGet(r) PROVE MapHoldsRefiller'
    <2>1. CASE entry = NoEntry
      BY <1>2, <2>1 DEF CacheGet, Advance
    <2>2. CASE entry # NoEntry
      <3>1. Settled(r, "done", entry) /\ entry \in Nat
        BY <1>2, <2>2 DEF CacheGet
      <3>2. /\ \A q \in Requests :
               \/ request'[q] = request[q] /\ q # r
               \/ /\ q = r \/ (strategy = "coalescing" /\ RequestAt(q, "joined") /\ ProcessOf[q] = ProcessOf[r])
                  /\ request'[q].pc = "done" /\ request'[q].got = entry
            /\ request'[r].pc = "done" /\ request'[r].got = entry
            /\ \A p \in Processes :
               inFlight'[p] = IF p = ProcessOf[r] /\ inFlight[p] = r THEN NoRequest ELSE inFlight[p]
        BY <3>1, SettledMoves
      <3> QED
        BY <1>2, <2>2, <3>2 DEF CacheGet
    <2> QED
      BY <2>1, <2>2
  <1>3. ASSUME NEW r \in Requests, QueryStarts(r) PROVE MapHoldsRefiller'
    BY <1>3 DEF QueryStarts, Advance
  <1>4. ASSUME NEW r \in Requests, QueryReturns(r) PROVE MapHoldsRefiller'
    BY <1>4 DEF QueryReturns
  <1>5. ASSUME NEW r \in Requests, QueryFails(r) PROVE MapHoldsRefiller'
    <2>1. CASE strategy = "lease"
      BY <1>5, <2>1 DEF QueryFails
    <2>2. CASE strategy # "lease"
      <3>1. Settled(r, "failed", 0)
        BY <1>5, <2>2 DEF QueryFails
      <3>2. /\ \A q \in Requests :
               \/ request'[q] = request[q] /\ q # r
               \/ /\ q = r \/ (strategy = "coalescing" /\ RequestAt(q, "joined") /\ ProcessOf[q] = ProcessOf[r])
                  /\ request'[q].pc = "failed" /\ request'[q].got = 0
            /\ request'[r].pc = "failed" /\ request'[r].got = 0
            /\ \A p \in Processes :
               inFlight'[p] = IF p = ProcessOf[r] /\ inFlight[p] = r THEN NoRequest ELSE inFlight[p]
        BY <3>1, SettledMoves
      <3> QED
        BY <1>5, <2>2, <3>2 DEF QueryFails
    <2> QED
      BY <2>1, <2>2
  <1>6. ASSUME NEW r \in Requests, CacheSet(r) PROVE MapHoldsRefiller'
    <2>1. CASE strategy = "lease"
      BY <1>6, <2>1 DEF CacheSet, Advance
    <2>2. CASE strategy # "lease"
      <3>1. Settled(r, "done", request[r].got) /\ request[r].got \in Nat
        BY <1>6, <2>2 DEF CacheSet
      <3>2. /\ \A q \in Requests :
               \/ request'[q] = request[q] /\ q # r
               \/ /\ q = r \/ (strategy = "coalescing" /\ RequestAt(q, "joined") /\ ProcessOf[q] = ProcessOf[r])
                  /\ request'[q].pc = "done" /\ request'[q].got = request[r].got
            /\ request'[r].pc = "done" /\ request'[r].got = request[r].got
            /\ \A p \in Processes :
               inFlight'[p] = IF p = ProcessOf[r] /\ inFlight[p] = r THEN NoRequest ELSE inFlight[p]
        BY <3>1, SettledMoves
      <3> QED
        BY <1>6, <2>2, <3>2 DEF CacheSet
    <2> QED
      BY <2>1, <2>2
  <1>7. ASSUME NEW r \in Requests, Acquire(r) PROVE MapHoldsRefiller'
    BY <1>7 DEF Acquire, Advance
  <1>8. ASSUME NEW r \in Requests, Release(r) PROVE MapHoldsRefiller'
    BY <1>8 DEF Release, Advance, ReleaseIfOwner
  <1>9. ASSUME NEW r \in Requests, PollForCacheValue(r) PROVE MapHoldsRefiller'
    BY <1>9 DEF PollForCacheValue
  <1>10. ASSUME NEW r \in Requests, PollTimesOut(r) PROVE MapHoldsRefiller'
    BY <1>10 DEF PollTimesOut, Advance
  <1>11. ASSUME NEW p \in Processes, RefreshReads(p) PROVE MapHoldsRefiller'
    BY <1>11 DEF RefreshReads
  <1>12. ASSUME NEW p \in Processes, RefreshWrites(p) PROVE MapHoldsRefiller'
    BY <1>12 DEF RefreshWrites
  <1>13. CASE EntryExpires
    BY <1>13 DEF EntryExpires
  <1>14. CASE EntryTurnsStale
    BY <1>14 DEF EntryTurnsStale
  <1>15. CASE RefillLeaseExpires
    BY <1>15 DEF RefillLeaseExpires
  <1>16. CASE ProductChanges
    BY <1>16 DEF ProductChanges
  <1>17. CASE UNCHANGED refillVars
    BY <1>17 DEF refillVars
  <1> QED
    BY <1>1, <1>2, <1>3, <1>4, <1>5, <1>6, <1>7, <1>8, <1>9, <1>10, <1>11, <1>12, <1>13, <1>14, <1>15, <1>16, <1>17
          DEF RefillNext, RequestStep, RefreshStep

\* A request comes to the refill under a lease that was free, and while none has
\* lapsed nobody else fills.
LEMMA LeaseHoldsRefillerStep == RefillInv /\ [RefillNext]_refillVars => LeaseHoldsRefiller'
  <1> SUFFICES ASSUME RefillInv, [RefillNext]_refillVars PROVE LeaseHoldsRefiller'
    OBVIOUS
  <1> USE RefillAssumption
        DEF RefillAssumption, RefillInv, RefillTypes, RequestAt, NoEntry, NoRead, LeaseHoldsRefiller, ReadsAreReal,
            Refilling, PlacesOf
  <1>1. ASSUME NEW r \in Requests, Join(r) PROVE LeaseHoldsRefiller'
    BY <1>1 DEF Join, Advance, Map
  <1>2. ASSUME NEW r \in Requests, CacheGet(r) PROVE LeaseHoldsRefiller'
    <2>1. CASE entry = NoEntry
      <3>1. /\ UNCHANGED <<strategy, entry, leaseOf, lapsedLeases>>
            /\ \A q \in Requests \ {r} : request'[q] = request[q]
            /\ strategy = "lease" => request'[r].pc = "acquire"
        BY <1>2, <2>1 DEF CacheGet, Advance
      <3> QED
        BY <3>1
    <2>2. CASE entry # NoEntry
      <3>1. Settled(r, "done", entry) /\ entry \in Nat
        BY <1>2, <2>2 DEF CacheGet
      <3>2. /\ \A q \in Requests :
               \/ request'[q] = request[q] /\ q # r
               \/ /\ q = r \/ (strategy = "coalescing" /\ RequestAt(q, "joined") /\ ProcessOf[q] = ProcessOf[r])
                  /\ request'[q].pc = "done" /\ request'[q].got = entry
            /\ request'[r].pc = "done" /\ request'[r].got = entry
            /\ \A p \in Processes :
               inFlight'[p] = IF p = ProcessOf[r] /\ inFlight[p] = r THEN NoRequest ELSE inFlight[p]
        BY <3>1, SettledMoves
      <3> QED
        BY <1>2, <2>2, <3>2 DEF CacheGet
    <2> QED
      BY <2>1, <2>2
  <1>3. ASSUME NEW r \in Requests, QueryStarts(r) PROVE LeaseHoldsRefiller'
    BY <1>3 DEF QueryStarts, Advance
  <1>4. ASSUME NEW r \in Requests, QueryReturns(r) PROVE LeaseHoldsRefiller'
    BY <1>4 DEF QueryReturns
  <1>5. ASSUME NEW r \in Requests, QueryFails(r) PROVE LeaseHoldsRefiller'
    <2>1. CASE strategy = "lease"
      BY <1>5, <2>1 DEF QueryFails
    <2>2. CASE strategy # "lease"
      <3>1. Settled(r, "failed", 0)
        BY <1>5, <2>2 DEF QueryFails
      <3>2. /\ \A q \in Requests :
               \/ request'[q] = request[q] /\ q # r
               \/ /\ q = r \/ (strategy = "coalescing" /\ RequestAt(q, "joined") /\ ProcessOf[q] = ProcessOf[r])
                  /\ request'[q].pc = "failed" /\ request'[q].got = 0
            /\ request'[r].pc = "failed" /\ request'[r].got = 0
            /\ \A p \in Processes :
               inFlight'[p] = IF p = ProcessOf[r] /\ inFlight[p] = r THEN NoRequest ELSE inFlight[p]
        BY <3>1, SettledMoves
      <3> QED
        BY <1>5, <2>2, <3>2 DEF QueryFails
    <2> QED
      BY <2>1, <2>2
  <1>6. ASSUME NEW r \in Requests, CacheSet(r) PROVE LeaseHoldsRefiller'
    <2>1. CASE strategy = "lease"
      BY <1>6, <2>1 DEF CacheSet, Advance
    <2>2. CASE strategy # "lease"
      <3>1. Settled(r, "done", request[r].got) /\ request[r].got \in Nat
        BY <1>6, <2>2 DEF CacheSet
      <3>2. /\ \A q \in Requests :
               \/ request'[q] = request[q] /\ q # r
               \/ /\ q = r \/ (strategy = "coalescing" /\ RequestAt(q, "joined") /\ ProcessOf[q] = ProcessOf[r])
                  /\ request'[q].pc = "done" /\ request'[q].got = request[r].got
            /\ request'[r].pc = "done" /\ request'[r].got = request[r].got
            /\ \A p \in Processes :
               inFlight'[p] = IF p = ProcessOf[r] /\ inFlight[p] = r THEN NoRequest ELSE inFlight[p]
        BY <3>1, SettledMoves
      <3> QED
        BY <1>6, <2>2, <3>2 DEF CacheSet
    <2> QED
      BY <2>1, <2>2
  <1>7. ASSUME NEW r \in Requests, Acquire(r) PROVE LeaseHoldsRefiller'
    <2>1. /\ UNCHANGED <<strategy, entry, inFlight, lapsedLeases, dbCalls, losses>>
          /\ strategy = "lease" /\ request'[r].pc \in {"query", "poll"}
          /\ request'[r].pc = "query" => leaseOf = NoRequest /\ leaseOf' = r
          /\ request'[r].pc = "poll" => leaseOf' = leaseOf
          /\ \A q \in Requests : request'[q].got = request[q].got /\ (q # r => request'[q] = request[q])
      <3>1. UNCHANGED <<strategy, entry, inFlight, lapsedLeases, dbCalls, losses>>
        BY <1>7 DEF Acquire
      <3>2. /\ strategy = "lease" /\ request'[r].pc \in {"query", "poll"}
            /\ request'[r].got = request[r].got
            /\ \A q \in Requests \ {r} : request'[q] = request[q]
            /\ request'[r].pc = "query" => leaseOf = NoRequest /\ leaseOf' = r
            /\ request'[r].pc = "poll" => leaseOf' = leaseOf
        BY <1>7, AcquireMoves
      <3> QED
        BY <3>1, <3>2
    <2> QED
      BY <2>1
  <1>8. ASSUME NEW r \in Requests, Release(r) PROVE LeaseHoldsRefiller'
    BY <1>8 DEF Release, Advance, ReleaseIfOwner
  <1>9. ASSUME NEW r \in Requests, PollForCacheValue(r) PROVE LeaseHoldsRefiller'
    BY <1>9 DEF PollForCacheValue
  <1>10. ASSUME NEW r \in Requests, PollTimesOut(r) PROVE LeaseHoldsRefiller'
    <2>1. /\ UNCHANGED <<strategy, entry, leaseOf, inFlight, lapsedLeases, dbCalls, losses>>
          /\ request'[r].pc \in {"failed", "start"}
          /\ \A q \in Requests : request'[q].got = request[q].got /\ (q # r => request'[q] = request[q])
      BY <1>10, PollMoves DEF PollTimesOut
    <2> QED
      BY <2>1
  <1>11. ASSUME NEW p \in Processes, RefreshReads(p) PROVE LeaseHoldsRefiller'
    BY <1>11 DEF RefreshReads
  <1>12. ASSUME NEW p \in Processes, RefreshWrites(p) PROVE LeaseHoldsRefiller'
    BY <1>12 DEF RefreshWrites
  <1>13. CASE EntryExpires
    BY <1>13 DEF EntryExpires
  <1>14. CASE EntryTurnsStale
    BY <1>14 DEF EntryTurnsStale
  <1>15. CASE RefillLeaseExpires
    BY <1>15 DEF RefillLeaseExpires
  <1>16. CASE ProductChanges
    BY <1>16 DEF ProductChanges
  <1>17. CASE UNCHANGED refillVars
    BY <1>17 DEF refillVars
  <1> QED
    BY <1>1, <1>2, <1>3, <1>4, <1>5, <1>6, <1>7, <1>8, <1>9, <1>10, <1>11, <1>12, <1>13, <1>14, <1>15, <1>16, <1>17
          DEF RefillNext, RequestStep, RefreshStep

\* Nothing is dropped in a cold burst: whoever joins after a request is over
\* finds the entry.
LEMMA ColdEntriesStep == RefillInv /\ [RefillNext]_refillVars => ColdEntries'
  <1> SUFFICES ASSUME RefillInv, [RefillNext]_refillVars PROVE ColdEntries'
    OBVIOUS
  <1> USE RefillAssumption
        DEF RefillAssumption, RefillInv, RefillTypes, RequestAt, NoEntry, NoRead, ColdEntries, ColdBurst,
            MapHoldsRefiller, ReadsAreReal, Map, Refilling, PlacesOf
  <1>1. ASSUME NEW r \in Requests, Join(r) PROVE ColdEntries'
    <2>1. /\ UNCHANGED <<strategy, entry, losses>>
          /\ \A q \in Requests \ {r} : request'[q] = request[q]
          /\ request[r].pc = "start" /\ request'[r].pc \in {"joined", "get"}
      BY <1>1 DEF Join, Advance
    <2>2. ColdBurst' => ColdBurst
      BY <2>1
    <2>3. \A q \in Requests : request'[q].pc \in Refilling \cup {"done"} => request'[q] = request[q]
      BY <2>1
    <2> QED
      BY <2>1, <2>2, <2>3
  <1>2. ASSUME NEW r \in Requests, CacheGet(r) PROVE ColdEntries'
    <2>1. CASE entry = NoEntry
      <3>1. /\ UNCHANGED <<strategy, entry, losses>> /\ entry = NoEntry
            /\ \A q \in Requests \ {r} : request'[q] = request[q]
            /\ strategy = "coalescing" => request'[r].pc = "query"
            /\ request[r].pc \notin {"failed", "release_failed"}
        BY <1>2, <2>1 DEF CacheGet, Advance
      <3> QED
        BY <3>1
    <2>2. CASE entry # NoEntry
      <3>1. Settled(r, "done", entry) /\ entry \in Nat
        BY <1>2, <2>2 DEF CacheGet
      <3>2. /\ \A q \in Requests :
               \/ request'[q] = request[q] /\ q # r
               \/ /\ q = r \/ (strategy = "coalescing" /\ RequestAt(q, "joined") /\ ProcessOf[q] = ProcessOf[r])
                  /\ request'[q].pc = "done" /\ request'[q].got = entry
            /\ request'[r].pc = "done" /\ request'[r].got = entry
            /\ \A p \in Processes :
               inFlight'[p] = IF p = ProcessOf[r] /\ inFlight[p] = r THEN NoRequest ELSE inFlight[p]
        BY <3>1, SettledMoves
      <3> QED
        BY <1>2, <2>2, <3>2, SMTT(30) DEF CacheGet
    <2> QED
      BY <2>1, <2>2
  <1>3. ASSUME NEW r \in Requests, QueryStarts(r) PROVE ColdEntries'
    BY <1>3 DEF QueryStarts, Advance
  <1>4. ASSUME NEW r \in Requests, QueryReturns(r) PROVE ColdEntries'
    BY <1>4 DEF QueryReturns
  <1>5. ASSUME NEW r \in Requests, QueryFails(r) PROVE ColdEntries'
    <2>1. CASE strategy = "lease"
      BY <1>5, <2>1 DEF QueryFails
    <2>2. CASE strategy # "lease"
      <3>1. Settled(r, "failed", 0)
        BY <1>5, <2>2 DEF QueryFails
      <3>2. /\ \A q \in Requests :
               \/ request'[q] = request[q] /\ q # r
               \/ /\ q = r \/ (strategy = "coalescing" /\ RequestAt(q, "joined") /\ ProcessOf[q] = ProcessOf[r])
                  /\ request'[q].pc = "failed" /\ request'[q].got = 0
            /\ request'[r].pc = "failed" /\ request'[r].got = 0
            /\ \A p \in Processes :
               inFlight'[p] = IF p = ProcessOf[r] /\ inFlight[p] = r THEN NoRequest ELSE inFlight[p]
        BY <3>1, SettledMoves
      <3> QED
        BY <1>5, <2>2, <3>2 DEF QueryFails
    <2> QED
      BY <2>1, <2>2
  <1>6. ASSUME NEW r \in Requests, CacheSet(r) PROVE ColdEntries'
    <2>1. CASE strategy = "lease"
      BY <1>6, <2>1 DEF CacheSet, Advance
    <2>2. CASE strategy # "lease"
      <3>1. Settled(r, "done", request[r].got) /\ request[r].got \in Nat
        BY <1>6, <2>2 DEF CacheSet
      <3>2. /\ \A q \in Requests :
               \/ request'[q] = request[q] /\ q # r
               \/ /\ q = r \/ (strategy = "coalescing" /\ RequestAt(q, "joined") /\ ProcessOf[q] = ProcessOf[r])
                  /\ request'[q].pc = "done" /\ request'[q].got = request[r].got
            /\ request'[r].pc = "done" /\ request'[r].got = request[r].got
            /\ \A p \in Processes :
               inFlight'[p] = IF p = ProcessOf[r] /\ inFlight[p] = r THEN NoRequest ELSE inFlight[p]
        BY <3>1, SettledMoves
      <3> QED
        BY <1>6, <2>2, <3>2 DEF CacheSet
    <2> QED
      BY <2>1, <2>2
  <1>7. ASSUME NEW r \in Requests, Acquire(r) PROVE ColdEntries'
    <2>1. /\ UNCHANGED <<strategy, entry, inFlight, lapsedLeases, dbCalls, losses>>
          /\ strategy = "lease" /\ request'[r].pc \in {"query", "poll"}
          /\ request'[r].pc = "query" => leaseOf = NoRequest /\ leaseOf' = r
          /\ request'[r].pc = "poll" => leaseOf' = leaseOf
          /\ \A q \in Requests : request'[q].got = request[q].got /\ (q # r => request'[q] = request[q])
      <3>1. UNCHANGED <<strategy, entry, inFlight, lapsedLeases, dbCalls, losses>>
        BY <1>7 DEF Acquire
      <3>2. /\ strategy = "lease" /\ request'[r].pc \in {"query", "poll"}
            /\ request'[r].got = request[r].got
            /\ \A q \in Requests \ {r} : request'[q] = request[q]
            /\ request'[r].pc = "query" => leaseOf = NoRequest /\ leaseOf' = r
            /\ request'[r].pc = "poll" => leaseOf' = leaseOf
        BY <1>7, AcquireMoves
      <3> QED
        BY <3>1, <3>2
    <2> QED
      BY <2>1
  <1>8. ASSUME NEW r \in Requests, Release(r) PROVE ColdEntries'
    BY <1>8 DEF Release, Advance, ReleaseIfOwner
  <1>9. ASSUME NEW r \in Requests, PollForCacheValue(r) PROVE ColdEntries'
    BY <1>9 DEF PollForCacheValue
  <1>10. ASSUME NEW r \in Requests, PollTimesOut(r) PROVE ColdEntries'
    BY <1>10 DEF PollTimesOut, Advance
  <1>11. ASSUME NEW p \in Processes, RefreshReads(p) PROVE ColdEntries'
    BY <1>11 DEF RefreshReads
  <1>12. ASSUME NEW p \in Processes, RefreshWrites(p) PROVE ColdEntries'
    BY <1>12 DEF RefreshWrites
  <1>13. CASE EntryExpires
    BY <1>13 DEF EntryExpires
  <1>14. CASE EntryTurnsStale
    BY <1>14 DEF EntryTurnsStale
  <1>15. CASE RefillLeaseExpires
    BY <1>15 DEF RefillLeaseExpires
  <1>16. CASE ProductChanges
    BY <1>16 DEF ProductChanges
  <1>17. CASE UNCHANGED refillVars
    BY <1>17 DEF refillVars
  <1> QED
    BY <1>1, <1>2, <1>3, <1>4, <1>5, <1>6, <1>7, <1>8, <1>9, <1>10, <1>11, <1>12, <1>13, <1>14, <1>15, <1>16, <1>17
          DEF RefillNext, RequestStep, RefreshStep

\* A step of a cold burst adds requests that have called, and calls only as one of them.
Grows ==
    strategy = "coalescing" /\ ColdBurst' =>
        /\ ColdBurst /\ strategy' = strategy
        /\ \A r \in Requests : request[r].pc \in Called => request'[r].pc \in Called
        /\ \/ dbCalls' = dbCalls
           \/ \E r \in Requests : RequestAt(r, "query") /\ request'[r].pc \in Called /\ dbCalls' = dbCalls + 1

\* Only the start of a query is a call, and only a failure undoes one.
LEMMA GrowsStep == RefillInv /\ [RefillNext]_refillVars => Grows
  <1> SUFFICES ASSUME RefillInv, [RefillNext]_refillVars PROVE Grows
    OBVIOUS
  <1> USE RefillAssumption
        DEF RefillAssumption, RefillInv, RefillTypes, RequestAt, NoEntry, NoRead, Grows, ColdBurst, Called,
            ReadsAreReal, Map, PlacesOf
  <1>1. ASSUME NEW r \in Requests, Join(r) PROVE Grows
    BY <1>1 DEF Join, Advance, Map
  <1>2. ASSUME NEW r \in Requests, CacheGet(r) PROVE Grows
    <2>1. CASE entry = NoEntry
      BY <1>2, <2>1 DEF CacheGet, Advance
    <2>2. CASE entry # NoEntry
      <3>1. Settled(r, "done", entry) /\ entry \in Nat
        BY <1>2, <2>2 DEF CacheGet
      <3>2. /\ \A q \in Requests :
               \/ request'[q] = request[q] /\ q # r
               \/ /\ q = r \/ (strategy = "coalescing" /\ RequestAt(q, "joined") /\ ProcessOf[q] = ProcessOf[r])
                  /\ request'[q].pc = "done" /\ request'[q].got = entry
            /\ request'[r].pc = "done" /\ request'[r].got = entry
            /\ \A p \in Processes :
               inFlight'[p] = IF p = ProcessOf[r] /\ inFlight[p] = r THEN NoRequest ELSE inFlight[p]
        BY <3>1, SettledMoves
      <3> QED
        BY <1>2, <2>2, <3>2 DEF CacheGet
    <2> QED
      BY <2>1, <2>2
  <1>3. ASSUME NEW r \in Requests, QueryStarts(r) PROVE Grows
    BY <1>3 DEF QueryStarts, Advance
  <1>4. ASSUME NEW r \in Requests, QueryReturns(r) PROVE Grows
    BY <1>4, SMTT(30) DEF QueryReturns
  <1>5. ASSUME NEW r \in Requests, QueryFails(r) PROVE Grows
    <2>1. CASE strategy = "lease"
      BY <1>5, <2>1 DEF QueryFails
    <2>2. CASE strategy # "lease"
      <3>1. Settled(r, "failed", 0)
        BY <1>5, <2>2 DEF QueryFails
      <3>2. /\ \A q \in Requests :
               \/ request'[q] = request[q] /\ q # r
               \/ /\ q = r \/ (strategy = "coalescing" /\ RequestAt(q, "joined") /\ ProcessOf[q] = ProcessOf[r])
                  /\ request'[q].pc = "failed" /\ request'[q].got = 0
            /\ request'[r].pc = "failed" /\ request'[r].got = 0
            /\ \A p \in Processes :
               inFlight'[p] = IF p = ProcessOf[r] /\ inFlight[p] = r THEN NoRequest ELSE inFlight[p]
        BY <3>1, SettledMoves
      <3> QED
        BY <1>5, <2>2, <3>2 DEF QueryFails
    <2> QED
      BY <2>1, <2>2
  <1>6. ASSUME NEW r \in Requests, CacheSet(r) PROVE Grows
    <2>1. CASE strategy = "lease"
      BY <1>6, <2>1 DEF CacheSet, Advance
    <2>2. CASE strategy # "lease"
      <3>1. Settled(r, "done", request[r].got) /\ request[r].got \in Nat
        BY <1>6, <2>2 DEF CacheSet
      <3>2. /\ \A q \in Requests :
               \/ request'[q] = request[q] /\ q # r
               \/ /\ q = r \/ (strategy = "coalescing" /\ RequestAt(q, "joined") /\ ProcessOf[q] = ProcessOf[r])
                  /\ request'[q].pc = "done" /\ request'[q].got = request[r].got
            /\ request'[r].pc = "done" /\ request'[r].got = request[r].got
            /\ \A p \in Processes :
               inFlight'[p] = IF p = ProcessOf[r] /\ inFlight[p] = r THEN NoRequest ELSE inFlight[p]
        BY <3>1, SettledMoves
      <3> QED
        BY <1>6, <2>2, <3>2 DEF CacheSet
    <2> QED
      BY <2>1, <2>2
  <1>7. ASSUME NEW r \in Requests, Acquire(r) PROVE Grows
    BY <1>7 DEF Acquire, Advance
  <1>8. ASSUME NEW r \in Requests, Release(r) PROVE Grows
    BY <1>8 DEF Release, Advance, ReleaseIfOwner
  <1>9. ASSUME NEW r \in Requests, PollForCacheValue(r) PROVE Grows
    BY <1>9 DEF PollForCacheValue
  <1>10. ASSUME NEW r \in Requests, PollTimesOut(r) PROVE Grows
    BY <1>10 DEF PollTimesOut, Advance
  <1>11. ASSUME NEW p \in Processes, RefreshReads(p) PROVE Grows
    BY <1>11 DEF RefreshReads
  <1>12. ASSUME NEW p \in Processes, RefreshWrites(p) PROVE Grows
    BY <1>12 DEF RefreshWrites
  <1>13. CASE EntryExpires
    BY <1>13 DEF EntryExpires
  <1>14. CASE EntryTurnsStale
    BY <1>14 DEF EntryTurnsStale
  <1>15. CASE RefillLeaseExpires
    BY <1>15 DEF RefillLeaseExpires
  <1>16. CASE ProductChanges
    BY <1>16 DEF ProductChanges
  <1>17. CASE UNCHANGED refillVars
    BY <1>17 DEF refillVars
  <1> QED
    BY <1>1, <1>2, <1>3, <1>4, <1>5, <1>6, <1>7, <1>8, <1>9, <1>10, <1>11, <1>12, <1>13, <1>14, <1>15, <1>16, <1>17
          DEF RefillNext, RequestStep, RefreshStep

\* A process that calls has not called before.
LEMMA ColdCallsStep == RefillInv /\ [RefillNext]_refillVars => ColdCalls'
  <1> SUFFICES ASSUME RefillInv, [RefillNext]_refillVars, strategy' = "coalescing", ColdBurst'
               PROVE  dbCalls' <= Cardinality(Calling')
    BY DEF ColdCalls
  <1>1. Grows /\ RefillTypes'
    BY GrowsStep, RefillTypesStep
  <1>2. strategy = "coalescing"
    <2>1. CASE UNCHANGED refillVars
      BY <2>1 DEF refillVars
    <2>2. CASE RefillNext
      BY <2>2 DEF RefillNext, RequestStep, RefreshStep, Join, CacheGet, QueryStarts, QueryReturns, QueryFails,
              CacheSet,
                  Acquire, Release, PollForCacheValue, PollTimesOut, RefreshReads, RefreshWrites,
                  EntryExpires, EntryTurnsStale, RefillLeaseExpires, ProductChanges
    <2> QED
      BY <2>1, <2>2
  <1>3. ColdBurst /\ dbCalls <= Cardinality(Calling) /\ dbCalls \in Nat
    BY <1>1, <1>2 DEF RefillInv, RefillTypes, ColdCalls, Grows
  <1>4. /\ IsFiniteSet(Calling) /\ Cardinality(Calling) \in Nat
        /\ IsFiniteSet(Calling') /\ Cardinality(Calling') \in Nat
    <2>1. Calling \subseteq Processes /\ Calling' \subseteq Processes
      BY DEF Calling
    <2> QED
      BY <2>1, RefillAssumption, FS_Subset, FS_CardinalityType DEF RefillAssumption
  <1>5. Calling \subseteq Calling'
    BY <1>1, <1>2 DEF Grows, Calling, InProcess
  <1>6. CASE dbCalls' = dbCalls
    <2>1. Cardinality(Calling) <= Cardinality(Calling')
      BY <1>4, <1>5, FS_Subset
    <2> QED
      BY <1>3, <1>4, <1>6, <2>1
  <1>7. ASSUME NEW r \in Requests, RequestAt(r, "query"), request'[r].pc \in Called, dbCalls' = dbCalls + 1
        PROVE  dbCalls' <= Cardinality(Calling')
    <2>1. ProcessOf[r] \in Processes
      BY RefillAssumption DEF RefillAssumption
    <2>2. ProcessOf[r] \in Calling'
      BY <1>7, <2>1 DEF Calling, InProcess
    <2>3. ASSUME NEW q \in Requests, ProcessOf[q] = ProcessOf[r], request[q].pc \in Called PROVE FALSE
      <3>1. ~RequestAt(q, "done")
        BY <1>2, <1>3, <1>7, <2>3 DEF RefillInv, ColdEntries, Refilling, RequestAt
      <3>2. Map(q) = q /\ Map(r) = r /\ q # r
        BY <1>2, <1>7, <2>3, <3>1 DEF RefillInv, MapHoldsRefiller, Refilling, Called, RequestAt
      <3> QED
        BY <2>3, <3>2 DEF Map
    <2>4. ProcessOf[r] \notin Calling
      BY <2>3 DEF Calling, InProcess
    <2>5. Cardinality(Calling \cup {ProcessOf[r]}) = Cardinality(Calling) + 1
      BY <1>4, <2>4, FS_AddElement
    <2>6. Cardinality(Calling \cup {ProcessOf[r]}) <= Cardinality(Calling')
      BY <1>4, <1>5, <2>2, FS_Subset
    <2> QED
      BY <1>3, <1>4, <1>7, <2>5, <2>6
  <1> QED
    BY <1>1, <1>2, <1>6, <1>7 DEF Grows

\* The invariant holds throughout.
LEMMA RefillInvariant == RefillSpec => []RefillInv
  <1>1. RefillInv /\ [RefillNext]_refillVars => RefillInv'
    <2> SUFFICES ASSUME RefillInv, [RefillNext]_refillVars PROVE RefillInv'
      OBVIOUS
    <2>1. RefillTypes' /\ ReadsAreReal' /\ MapHoldsRefiller' /\ LeaseHoldsRefiller' /\ ColdEntries' /\ ColdCalls'
      BY RefillTypesStep, ReadsAreRealStep, MapHoldsRefillerStep, LeaseHoldsRefillerStep, ColdEntriesStep, ColdCallsStep
    <2> QED
      BY <2>1 DEF RefillInv
  <1> QED
    BY <1>1, RefillInitInv, PTL DEF RefillSpec

\* A set of equals has at most one member.
LEMMA AtMostOne == ASSUME NEW S, \A x, y \in S : x = y PROVE Cardinality(S) <= 1
  <1>1. CASE S = {}
    BY <1>1, FS_EmptySet
  <1>2. ASSUME NEW x \in S PROVE Cardinality(S) <= 1
    <2>1. S = {x}
      OBVIOUS
    <2> QED
      BY <2>1, FS_Singleton
  <1> QED
    BY <1>1, <1>2

\* There is no stampede: where requests are coalesced one per process refills,
\* and a cold burst costs one call per process; under the lease one refills,
\* unless a lease lapsed under its holder.
LEMMA InvOneRefill == RefillInv => OneRefillAtATime
  <1> SUFFICES ASSUME RefillInv PROVE OneRefillAtATime
    OBVIOUS
  <1>1. ASSUME strategy = "coalescing", NEW p \in Processes PROVE Cardinality(Querying(InProcess(p))) <= 1
    <2>1. \A r, q \in Querying(InProcess(p)) : r = q
      BY <1>1 DEF RefillInv, MapHoldsRefiller, Querying, InProcess, Refilling, Map
    <2> QED
      BY <2>1, AtMostOne
  <1>2. CoalescedBurst
    <2>1. Calling \subseteq Processes
      BY DEF Calling
    <2>2. Cardinality(Calling) <= Cardinality(Processes) /\ Cardinality(Calling) \in Nat /\ Cardinality(Processes) \in Nat
      BY <2>1, RefillAssumption, FS_Subset, FS_CardinalityType DEF RefillAssumption
    <2> QED
      BY <2>2 DEF CoalescedBurst, RefillInv, RefillTypes, ColdCalls
  <1>3. ASSUME strategy = "lease" PROVE Cardinality(Querying(Requests) \ lapsedLeases) <= 1
    <2>1. \A r, q \in Querying(Requests) \ lapsedLeases : r = q
      BY <1>3 DEF RefillInv, LeaseHoldsRefiller, Querying, Refilling
    <2> QED
      BY <2>1, AtMostOne
  <1> QED
    BY <1>1, <1>2, <1>3 DEF OneRefillAtATime

\* The guarded caches keep their promises at every step: no stampede, and an
\* older read replaces a newer entry only once a lease has lapsed.
THEOREM GuardedCachesAreSafe == RefillSpec => CacheSafe
  <1>1. RefillInv => OneRefillAtATime
    BY InvOneRefill
  <1>2. RefillInv => NoStaleOverwriteWithinLease
    BY DEF RefillInv, RefillTypes, LeaseHoldsRefiller, NoStaleOverwriteWithinLease, CacheSet
  <1>3. OneRefillAtATime' /\ RefillInv /\ [RefillNext]_refillVars =>
           [OneRefillAtATime' /\ NoStaleOverwriteWithinLease]_refillVars
    BY <1>2
  <1> QED
    BY <1>1, <1>3, RefillInvariant, PTL DEF RefillSpec, CacheSafe

-----------------------------------------------------------------------------
(* The lease of a job. *)

\* A step that leaves the worker without a job.
LEMMA GotoType ==
    ASSUME QueueTypeOK, NEW w \in Workers, NEW p \in {"idle", "done", "crashed"}, Goto(w, p),
           jobs' \in [Jobs -> [status : JobStatus, attempts : Nat,
                               locked_by : Workers \cup {NoWorker}]],
           \A j \in Jobs : jobs'[j].attempts = jobs[j].attempts
    PROVE  /\ worker' \in [Workers -> [pc : {"idle", "claiming", "processing", "failing",
                                             "done", "crashed"},
                                       job : Jobs \cup {NoJob}, attempt : Nat]]
           /\ \A v \in Workers :
                 /\ worker'[v].pc \in {"claiming", "processing", "failing"} =>
                       worker'[v].job \in Jobs
                 /\ worker'[v].pc \in {"processing", "failing"} =>
                       worker'[v].attempt \in 1 .. jobs'[worker'[v].job].attempts
BY DEF QueueTypeOK, Goto

\* A report sets the status and the owner of one job and the status of one of
\* its attempt rows.
LEMMA ReportType ==
    ASSUME QueueTypeOK, NEW j \in Jobs, NEW n \in 1 .. jobs[j].attempts,
           NEW s \in JobStatus, NEW a \in AttemptStatus,
           jobs' = [jobs EXCEPT ![j] = [@ EXCEPT !.status = s, !.locked_by = NoWorker]],
           jobAttempts' = [jobAttempts EXCEPT ![j][n] = a]
    PROVE  /\ jobs' \in [Jobs -> [status : JobStatus, attempts : Nat,
                                  locked_by : Workers \cup {NoWorker}]]
           /\ jobAttempts' \in [Jobs -> Seq(AttemptStatus)]
           /\ \A k \in Jobs : jobs'[k].attempts = jobs[k].attempts
           /\ \A k \in Jobs : Len(jobAttempts'[k]) = jobs'[k].attempts
<1>1. /\ jobs' \in [Jobs -> [status : JobStatus, attempts : Nat,
                             locked_by : Workers \cup {NoWorker}]]
      /\ \A k \in Jobs : jobs'[k].attempts = jobs[k].attempts
  BY ZenonT(60) DEF QueueTypeOK
<1>2. /\ jobAttempts[j] \in Seq(AttemptStatus)
      /\ n \in 1 .. Len(jobAttempts[j])
  BY DEF QueueTypeOK
<1>3. /\ [jobAttempts[j] EXCEPT ![n] = a] \in Seq(AttemptStatus)
      /\ Len([jobAttempts[j] EXCEPT ![n] = a]) = Len(jobAttempts[j])
  BY <1>2
<1>4. jobAttempts' = [jobAttempts EXCEPT ![j] = [jobAttempts[j] EXCEPT ![n] = a]]
  BY DEF QueueTypeOK
<1> QED
  BY <1>1, <1>3, <1>4 DEF QueueTypeOK

LEMMA SeqOfFunction ==
    ASSUME NEW S, NEW m \in Nat, NEW f \in [1 .. m -> S]
    PROVE  f \in Seq(S) /\ Len(f) = m
OBVIOUS

LEMMA TypeStep ==
    ASSUME QueueTypeOK, [QueueNext]_queueVars
    PROVE  QueueTypeOK'
<1> USE QueueAssumption
<1>1. CASE UNCHANGED queueVars
  BY <1>1 DEF queueVars, QueueTypeOK
<1>2. ASSUME NEW w \in Workers, NEW j \in Jobs, ClaimSelect(w, j)
      PROVE  QueueTypeOK'
  <2>1. /\ worker' \in [Workers -> [pc : {"idle", "claiming", "processing", "failing",
                                          "done", "crashed"},
                                    job : Jobs \cup {NoJob}, attempt : Nat]]
        /\ \A v \in Workers \ {w} : worker'[v] = worker[v]
        /\ worker'[w].job = j /\ worker'[w].pc = "claiming"
    BY <1>2 DEF ClaimSelect, QueueTypeOK
  <2> QED
    BY <1>2, <2>1 DEF ClaimSelect, QueueTypeOK
<1>3. ASSUME NEW w \in Workers, ClaimEmpty(w) \/ Crash(w) \/ Start(w)
      PROVE  QueueTypeOK'
  <2>1. CASE Goto(w, "idle")
    BY <1>3, <2>1, GotoType DEF ClaimEmpty, Crash, Start, QueueTypeOK
  <2>2. CASE Goto(w, "done")
    BY <1>3, <2>2, GotoType DEF ClaimEmpty, Crash, Start, QueueTypeOK
  <2>3. CASE Goto(w, "crashed")
    BY <1>3, <2>3, GotoType DEF ClaimEmpty, Crash, Start, QueueTypeOK
  <2> QED
    BY <1>3, <2>1, <2>2, <2>3 DEF ClaimEmpty, Crash, Start
<1>4. ASSUME NEW w \in Workers, ClaimCommit(w)
      PROVE  QueueTypeOK'
  <2> DEFINE j == worker[w].job
             n == jobs[j].attempts + 1
             Expire(s) == IF jobs[j].status = "processing" /\ s = "claimed"
                          THEN "expired" ELSE s
             old == [k \in DOMAIN jobAttempts[j] |-> Expire(jobAttempts[j][k])]
  <2>1. j \in Jobs /\ n \in Nat /\ n - 1 = jobs[j].attempts
    BY <1>4 DEF ClaimCommit, QueueTypeOK
  <2>2. /\ jobAttempts[j] \in Seq(AttemptStatus)
        /\ Len(jobAttempts[j]) = n - 1
    BY <2>1 DEF QueueTypeOK
  <2>3. old \in Seq(AttemptStatus) /\ Len(old) = n - 1
    <3>1. DOMAIN jobAttempts[j] = 1 .. (n - 1)
      BY <2>1, <2>2
    <3>2. \A k \in 1 .. (n - 1) : Expire(jobAttempts[j][k]) \in AttemptStatus
      BY <2>1, <2>2, <3>1 DEF AttemptStatus
    <3>3. old \in [1 .. (n - 1) -> AttemptStatus] /\ n - 1 \in Nat
      BY <2>1, <2>2, <3>1, <3>2
    <3> QED
      <4> HIDE DEF old
      <4> QED
        BY <3>3, SeqOfFunction
  <2>4. Append(old, "claimed") \in Seq(AttemptStatus) /\ Len(Append(old, "claimed")) = n
    <3> HIDE DEF old
    <3> QED
      BY <2>1, <2>3 DEF AttemptStatus
  <2>5. /\ jobs' = [jobs EXCEPT ![j] = [@ EXCEPT !.status = "processing",
                                                 !.locked_by = w,
                                                 !.attempts = n]]
        /\ jobAttempts' = [jobAttempts EXCEPT ![j] = Append(old, "claimed")]
        /\ worker' = [worker EXCEPT ![w] = [@ EXCEPT !.pc = "processing",
                                                     !.attempt = n]]
        /\ lapsed' = lapsed
    BY <1>4 DEF ClaimCommit
  <2> HIDE DEF old, n
  <2> DEFINE newJob == [jobs[j] EXCEPT !.status = "processing", !.locked_by = w, !.attempts = n]
  <2>12. /\ newJob \in [status : JobStatus, attempts : Nat, locked_by : Workers \cup {NoWorker}]
         /\ newJob.attempts = n
    <3>1. jobs[j] \in [status : JobStatus, attempts : Nat, locked_by : Workers \cup {NoWorker}]
      BY <2>1 DEF QueueTypeOK
    <3> QED
      BY <3>1, <2>1 DEF JobStatus
  <2>13. jobs' = [jobs EXCEPT ![j] = newJob]
    BY <2>5
  <2> HIDE DEF newJob
  <2>14. jobs \in [Jobs -> [status : JobStatus, attempts : Nat,
                           locked_by : Workers \cup {NoWorker}]]
    BY DEF QueueTypeOK
  <2>15. jobs'[j] = newJob /\ \A k \in Jobs \ {j} : jobs'[k] = jobs[k]
    BY <2>1, <2>13, <2>14
  <2>6. /\ jobAttempts' \in [Jobs -> Seq(AttemptStatus)]
        /\ \A k \in Jobs : Len(jobAttempts'[k]) = jobs'[k].attempts
    <3>1. jobAttempts \in [Jobs -> Seq(AttemptStatus)]
      BY DEF QueueTypeOK
    <3>2. jobAttempts' \in [Jobs -> Seq(AttemptStatus)]
      BY <2>4, <2>5, <3>1
    <3>3. Len(jobAttempts'[j]) = jobs'[j].attempts
      BY <2>1, <2>4, <2>5, <2>12, <2>15, <3>1
    <3>4. ASSUME NEW k \in Jobs \ {j} PROVE Len(jobAttempts'[k]) = jobs'[k].attempts
      <4>1. jobAttempts'[k] = jobAttempts[k] /\ jobs'[k] = jobs[k]
        BY <2>5, <2>15, <3>1
      <4> QED
        BY <4>1 DEF QueueTypeOK
    <3> QED
      BY <3>2, <3>3, <3>4
  <2>7. jobs' \in [Jobs -> [status : JobStatus, attempts : Nat,
                            locked_by : Workers \cup {NoWorker}]]
    BY <2>12, <2>13, <2>14
  <2>8. \A k \in Jobs : jobs[k].attempts \in Nat /\ jobs'[k].attempts >= jobs[k].attempts
    BY <2>1, <2>12, <2>14, <2>15
  <2>9. jobs'[j].attempts = n /\ n >= 1
    BY <2>1, <2>12, <2>14, <2>15
  <2>10. worker' \in [Workers -> [pc : {"idle", "claiming", "processing", "failing",
                                        "done", "crashed"},
                                  job : Jobs \cup {NoJob}, attempt : Nat]]
    <3> DEFINE mine == [worker[w] EXCEPT !.pc = "processing", !.attempt = n]
    <3>1. worker' = [worker EXCEPT ![w] = mine]
      BY <2>5
    <3>2. mine \in [pc : {"idle", "claiming", "processing", "failing", "done", "crashed"},
                   job : Jobs \cup {NoJob}, attempt : Nat]
      <4>1. worker[w] \in [pc : {"idle", "claiming", "processing", "failing", "done", "crashed"},
                          job : Jobs \cup {NoJob}, attempt : Nat]
        BY DEF QueueTypeOK
      <4> QED
        BY <2>1, <4>1
    <3> HIDE DEF mine
    <3> QED
      BY <3>1, <3>2 DEF QueueTypeOK
  <2>11. ASSUME NEW v \in Workers
         PROVE  /\ worker'[v].pc \in {"claiming", "processing", "failing"} =>
                      worker'[v].job \in Jobs
                /\ worker'[v].pc \in {"processing", "failing"} =>
                      worker'[v].attempt \in 1 .. jobs'[worker'[v].job].attempts
    <3>1. CASE v = w
      BY <3>1, <2>1, <2>5, <2>9 DEF QueueTypeOK
    <3>2. CASE v # w
      <4>1. worker'[v] = worker[v]
        BY <3>2, <2>5 DEF QueueTypeOK
      <4> QED
        BY <4>1, <2>7, <2>8 DEF QueueTypeOK
    <3> QED
      BY <3>1, <3>2
  <2> QED
    BY <2>5, <2>6, <2>7, <2>10, <2>11 DEF QueueTypeOK
<1>5. ASSUME NEW w \in Workers, CompleteJob(w)
      PROVE  QueueTypeOK'
  <2>1. worker[w].job \in Jobs /\ worker[w].attempt \in 1 .. jobs[worker[w].job].attempts
    BY <1>5 DEF CompleteJob, QueueTypeOK
  <2>2. /\ jobs' \in [Jobs -> [status : JobStatus, attempts : Nat,
                               locked_by : Workers \cup {NoWorker}]]
        /\ jobAttempts' \in [Jobs -> Seq(AttemptStatus)]
        /\ \A k \in Jobs : jobs'[k].attempts = jobs[k].attempts
        /\ \A k \in Jobs : Len(jobAttempts'[k]) = jobs'[k].attempts
    BY <1>5, <2>1, ReportType DEF CompleteJob, JobStatus, AttemptStatus
  <2>3. CASE Goto(w, "idle")
    BY <1>5, <2>2, <2>3, GotoType DEF CompleteJob, QueueTypeOK
  <2>4. CASE worker' = [worker EXCEPT ![w].pc = "failing"]
    <3>1. /\ worker' \in [Workers -> [pc : {"idle", "claiming", "processing", "failing",
                                            "done", "crashed"},
                                      job : Jobs \cup {NoJob}, attempt : Nat]]
          /\ \A v \in Workers \ {w} : worker'[v] = worker[v]
          /\ worker'[w].job = worker[w].job /\ worker'[w].attempt = worker[w].attempt
      BY <2>4 DEF QueueTypeOK
    <3>2. ASSUME NEW v \in Workers
          PROVE  /\ worker'[v].pc \in {"claiming", "processing", "failing"} =>
                       worker'[v].job \in Jobs
                 /\ worker'[v].pc \in {"processing", "failing"} =>
                       worker'[v].attempt \in 1 .. jobs'[worker'[v].job].attempts
      <4>1. CASE v = w
        BY <4>1, <2>1, <2>2, <3>1
      <4>2. CASE v # w
        BY <4>2, <2>2, <3>1 DEF QueueTypeOK
      <4> QED
        BY <4>1, <4>2
    <3> QED
      BY <1>5, <2>2, <3>1, <3>2 DEF CompleteJob, QueueTypeOK
  <2> QED
    BY <1>5, <2>3, <2>4 DEF CompleteJob
<1>6. ASSUME NEW w \in Workers, FailJob(w)
      PROVE  QueueTypeOK'
  <2>1. worker[w].job \in Jobs /\ worker[w].attempt \in 1 .. jobs[worker[w].job].attempts
    BY <1>6 DEF FailJob, QueueTypeOK
  <2>2. /\ jobs' \in [Jobs -> [status : JobStatus, attempts : Nat,
                               locked_by : Workers \cup {NoWorker}]]
        /\ jobAttempts' \in [Jobs -> Seq(AttemptStatus)]
        /\ \A k \in Jobs : jobs'[k].attempts = jobs[k].attempts
        /\ \A k \in Jobs : Len(jobAttempts'[k]) = jobs'[k].attempts
    <3>1. (IF jobs[worker[w].job].attempts >= MaxAttempts THEN "failed" ELSE "pending")
              \in JobStatus
      BY DEF JobStatus
    <3> QED
      BY <1>6, <2>1, <3>1, ReportType DEF FailJob, AttemptStatus
  <2> QED
    BY <1>6, <2>2, GotoType DEF FailJob, QueueTypeOK
<1>7. ASSUME NEW j \in Jobs, LapseOf(j)
      PROVE  QueueTypeOK'
  <2>1. PICK n \in 1 .. jobs[j].attempts : LeaseLapses(j, n)
    BY <1>7 DEF LapseOf
  <2>2. n \in Nat
    BY <2>1 DEF QueueTypeOK
  <2> QED
    BY <2>1, <2>2 DEF LeaseLapses, QueueTypeOK
<1> QED
  BY <1>1, <1>2, <1>3, <1>4, <1>5, <1>6, <1>7 DEF QueueNext, Step

\* Every reachable state has the declared types; job_attempts has exactly one
\* row for each attempt a job has counted.
THEOREM QueueTypeCorrect == QueueSpec => []QueueTypeOK
<1>1. QueueInit => QueueTypeOK
  BY QueueAssumption DEF QueueInit, QueueTypeOK, JobStatus
<1>2. QueueTypeOK /\ [QueueNext]_queueVars => QueueTypeOK'
  BY TypeStep
<1> QED
  BY <1>1, <1>2, PTL DEF QueueSpec

-----------------------------------------------------------------------------
(* Ownership, retries and leases. *)

\* The strengthening that the three properties share: an open claim
\* transaction holds its row alone, and the row is still as its SELECT saw it.
ClaimInv ==
    /\ \A v, w \in Workers : /\ worker[v].pc = "claiming" /\ worker[w].pc = "claiming"
                             /\ worker[v].job = worker[w].job
                             => v = w
    /\ \A w \in Workers : worker[w].pc = "claiming" => Claimable(worker[w].job)

QueueInv == ClaimInv /\ OwnedIffProcessing /\ PendingBelowMax

LEMMA QueueStep ==
    ASSUME QueueTypeOK, QueueInv, [QueueNext]_queueVars
    PROVE  QueueInv'
<1> USE QueueAssumption
<1>0. QueueTypeOK'
  BY TypeStep
<1>1. CASE UNCHANGED queueVars
  BY <1>1 DEF queueVars, QueueInv, ClaimInv, OwnedIffProcessing, PendingBelowMax, Claimable
<1>2. ASSUME NEW w \in Workers, NEW j \in Jobs, ClaimSelect(w, j)
      PROVE  QueueInv'
  <2>0. jobs' = jobs /\ lapsed' = lapsed /\ Claimable(j)
        /\ \A v \in Workers : ~(worker[v].pc = "claiming" /\ worker[v].job = j)
    BY <1>2 DEF ClaimSelect, RowLocked
  <2>1. ClaimInv'
    <3>1. worker' = [worker EXCEPT ![w] = [@ EXCEPT !.pc = "claiming", !.job = j]]
      BY <1>2 DEF ClaimSelect
    <3>2. /\ worker'[w].job = j
          /\ \A v \in Workers \ {w} : worker'[v] = worker[v]
      BY <3>1 DEF QueueTypeOK
    <3>3. \A v \in Workers \ {w} : worker'[v].pc = "claiming" => worker[v].pc = "claiming" /\ worker'[v].job # j
      BY <2>0, <3>2
    <3>4. ASSUME NEW v \in Workers, worker'[v].pc = "claiming" PROVE Claimable(worker[v].job)'
      <4>1. CASE v = w
        <5>1. jobs[j].status = "pending" \/ (jobs[j].status = "processing" /\ <<j, jobs[j].attempts>> \in lapsed)
          BY <2>0 DEF Claimable
        <5>2. worker'[v].job = j
          BY <3>2, <4>1
        <5> QED
          BY <2>0, <5>1, <5>2 DEF Claimable
      <4>2. CASE v # w
        <5>1. Claimable(worker[v].job) /\ worker'[v] = worker[v]
          BY <3>2, <3>3, <3>4, <4>2 DEF QueueInv, ClaimInv
        <5> QED
          BY <2>0, <5>1 DEF Claimable
      <4> QED
        BY <4>1, <4>2
    <3>5. \A u, v \in Workers : /\ worker'[u].pc = "claiming" /\ worker'[v].pc = "claiming"
                                /\ worker'[u].job = worker'[v].job
                                => u = v
      BY <2>0, <3>2, <3>3 DEF QueueInv, ClaimInv
    <3> QED
      BY <3>4, <3>5 DEF ClaimInv
  <2> QED
    BY <1>2, <2>1 DEF ClaimSelect, QueueInv, OwnedIffProcessing, PendingBelowMax
<1>3. ASSUME NEW w \in Workers, ClaimEmpty(w) \/ Crash(w) \/ Start(w)
      PROVE  QueueInv'
  <2>1. /\ jobs' = jobs /\ lapsed' = lapsed
        /\ \A v \in Workers \ {w} : worker'[v] = worker[v]
        /\ worker'[w].pc # "claiming"
    BY <1>3 DEF ClaimEmpty, Crash, Start, Goto, QueueTypeOK
  <2>2. ClaimInv'
    BY <2>1 DEF QueueInv, ClaimInv, Claimable
  <2> QED
    BY <2>1, <2>2 DEF QueueInv, OwnedIffProcessing, PendingBelowMax
<1>4. ASSUME NEW w \in Workers, ClaimCommit(w)
      PROVE  QueueInv'
  <2> DEFINE j == worker[w].job
  <2>1. /\ worker[w].pc = "claiming" /\ j \in Jobs
        /\ jobs' = [jobs EXCEPT ![j] = [@ EXCEPT !.status = "processing",
                                                 !.locked_by = w,
                                                 !.attempts = jobs[j].attempts + 1]]
        /\ worker' = [worker EXCEPT ![w] = [@ EXCEPT !.pc = "processing",
                                                     !.attempt = jobs[j].attempts + 1]]
        /\ lapsed' = lapsed
    BY <1>4 DEF ClaimCommit, QueueTypeOK
  <2>2. \A k \in Jobs \ {j} : jobs'[k] = jobs[k]
    BY <2>1 DEF QueueTypeOK
  <2>3. jobs'[j].status = "processing" /\ jobs'[j].locked_by = w
    BY <2>1 DEF QueueTypeOK
  <2>4. \A v \in Workers : worker'[v].pc = "claiming" =>
            v # w /\ worker'[v] = worker[v] /\ worker[v].job \in Jobs \ {j}
    BY <2>1 DEF QueueTypeOK, QueueInv, ClaimInv
  <2>5. ClaimInv'
    <3>1. \A u, v \in Workers : /\ worker'[u].pc = "claiming" /\ worker'[v].pc = "claiming"
                                /\ worker'[u].job = worker'[v].job
                                => u = v
      BY <2>4 DEF QueueInv, ClaimInv
    <3>2. ASSUME NEW v \in Workers, worker'[v].pc = "claiming"
          PROVE  Claimable(worker[v].job)'
      <4>1. worker'[v] = worker[v] /\ worker[v].job \in Jobs \ {j}
        BY <2>4, <3>2
      <4>2. Claimable(worker[v].job) /\ jobs'[worker[v].job] = jobs[worker[v].job]
        BY <2>2, <3>2, <4>1 DEF QueueInv, ClaimInv
      <4> QED
        <5> DEFINE k == worker[v].job
        <5>1. k \in Jobs /\ worker'[v].job = k
          BY <4>1
        <5>2. jobs'[k] = jobs[k] /\ lapsed' = lapsed
          BY <2>1, <4>2
        <5>3. \/ jobs[k].status = "pending"
              \/ jobs[k].status = "processing" /\ <<k, jobs[k].attempts>> \in lapsed
          BY <4>2 DEF Claimable
        <5>4. \/ jobs'[k].status = "pending"
              \/ jobs'[k].status = "processing" /\ <<k, jobs'[k].attempts>> \in lapsed'
          BY <5>2, <5>3
        <5> QED
          BY <5>1, <5>4 DEF Claimable
    <3> QED
      BY <3>1, <3>2 DEF ClaimInv, Claimable
  <2>6. OwnedIffProcessing' /\ PendingBelowMax'
    BY <2>2, <2>3 DEF QueueInv, OwnedIffProcessing, PendingBelowMax
  <2> QED
    BY <2>5, <2>6 DEF QueueInv
<1>5. ASSUME NEW w \in Workers, NEW s \in {"completed", "failed", "pending"},
             worker[w].pc \in {"processing", "failing"},
             ~RowLocked(worker[w].job),
             jobs' = [jobs EXCEPT ![worker[w].job] = [@ EXCEPT !.status = s,
                                                               !.locked_by = NoWorker]],
             s = "pending" => jobs[worker[w].job].attempts < MaxAttempts,
             Goto(w, "idle") \/ worker' = [worker EXCEPT ![w].pc = "failing"],
             lapsed' = lapsed
      PROVE  QueueInv'
  <2> DEFINE j == worker[w].job
  <2>1. j \in Jobs
    BY <1>5 DEF QueueTypeOK
  <2>2. \A k \in Jobs \ {j} : jobs'[k] = jobs[k]
    BY <1>5, <2>1 DEF QueueTypeOK
  <2>3. /\ jobs'[j].status = s /\ jobs'[j].locked_by = NoWorker
        /\ jobs'[j].attempts = jobs[j].attempts
    BY <1>5, <2>1 DEF QueueTypeOK
  <2>4. \A v \in Workers : worker'[v].pc = "claiming" =>
            worker'[v] = worker[v] /\ worker[v].job \in Jobs \ {j}
    <3>1. /\ worker'[w].pc # "claiming"
          /\ \A v \in Workers \ {w} : worker'[v] = worker[v]
      <4>1. CASE Goto(w, "idle")
        BY <4>1 DEF QueueTypeOK, Goto
      <4>2. CASE worker' = [worker EXCEPT ![w].pc = "failing"]
        BY <4>2 DEF QueueTypeOK
      <4> QED
        BY <1>5, <4>1, <4>2
    <3>2. \A v \in Workers : worker[v].pc = "claiming" => worker[v].job \in Jobs \ {j}
      BY <1>5 DEF QueueTypeOK, RowLocked
    <3> QED
      BY <3>1, <3>2
  <2>5. ClaimInv'
    <3>1. \A u, v \in Workers : /\ worker'[u].pc = "claiming" /\ worker'[v].pc = "claiming"
                                /\ worker'[u].job = worker'[v].job
                                => u = v
      BY <2>4 DEF QueueInv, ClaimInv
    <3>2. ASSUME NEW v \in Workers, worker'[v].pc = "claiming"
          PROVE  Claimable(worker[v].job)'
      <4>1. worker'[v] = worker[v] /\ worker[v].job \in Jobs \ {j}
        BY <2>4, <3>2
      <4>2. Claimable(worker[v].job) /\ jobs'[worker[v].job] = jobs[worker[v].job]
        BY <2>2, <3>2, <4>1 DEF QueueInv, ClaimInv
      <4>3. lapsed' = lapsed
        BY <1>5
      <4> QED
        BY <4>1, <4>2, <4>3 DEF Claimable
    <3> QED
      BY <3>1, <3>2 DEF ClaimInv, Claimable
  <2>6. OwnedIffProcessing' /\ PendingBelowMax'
    BY <1>5, <2>2, <2>3 DEF QueueInv, OwnedIffProcessing, PendingBelowMax
  <2> QED
    BY <2>5, <2>6 DEF QueueInv
<1>6. ASSUME NEW w \in Workers, CompleteJob(w)
      PROVE  QueueInv'
  BY <1>5, <1>6 DEF CompleteJob
<1>7. ASSUME NEW w \in Workers, FailJob(w)
      PROVE  QueueInv'
  <2>1. worker[w].job \in Jobs /\ jobs[worker[w].job].attempts \in Nat
    BY <1>7 DEF FailJob, QueueTypeOK
  <2>2. CASE jobs[worker[w].job].attempts >= MaxAttempts
    BY <1>5, <1>7, <2>2 DEF FailJob
  <2>3. CASE jobs[worker[w].job].attempts < MaxAttempts
    <3>1. ~(jobs[worker[w].job].attempts >= MaxAttempts)
      BY <2>1, <2>3
    <3> QED
      BY <1>5, <1>7, <2>3, <3>1 DEF FailJob
  <2> QED
    BY <2>1, <2>2, <2>3
<1>8. ASSUME NEW j \in Jobs, LapseOf(j)
      PROVE  QueueInv'
  BY <1>8 DEF LapseOf, LeaseLapses, QueueInv, ClaimInv, Claimable,
     OwnedIffProcessing, PendingBelowMax
<1> QED
  BY <1>1, <1>2, <1>3, <1>4, <1>6, <1>7, <1>8 DEF QueueNext, Step

LEMMA QueueInvariant == QueueSpec => [](QueueTypeOK /\ QueueInv)
<1>1. QueueInit => QueueInv
  BY QueueAssumption DEF QueueInit, QueueInv, ClaimInv, OwnedIffProcessing, PendingBelowMax
<1>2. QueueTypeOK /\ QueueInv /\ [QueueNext]_queueVars => QueueInv'
  BY QueueStep
<1> QED
  BY <1>1, <1>2, QueueTypeCorrect, PTL DEF QueueSpec

\* Whatever workers report late, a job has an owner exactly while it is
\* processing.
THEOREM JobsHaveOwners == QueueSpec => []OwnedIffProcessing
BY QueueInvariant, PTL DEF QueueInv

\* A job is put back for another claim only with attempts left.
THEOREM RetriesAreBounded == QueueSpec => []PendingBelowMax
BY QueueInvariant, PTL DEF QueueInv

\* A pending job always has somebody who will look again: the one who put it
\* back is idle then, and a worker leaves only past rows that others have locked.
LEMMA DrainedStep ==
    ASSUME QueueTypeOK, DrainedWhenDone, [QueueNext]_queueVars
    PROVE  DrainedWhenDone'
<1> USE DEF DrainedWhenDone
<1>1. CASE UNCHANGED queueVars
  BY <1>1 DEF queueVars
<1>2. ASSUME NEW w \in Workers, worker'[w].pc # "done"
      PROVE  DrainedWhenDone'
  BY <1>2
<1>3. ASSUME NEW w \in Workers, ClaimEmpty(w)
      PROVE  DrainedWhenDone'
  <2> SUFFICES ASSUME NEW j \in Jobs, jobs'[j].status = "pending"
               PROVE  \E v \in Workers : worker'[v].pc # "done"
    OBVIOUS
  <2>1. PICK v \in Workers : worker[v].pc = "claiming"
    BY <1>3 DEF ClaimEmpty, Claimable, RowLocked
  <2>2. v # w /\ worker'[v] = worker[v]
    BY <1>3, <2>1 DEF ClaimEmpty, Goto, QueueTypeOK
  <2> QED
    BY <2>1, <2>2
<1>4. ASSUME NEW w \in Workers, NEW j \in Jobs, ClaimSelect(w, j)
      PROVE  DrainedWhenDone'
  BY <1>2, <1>4 DEF ClaimSelect, QueueTypeOK
<1>5. ASSUME NEW w \in Workers, ClaimCommit(w) \/ CompleteJob(w) \/ FailJob(w)
      PROVE  DrainedWhenDone'
  <2>1. worker \in [Workers -> [pc : {"idle", "claiming", "processing", "failing", "done", "crashed"},
                                 job : Jobs \cup {NoJob}, attempt : Nat]]
    BY DEF QueueTypeOK
  <2>2. CASE ClaimCommit(w)
    <3>1. worker' = [worker EXCEPT ![w] = [@ EXCEPT !.pc = "processing",
                                                    !.attempt = jobs[worker[w].job].attempts + 1]]
      BY <2>2 DEF ClaimCommit
    <3>2. worker'[w].pc = "processing"
      BY <2>1, <3>1
    <3> QED
      BY <1>2, <3>2
  <2>3. CASE CompleteJob(w)
    <3>1. \/ worker' = [worker EXCEPT ![w] = [pc |-> "idle", job |-> NoJob, attempt |-> 0]]
          \/ worker' = [worker EXCEPT ![w].pc = "failing"]
      BY <2>3 DEF CompleteJob, Goto
    <3>2. worker'[w].pc \in {"idle", "failing"}
      BY <2>1, <3>1
    <3> QED
      BY <1>2, <3>2
  <2>4. CASE FailJob(w)
    <3>1. worker' = [worker EXCEPT ![w] = [pc |-> "idle", job |-> NoJob, attempt |-> 0]]
      BY <2>4 DEF FailJob, Goto
    <3>2. worker'[w].pc = "idle"
      BY <2>1, <3>1
    <3> QED
      BY <1>2, <3>2
  <2> QED
    BY <1>5, <2>2, <2>3, <2>4
<1>6. ASSUME NEW w \in Workers, Crash(w) \/ Start(w)
      PROVE  DrainedWhenDone'
  <2>1. worker'[w].pc # "done"
    BY <1>6 DEF Crash, Start, Goto, QueueTypeOK
  <2> QED
    BY <1>2, <2>1
<1>7. ASSUME NEW j \in Jobs, LapseOf(j)
      PROVE  DrainedWhenDone'
  BY <1>7 DEF LapseOf, LeaseLapses
<1> QED
  BY <1>1, <1>3, <1>4, <1>5, <1>6, <1>7 DEF QueueNext, Step

\* When every loop has ended by itself, no job is left pending, for any number
\* of workers and jobs, crashes and late reports included.
THEOREM QueueIsDrained == QueueSpec => []DrainedWhenDone
<1>1. QueueInit => DrainedWhenDone
  BY SomeWorker DEF QueueInit, DrainedWhenDone
<1>2. QueueTypeOK /\ DrainedWhenDone /\ [QueueNext]_queueVars => DrainedWhenDone'
  BY DrainedStep
<1> QED
  BY <1>1, <1>2, QueueTypeCorrect, PTL DEF QueueSpec

\* The three together: what the run checks of the tables and the workers.
THEOREM QueueIsSafe == QueueSpec => []QueueSafe
<1>1. OwnedIffProcessing /\ PendingBelowMax /\ DrainedWhenDone => QueueSafe
  BY DEF QueueSafe
<1> QED
  BY <1>1, JobsHaveOwners, RetriesAreBounded, QueueIsDrained, PTL

\* No claim commits on a job whose lease still runs.
THEOREM LeasesAreRespected == QueueSpec => ClaimsRespectLease
<1> DEFINE Kept == \A j \in Jobs :
                      jobs'[j].attempts # jobs[j].attempts /\ jobs[j].status # "pending"
                         => jobs[j].status = "processing" /\ <<j, jobs[j].attempts>> \in lapsed
<1>1. QueueTypeOK /\ QueueInv /\ [QueueNext]_queueVars => [Kept]_queueVars
  <2> SUFFICES ASSUME QueueTypeOK, QueueInv, QueueNext
               PROVE  Kept
    OBVIOUS
  <2>1. ASSUME NEW w \in Workers, ClaimCommit(w)
        PROVE  Kept
    <3>1. worker[w].job \in Jobs /\ Claimable(worker[w].job)
      BY <2>1 DEF ClaimCommit, QueueTypeOK, QueueInv, ClaimInv
    <3>2. \A k \in Jobs \ {worker[w].job} : jobs'[k] = jobs[k]
      BY <2>1, <3>1 DEF ClaimCommit, QueueTypeOK
    <3> QED
      BY <3>1, <3>2 DEF Claimable
  <2>2. ASSUME NEW w \in Workers, CompleteJob(w) \/ FailJob(w)
        PROVE  \A j \in Jobs : jobs'[j].attempts = jobs[j].attempts
    <3>1. worker[w].job \in Jobs
      BY <2>2 DEF CompleteJob, FailJob, QueueTypeOK
    <3>2. CASE CompleteJob(w)
      BY <3>1, <3>2 DEF CompleteJob, QueueTypeOK
    <3>3. CASE FailJob(w)
      BY <3>1, <3>3 DEF FailJob, QueueTypeOK
    <3> QED
      BY <2>2, <3>2, <3>3
  <2>3. ASSUME \/ \E w \in Workers : \/ \E j \in Jobs : ClaimSelect(w, j)
                                     \/ ClaimEmpty(w) \/ Crash(w) \/ Start(w)
               \/ \E j \in Jobs : LapseOf(j)
        PROVE  jobs' = jobs
    BY <2>3 DEF ClaimSelect, ClaimEmpty, Crash, Start, LapseOf, LeaseLapses
  <2> QED
    BY <2>1, <2>2, <2>3 DEF QueueNext, Step
<1> QED
  BY <1>1, QueueInvariant, PTL DEF QueueSpec, ClaimsRespectLease
=============================================================================
