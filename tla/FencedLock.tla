----------------------------- MODULE FencedLock -----------------------------
(***************************************************************************)
(* The Redis lock of lab 22: a key set with NX and PX, a fencing token     *)
(* from INCR on a second key, renewal and release by scripts that compare  *)
(* the owner, and the row of resource_state the workers write.             *)
(*                                                                         *)
(* Time is the remaining TTL of the lock key: Tick lets some of it pass,   *)
(* and nothing bounds what a worker's clock does meanwhile: a pause of any *)
(* length fits between two of its steps.  writes and releases say which of *)
(* the two write paths and of the two ways to release is deployed.  The    *)
(* workers never look at what acquireLock answered: one without the lock   *)
(* works and writes all the same.  INCR and SET are modelled as Redis runs *)
(* them, one command at a time; a Redis that loses keys is not modelled.   *)
(***************************************************************************)
EXTENDS Integers, Sequences, SequencesExt

CONSTANTS Holders,  \* ownership tokens: randomToken gives each worker its own
          Nobody,   \* no such key
          Ttl       \* LOCK_TTL_MS, in ticks

ASSUME LockAssumption == Nobody \notin Holders /\ Ttl \in Nat \ {0}

VARIABLES lock,      \* the value of the lock key
          ttl,       \* its remaining PTTL
          counter,   \* the fencing counter key
          row,       \* resource_state.fencing_token
          pc, token, \* position and fencing token of each worker
          writes, releases,
          acquired,  \* the workers, in the order they acquired the lock
          accepted,  \* the workers, in the order their writes changed the row
          late       \* those whose lease was gone when they took their token

lockVars == <<lock, ttl, counter, row, pc, token, writes, releases, acquired, accepted, late>>

NoToken == -1

LockInit ==
    /\ lock = Nobody /\ ttl = 0
    /\ counter = 0 /\ row = 0
    /\ pc = [w \in Holders |-> "ready"]
    /\ token = [w \in Holders |-> NoToken]
    /\ writes \in {"naive", "fenced"}
    /\ releases \in {"script", "getThenDel"}
    /\ acquired = <<>> /\ accepted = <<>>
    /\ late = {}

LockGoto(w, p) == pc' = [pc EXCEPT ![w] = p]

\* The key expires by itself; it is the only thing time does.
Tick ==
    /\ ttl > 0
    /\ ttl' = ttl - 1
    /\ lock' = IF ttl = 1 THEN Nobody ELSE lock
    /\ UNCHANGED <<counter, row, pc, token, writes, releases, acquired, accepted, late>>

\* SET key token PX ttl NX: OK when the key is absent, nil otherwise.
AcquireLock(w) ==
    /\ pc[w] = "ready" /\ lock = Nobody
    /\ lock' = w /\ ttl' = Ttl
    /\ acquired' = Append(acquired, w)
    /\ LockGoto(w, IF writes = "fenced" THEN "acquired" ELSE "working")
    /\ UNCHANGED <<counter, row, token, writes, releases, accepted, late>>

AcquireFails(w) ==
    /\ pc[w] = "ready" /\ lock # Nobody
    /\ LockGoto(w, "working")
    /\ UNCHANGED <<lock, ttl, counter, row, token, writes, releases, acquired, accepted, late>>

\* INCR, a command of its own: the lease may have run out since the SET.
TakeToken(w) ==
    /\ pc[w] = "acquired"
    /\ counter' = counter + 1
    /\ token' = [token EXCEPT ![w] = counter + 1]
    /\ late' = IF lock = w THEN late ELSE late \cup {w}
    /\ LockGoto(w, "working")
    /\ UNCHANGED <<lock, ttl, row, writes, releases, acquired, accepted>>

\* The renewal timer: PEXPIRE if the key still holds this worker's token.
RenewLock(w) ==
    /\ pc[w] = "working"
    /\ lock = w /\ ttl' = Ttl
    /\ UNCHANGED <<lock, counter, row, pc, token, writes, releases, acquired, accepted, late>>

WriteNaive(w) ==
    /\ pc[w] = "working" /\ writes = "naive"
    /\ accepted' = Append(accepted, w)
    /\ LockGoto(w, "written")
    /\ UNCHANGED <<lock, ttl, counter, row, token, writes, releases, acquired, late>>

\* Mutant: a fenced write that checks nothing and only records its token.
MutWriteFencedUnconditional(w) ==
    /\ pc[w] = "working" /\ writes = "fenced"
    /\ row' = token[w] /\ accepted' = Append(accepted, w)
    /\ LockGoto(w, "written")
    /\ UNCHANGED <<lock, ttl, counter, token, writes, releases, acquired, late>>

\* UPDATE ... WHERE fencing_token < $1; without the lock the token is -1.
WriteFenced(w) ==
    /\ pc[w] = "working" /\ writes = "fenced"
    /\ IF row < token[w]
       THEN row' = token[w] /\ accepted' = Append(accepted, w)
       ELSE UNCHANGED <<row, accepted>>
    /\ LockGoto(w, "written")
    /\ UNCHANGED <<lock, ttl, counter, token, writes, releases, acquired, late>>

SetFree == lock' = Nobody /\ ttl' = 0

\* Mutant: a release that deletes the key, whoever owns it.
MutReleaseLockDeletes(w) ==
    /\ pc[w] = "written" /\ releases = "script"
    /\ SetFree
    /\ LockGoto(w, "done")
    /\ UNCHANGED <<counter, row, token, writes, releases, acquired, accepted, late>>

\* RELEASE_SCRIPT: compare and delete in one command.
ReleaseLock(w) ==
    /\ pc[w] = "written" /\ releases = "script"
    /\ IF lock = w THEN SetFree ELSE UNCHANGED <<lock, ttl>>
    /\ LockGoto(w, "done")
    /\ UNCHANGED <<counter, row, token, writes, releases, acquired, accepted, late>>

\* releaseLockUnsafeGetThenDel: GET, and in a second round trip DEL.
UnsafeGet(w) ==
    /\ pc[w] = "written" /\ releases = "getThenDel"
    /\ LockGoto(w, IF lock = w THEN "deleting" ELSE "done")
    /\ UNCHANGED <<lock, ttl, counter, row, token, writes, releases, acquired, accepted, late>>

UnsafeDel(w) ==
    /\ pc[w] = "deleting"
    /\ SetFree
    /\ LockGoto(w, "done")
    /\ UNCHANGED <<counter, row, token, writes, releases, acquired, accepted, late>>

HolderCrashes(w) ==
    /\ pc[w] \notin {"done", "crashed"}
    /\ LockGoto(w, "crashed")
    /\ UNCHANGED <<lock, ttl, counter, row, token, writes, releases, acquired, accepted, late>>

Proceed(w) ==
    \/ AcquireLock(w) \/ AcquireFails(w) \/ TakeToken(w)
    \/ WriteNaive(w) \/ WriteFenced(w)
    \/ ReleaseLock(w) \/ UnsafeGet(w) \/ UnsafeDel(w)

LockNext == Tick \/ \E w \in Holders : Proceed(w) \/ RenewLock(w) \/ HolderCrashes(w)

LockSpec == LockInit /\ [][LockNext]_lockVars

-----------------------------------------------------------------------------

\* The variables hold what Redis, the row and the workers can hold.
LockTypeOK ==
    /\ lock \in Holders \cup {Nobody}
    /\ ttl \in 0..Ttl
    /\ counter \in Nat /\ row \in 0..counter
    /\ pc \in [Holders -> {"ready", "acquired", "working", "written", "deleting", "done", "crashed"}]
    /\ token \in [Holders -> {NoToken} \cup 1..counter]
    /\ writes \in {"naive", "fenced"} /\ releases \in {"script", "getThenDel"}
    /\ acquired \in Seq(Holders) /\ accepted \in Seq(Holders)
    /\ late \subseteq Holders

\* With the release script, nobody but its holder shortens or extends a lease:
\* every other change of the key is an acquisition of a free one, or time.
OnlyItsHolderTouchesTheLock ==
    [][ releases = "script" =>
          \/ lock = Nobody
          \/ <<lock', ttl'>> = <<lock, ttl>>
          \/ ttl' = ttl - 1 /\ lock' \in {lock, Nobody}
          \/ lock' = lock /\ pc[lock] = "working"
          \/ pc[lock] = "written" /\ pc'[lock] = "done" ]_lockVars

AcquiredBefore(v, w) ==
    \E i, j \in DOMAIN acquired : i < j /\ acquired[i] = v /\ acquired[j] = w

\* Fenced writes change the row in the order in which their writers held the
\* lock, however long they were paused, as long as each took its token before
\* its lease ran out; a worker that never held the lock changes nothing.
AcceptedInLockOrder ==
    writes = "fenced" =>
        /\ ToSet(accepted) \subseteq ToSet(acquired)
        /\ \A i, j \in DOMAIN accepted :
              i < j /\ accepted[j] \notin late => AcquiredBefore(accepted[i], accepted[j])

\* fencing-token.ts, acquireLockWithFencingToken: every acquisition receives a
\* token strictly greater than that of every acquisition before it.
TokensFollowAcquisitions ==
    \A v, w \in Holders :
        token[v] # NoToken /\ token[w] # NoToken /\ AcquiredBefore(v, w) => token[v] < token[w]

\* The lock has stayed with no worker, whether it released, paused or crashed.
LockIsFree == lock = Nobody
=============================================================================
