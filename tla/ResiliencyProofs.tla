-------------------------- MODULE ResiliencyProofs --------------------------
(***************************************************************************)
(* Proofs about Resiliency, for any number of processes, threads, keys,    *)
(* device handles, retries, resets and errors.                             *)
(*                                                                         *)
(* The order of the epochs rests on who may write them: only the call that *)
(* initialises a partition sets its epoch without looking at the old one,  *)
(* and then the process has no session, no key and no other call yet.      *)
(* IInv says so (DownInv, OneInit), and that a call stamps only a key of   *)
(* its own process (CallInv).                                              *)
(*                                                                         *)
(* That a stamp vouches for its handle rests on the locks: a session's     *)
(* epoch moves only under the barrier's write lock, and then every older   *)
(* stamp falls behind it.  SInv says who excludes whom (LockInv), that     *)
(* keys and calls need an open session (SessionInv), that a key under      *)
(* construction is private (GenInv), and what the stamps say (StampInv).   *)
(*                                                                         *)
(* That the locks cannot stop a process but by delete_key's order of       *)
(* taking them needs no more than IInv: a call locks only keys of its own  *)
(* process.                                                                *)
(***************************************************************************)
EXTENDS Resiliency, TLAPS

Calls == {"none", "op", "gen", "open", "delete", "init"}

ThreadRecs == [pc : Pcs, call : Calls, key : Keys \cup {NoKey},
               attempt : 0 .. MaxRetries + 1, pre : Nat,
               fresh : BOOLEAN, handle : Handles \cup {0}]

KeyRecs == [st : {"none", "live", "deleted"}, handle : Handles \cup {0}, epoch : Nat]

Restoring == {"recover", "drain", "lock", "cred", "apply", "reopen", "rekey"}

InInit == {"init", "initAgain", "initCred"}

\* Which calls are found at a program counter.
CallsAt(pc) ==
    IF pc = "idle" THEN {"none"}
    ELSE IF pc \in {"check", "epoch", "use", "rekey"} THEN {"op"}
    ELSE IF pc \in {"own", "delete", "erase"} THEN {"delete"}
    ELSE IF pc \in InInit THEN {"init"}
    ELSE IF pc \in {"try", "retry", "stamp"} THEN {"gen", "open"}
    ELSE {"op", "gen", "open"}

\* What a thread's record says about its call.
RecordOK(t, r) ==
    /\ r.call \in CallsAt(r.pc)
    /\ r.call \in {"op", "gen", "delete"} => r.key \in Keys /\ KeyProc[r.key] = ProcOf[t]
    /\ r.call = "gen" /\ r.pc = "stamp" => r.handle \in Handles
    /\ r.call = "op" /\ r.pc \in Restoring => r.attempt <= MaxRetries

CallInv == \A t \in Threads : RecordOK(t, th[t])

\* A partition that is not initialised has nothing stamped with its epoch.
DownInv ==
    \A p \in Procs : ~up[p] =>
        /\ ~sessOpen[p]
        /\ \A k \in Keys : KeyProc[k] = p => key[k].st # "live"
        /\ \A t \in Threads : ProcOf[t] = p => th[t].call \in {"none", "init"}

\* It is being initialised by one thread at most.
OneInit ==
    \A t \in Threads : th[t].call = "init" =>
        /\ ~up[ProcOf[t]]
        /\ \A u \in Threads : th[u].call = "init" /\ ProcOf[u] = ProcOf[t] => u = t

IInv ==
    /\ TypeOK
    /\ CallInv
    /\ DownInv
    /\ OneInit
    /\ EpochsOrdered

\* The step part of EpochsGrow.
Grows ==
    /\ store' >= store
    /\ \A p \in Procs : up[p] /\ up'[p] => part'[p] >= part[p]
    /\ \A k \in Keys : key[k].st = "live" /\ key'[k].st = "live"
                         => key'[k].epoch >= key[k].epoch

-----------------------------------------------------------------------------
(* The record of the thread that takes a step                               *)

Others(t) == \A u \in Threads \ {t} : th'[u] = th[u]

\* What every step of a call does to the threads.
ThreadPost(t) ==
    /\ th' \in [Threads -> ThreadRecs]
    /\ Others(t)
    /\ RecordOK(t, th'[t])
    /\ th'[t].call \in {th[t].call, "none"}

\* A thread outside a call satisfies the invariant.
LEMMA IdleOK ==
    /\ Idle \in ThreadRecs
    /\ \A t : RecordOK(t, Idle)
BY ConstantsAssumption DEF Idle, ThreadRecs, Pcs, Calls, RecordOK, CallsAt, InInit

\* The end of a call.
LEMMA AfterReturn ==
    ASSUME th \in [Threads -> ThreadRecs], NEW t \in Threads, Return(t)
    PROVE  ThreadPost(t) /\ th'[t] = Idle
BY IdleOK DEF Return, ThreadPost, Others, Idle

\* A step to another place of the same call.
LEMMA AfterResume ==
    ASSUME th \in [Threads -> ThreadRecs], NEW t \in Threads, RecordOK(t, th[t]),
           NEW pc \in Pcs \ {"stamp"}, NEW n \in 0 .. MaxRetries + 1,
           th[t].call \in CallsAt(pc),
           th[t].call = "op" /\ pc \in Restoring => n <= MaxRetries,
           Resume(t, pc, n)
    PROVE  ThreadPost(t)
<1>1. /\ th' \in [Threads -> ThreadRecs]
      /\ Others(t)
      /\ th'[t].pc = pc /\ th'[t].attempt = n
      /\ th'[t].call = th[t].call /\ th'[t].key = th[t].key
  BY DEF Resume, ThreadRecs, Others
<1>2. QED
  BY <1>1 DEF ThreadPost, RecordOK

\* The same, with the attempt it is in.
LEMMA AfterGoto ==
    ASSUME th \in [Threads -> ThreadRecs], NEW t \in Threads, RecordOK(t, th[t]),
           NEW pc \in Pcs \ {"stamp"},
           th[t].call \in CallsAt(pc),
           th[t].call = "op" /\ pc \in Restoring => th[t].attempt <= MaxRetries,
           Goto(t, pc)
    PROVE  ThreadPost(t)
BY AfterResume DEF Goto, ThreadRecs

\* A failed recovery goes on with the call or ends it.
LEMMA AfterGiveUp ==
    ASSUME th \in [Threads -> ThreadRecs], NEW t \in Threads, RecordOK(t, th[t]),
           th[t].pc \in Restoring, GiveUp(t)
    PROVE  ThreadPost(t)
<1>1. th[t].attempt \in Nat /\ th[t].call \in {"op", "gen", "open"} /\ MaxRetries \in Nat
  BY ConstantsAssumption DEF ThreadRecs, RecordOK, CallsAt, Restoring, InInit
<1>2. CASE th[t].call = "op"
  <2>1. Resume(t, "check", th[t].attempt + 1)
    BY <1>2 DEF GiveUp
  <2>2. th[t].attempt + 1 \in 0 .. MaxRetries + 1
    BY <1>1, <1>2 DEF RecordOK
  <2>3. "check" \in Pcs \ {"stamp"} /\ "op" \in CallsAt("check") /\ "check" \notin Restoring
    BY DEF Pcs, CallsAt, Restoring
  <2>4. QED
    BY <1>2, <2>1, <2>2, <2>3, AfterResume
<1>3. CASE th[t].call # "op"
  <2>1. CASE th[t].attempt + 1 < MaxRetries
    <3>1. Resume(t, "recover", th[t].attempt + 1)
      BY <1>3, <2>1 DEF GiveUp
    <3>2. th[t].attempt + 1 \in 0 .. MaxRetries + 1
      BY <1>1, <2>1
    <3>3. "recover" \in Pcs \ {"stamp"} /\ th[t].call \in CallsAt("recover")
      BY <1>1 DEF Pcs, CallsAt, InInit
    <3>4. QED
      BY <1>3, <3>1, <3>2, <3>3, AfterResume
  <2>2. CASE ~(th[t].attempt + 1 < MaxRetries)
    BY <1>3, <2>2, AfterReturn DEF GiveUp
  <2>3. QED
    BY <2>1, <2>2
<1>4. QED
  BY <1>2, <1>3

\* A retryable error of a generation or an open.
LEMMA AfterRetry ==
    ASSUME th \in [Threads -> ThreadRecs], NEW t \in Threads, RecordOK(t, th[t]),
           th[t].call \in {"gen", "open"}, Retry(t)
    PROVE  ThreadPost(t)
<1>1. th[t].attempt \in Nat /\ MaxRetries \in Nat
  BY ConstantsAssumption DEF ThreadRecs
<1> DEFINE n == th[t].attempt + (IF At(t, "try") THEN 0 ELSE 1)
<1>2. n \in Nat
  BY <1>1
<1>3. CASE n < MaxRetries
  <2>1. Resume(t, "recover", n)
    BY <1>3 DEF Retry
  <2>2. n \in 0 .. MaxRetries + 1
    BY <1>1, <1>2, <1>3
  <2>3. "recover" \in Pcs \ {"stamp"} /\ th[t].call \in CallsAt("recover")
    BY DEF Pcs, CallsAt, InInit
  <2> HIDE DEF n
  <2>4. QED
    BY <2>1, <2>2, <2>3, AfterResume
<1>4. CASE ~(n < MaxRetries)
  BY <1>4, AfterReturn DEF Retry
<1>5. QED
  BY <1>3, <1>4

\* A retryable error of an operation.
LEMMA AfterAgain ==
    ASSUME th \in [Threads -> ThreadRecs], NEW t \in Threads, RecordOK(t, th[t]),
           th[t].call = "op", Again(t)
    PROVE  ThreadPost(t)
<1>1. th[t].attempt \in Nat /\ MaxRetries \in Nat
  BY ConstantsAssumption DEF ThreadRecs
<1>2. CASE th[t].attempt < MaxRetries
  <2>1. Resume(t, "recover", th[t].attempt + 1)
    BY <1>2 DEF Again
  <2>2. th[t].attempt + 1 \in 0 .. MaxRetries + 1 /\ th[t].attempt + 1 <= MaxRetries
    BY <1>1, <1>2
  <2>3. "recover" \in Pcs \ {"stamp"} /\ th[t].call \in CallsAt("recover")
    BY DEF Pcs, CallsAt, InInit
  <2>4. QED
    BY <2>1, <2>2, <2>3, AfterResume
<1>3. CASE ~(th[t].attempt < MaxRetries)
  BY <1>3, AfterReturn DEF Again
<1>4. QED
  BY <1>2, <1>3

\* A retryable error inside init.
LEMMA AfterInitRetry ==
    ASSUME th \in [Threads -> ThreadRecs], NEW t \in Threads, RecordOK(t, th[t]),
           th[t].call = "init", InitRetry(t)
    PROVE  ThreadPost(t)
<1>1. th[t].attempt \in Nat /\ MaxRetries \in Nat
  BY ConstantsAssumption DEF ThreadRecs
<1>2. CASE th[t].attempt < MaxRetries
  <2>1. Resume(t, "initAgain", th[t].attempt + 1)
    BY <1>2 DEF InitRetry
  <2>2. th[t].attempt + 1 \in 0 .. MaxRetries + 1
    BY <1>1, <1>2
  <2>3. "initAgain" \in Pcs \ {"stamp"} /\ th[t].call \in CallsAt("initAgain")
    BY DEF Pcs, CallsAt, InInit
  <2>4. QED
    BY <2>1, <2>2, <2>3, AfterResume
<1>3. CASE ~(th[t].attempt < MaxRetries)
  BY <1>3, AfterReturn DEF InitRetry
<1>4. QED
  BY <1>2, <1>3

\* Every step of a call keeps the records of the threads in order.
LEMMA StepThreads ==
    ASSUME IInv, NEW t \in Threads, Step(t)
    PROVE  ThreadPost(t)
<1> USE DEF At
<1>0. /\ th \in [Threads -> ThreadRecs]
      /\ RecordOK(t, th[t])
      /\ th[t].attempt \in Nat /\ MaxRetries \in Nat
      /\ part \in [Procs -> Nat] /\ ProcOf[t] \in Procs
  BY ConstantsAssumption DEF IInv, TypeOK, ThreadRecs, Calls, CallInv
<1>c. th[t].call \in CallsAt(th[t].pc)
  BY <1>0 DEF RecordOK
<1>r. ASSUME Return(t) PROVE ThreadPost(t)
  BY <1>0, <1>r, AfterReturn
<1>u. ASSUME GiveUp(t), th[t].pc \in Restoring PROVE ThreadPost(t)
  BY <1>0, <1>u, AfterGiveUp
<1>a. ASSUME th[t].pc \in Restoring, Goto(t, AfterRestore(th[t].call)), th[t].pc # "rekey"
      PROVE  ThreadPost(t)
  <2>1. th[t].call \in {"op", "gen", "open"}
    BY <1>a, <1>c DEF CallsAt, Restoring, InInit
  <2>2. th[t].call = "op" => th[t].attempt <= MaxRetries
    BY <1>0, <1>a DEF RecordOK
  <2>3. AfterRestore(th[t].call) \in Pcs \ {"stamp"} /\ th[t].call \in CallsAt(AfterRestore(th[t].call))
    BY <2>1 DEF AfterRestore, Pcs, CallsAt, InInit
  <2>4. QED
    BY <1>0, <1>a, <2>2, <2>3, AfterGoto
<1>1. CASE Check(t)
  <2>1. th[t].call = "op"
    BY <1>1, <1>c DEF Check, CallsAt
  <2>2. CASE Goto(t, "use")
    <3>1. "use" \in Pcs \ {"stamp"} /\ "op" \in CallsAt("use") /\ "use" \notin Restoring
      BY DEF Pcs, CallsAt, Restoring
    <3>2. QED
      BY <1>0, <2>1, <2>2, <3>1, AfterGoto
  <2>3. CASE Goto(t, "recover") /\ th[t].attempt < MaxRetries
    <3>1. "recover" \in Pcs \ {"stamp"} /\ "op" \in CallsAt("recover")
      BY DEF Pcs, CallsAt, InInit
    <3>2. QED
      BY <1>0, <2>1, <2>3, <3>1, AfterGoto
  <2>4. QED
    BY <1>1, <1>r, <2>2, <2>3 DEF Check
<1>2. CASE Use(t)
  <2>1. th[t].call = "op"
    BY <1>2, <1>c DEF Use, CallsAt
  <2>2. QED
    BY <1>0, <1>2, <1>r, <2>1, AfterAgain DEF Use
<1>q. ASSUME NoteEpoch(t), th[t].pc \in {"recover", "drain"} PROVE ThreadPost(t)
  <2>0. "lock" \in Pcs
    BY DEF Pcs
  <2>1. /\ th' \in [Threads -> ThreadRecs] /\ Others(t)
        /\ th'[t].pc = "lock" /\ th'[t].call = th[t].call
        /\ th'[t].key = th[t].key /\ th'[t].attempt = th[t].attempt
    BY <1>0, <1>q, <2>0 DEF NoteEpoch, ThreadRecs, Others
  <2>2. QED
    BY <1>0, <1>q, <2>1 DEF ThreadPost, RecordOK, Restoring, CallsAt, InInit
<1>3. CASE Recover(t)
  <2>1. CASE Goto(t, "drain")
    <3>1. "drain" \in Pcs \ {"stamp"} /\ th[t].call \in CallsAt("drain")
      BY <1>3, <1>c DEF Recover, Pcs, CallsAt, InInit
    <3>2. th[t].call = "op" => th[t].attempt <= MaxRetries
      BY <1>0, <1>3 DEF Recover, RecordOK, Restoring
    <3>3. QED
      BY <1>0, <2>1, <3>1, <3>2, AfterGoto
  <2>2. QED
    BY <1>3, <1>q, <2>1 DEF Recover
<1>dr. CASE Drain(t)
  BY <1>dr, <1>q DEF Drain, Draining
<1>en. CASE Enter(t)
  <2>1. th[t].call = "op"
    BY <1>en, <1>c DEF Enter, CallsAt
  <2>2. "epoch" \in Pcs \ {"stamp"} /\ "op" \in CallsAt("epoch") /\ "epoch" \notin Restoring
    BY DEF Pcs, CallsAt, Restoring
  <2>3. Goto(t, "epoch")
    BY <1>en DEF Enter
  <2>4. QED
    BY <1>0, <2>1, <2>2, <2>3, AfterGoto
<1>ow. CASE Own(t)
  <2>1. th[t].call = "delete"
    BY <1>ow, <1>c DEF Own, CallsAt
  <2>2. "delete" \in Pcs \ {"stamp"} /\ "delete" \in CallsAt("delete") /\ "delete" \notin Restoring
    BY DEF Pcs, CallsAt, Restoring
  <2>3. Goto(t, "delete") \/ Return(t)
    BY <1>ow DEF Own
  <2>4. QED
    BY <1>0, <1>r, <2>1, <2>2, <2>3, AfterGoto
<1>4. CASE Lock(t)
  <2>1. th[t].pc = "lock" /\ "lock" \in Restoring
    BY <1>4 DEF Lock, Restoring
  <2>2. CASE th' = [th EXCEPT ![t] = [@ EXCEPT !.pc = "cred", !.pre = 0, !.fresh = TRUE]]
    <3>1. /\ th' \in [Threads -> ThreadRecs] /\ Others(t)
          /\ th'[t].pc = "cred" /\ th'[t].call = th[t].call
          /\ th'[t].key = th[t].key /\ th'[t].attempt = th[t].attempt
      BY <1>0, <2>2 DEF ThreadRecs, Others, Pcs
    <3>2. QED
      BY <1>0, <2>1, <3>1 DEF ThreadPost, RecordOK, Restoring, CallsAt, InInit
  <2>3. CASE SyncEpoch(t)
    BY <2>1, <2>3, <1>a, <1>u DEF SyncEpoch
  <2>4. QED
    BY <1>4, <1>a, <1>u, <2>1, <2>2, <2>3 DEF Lock
<1>5. CASE Establish(t)
  <2>1. th[t].pc = "cred" /\ "cred" \in Restoring
    BY <1>5 DEF Establish, Restoring
  <2>2. CASE Goto(t, "apply")
    <3>1. "apply" \in Pcs \ {"stamp"} /\ th[t].call \in CallsAt("apply")
      BY <1>c, <2>1 DEF Pcs, CallsAt, InInit
    <3>2. th[t].call = "op" => th[t].attempt <= MaxRetries
      BY <1>0, <2>1 DEF RecordOK
    <3>3. QED
      BY <1>0, <2>2, <3>1, <3>2, AfterGoto
  <2>3. QED
    BY <1>5, <1>u, <2>1, <2>2 DEF Establish
<1>6. CASE Apply(t)
  <2>1. th[t].pc = "apply" /\ "apply" \in Restoring
    BY <1>6 DEF Apply, Restoring
  <2>2. QED
    BY <1>6, <1>a, <1>u, <2>1 DEF Apply
<1>7. CASE ReopenSession(t)
  <2>1. th[t].pc = "reopen" /\ "reopen" \in Restoring
    BY <1>7 DEF ReopenSession, Restoring
  <2> DEFINE nxt == IF th[t].call = "op" THEN "rekey" ELSE "retry"
  <2>2. CASE Goto(t, nxt)
    <3>1. nxt \in Pcs \ {"stamp"} /\ th[t].call \in CallsAt(nxt)
      BY <1>c, <2>1 DEF Pcs, CallsAt, InInit
    <3>2. th[t].call = "op" => th[t].attempt <= MaxRetries
      BY <1>0, <2>1 DEF RecordOK
    <3> HIDE DEF nxt
    <3>3. QED
      BY <1>0, <2>2, <3>1, <3>2, AfterGoto
  <2>3. QED
    BY <1>7, <1>u, <2>1, <2>2 DEF ReopenSession
<1>8. CASE RestoreKey(t)
  <2>1. th[t].pc = "rekey" /\ "rekey" \in Restoring
    BY <1>8 DEF RestoreKey, Restoring
  <2>2. CASE Goto(t, "check")
    <3>1. "check" \in Pcs \ {"stamp"} /\ th[t].call \in CallsAt("check") /\ "check" \notin Restoring
      BY <1>c, <2>1 DEF Pcs, CallsAt, Restoring
    <3>2. QED
      BY <1>0, <2>2, <3>1, AfterGoto
  <2>3. QED
    BY <1>8, <1>u, <2>1, <2>2 DEF RestoreKey
<1>9. CASE Generate(t)
  <2>1. th[t].call = "gen"
    BY <1>9 DEF Generate
  <2>2. CASE \E h \in Handles : th' = [th EXCEPT ![t].pc = "stamp", ![t].handle = h]
    <3>1. PICK h \in Handles : th' = [th EXCEPT ![t].pc = "stamp", ![t].handle = h]
      BY <2>2
    <3>0. "stamp" \in Pcs
      BY DEF Pcs
    <3>2. /\ th' \in [Threads -> ThreadRecs] /\ Others(t)
          /\ th'[t].pc = "stamp" /\ th'[t].call = th[t].call
          /\ th'[t].key = th[t].key /\ th'[t].handle = h
      BY <1>0, <3>0, <3>1 DEF ThreadRecs, Others
    <3>3. QED
      BY <1>0, <2>1, <3>2 DEF ThreadPost, RecordOK, CallsAt, InInit
  <2>3. \/ \E h \in Handles : th' = [th EXCEPT ![t].pc = "stamp", ![t].handle = h]
        \/ Return(t) \/ Retry(t)
    BY <1>9 DEF Generate
  <2>4. QED
    BY <1>0, <1>r, <2>1, <2>2, <2>3, AfterRetry
<1>10. CASE StampKey(t)
  BY <1>10, <1>r DEF StampKey
<1>11. CASE Open(t)
  <2>1. th[t].call = "open"
    BY <1>11 DEF Open
  <2>2. CASE Goto(t, "stamp")
    <3>1. /\ th' \in [Threads -> ThreadRecs] /\ Others(t)
          /\ th'[t].pc = "stamp" /\ th'[t].call = th[t].call
      <4>1. "stamp" \in Pcs
        BY DEF Pcs
      <4>2. QED
        BY <1>0, <2>2, <4>1 DEF ThreadRecs, Others, Goto, Resume
    <3>2. QED
      BY <2>1, <3>1 DEF ThreadPost, RecordOK, CallsAt, InInit
  <2>3. Goto(t, "stamp") \/ Return(t) \/ Retry(t)
    BY <1>11 DEF Open
  <2>4. QED
    BY <1>0, <1>r, <2>1, <2>2, <2>3, AfterRetry
<1>12. CASE StampSession(t)
  BY <1>12, <1>r DEF StampSession
<1>13. CASE DeleteCheck(t)
  <2>1. CASE Goto(t, "erase")
    <3>1. /\ "erase" \in Pcs \ {"stamp"} /\ "erase" \notin Restoring
          /\ th[t].call \in CallsAt("erase")
      BY <1>c, <1>13 DEF Pcs, CallsAt, Restoring, DeleteCheck
    <3>2. QED
      BY <1>0, <2>1, <3>1, AfterGoto
  <2>2. QED
    BY <1>13, <1>r, <2>1 DEF DeleteCheck
<1>14. CASE Erase(t)
  BY <1>14, <1>r DEF Erase
<1>15. CASE InitNonce(t)
  <2>1. th[t].call = "init"
    BY <1>15, <1>c DEF InitNonce, CallsAt, InInit
  <2>2. CASE th' = [th EXCEPT ![t].pc = "initCred", ![t].fresh = TRUE]
    <3>1. /\ th' \in [Threads -> ThreadRecs] /\ Others(t)
          /\ th'[t].pc = "initCred" /\ th'[t].call = th[t].call
      <4>1. "initCred" \in Pcs
        BY DEF Pcs
      <4>2. QED
        BY <1>0, <2>2, <4>1 DEF ThreadRecs, Others
    <3>2. QED
      BY <2>1, <3>1 DEF ThreadPost, RecordOK, CallsAt, InInit
  <2>3. QED
    BY <1>0, <1>15, <1>r, <2>1, <2>2, AfterInitRetry DEF InitNonce
<1>16. CASE InitEstablish(t)
  <2>1. th[t].call = "init"
    BY <1>16, <1>c DEF InitEstablish, CallsAt, InInit
  <2>2. QED
    BY <1>0, <1>16, <1>r, <2>1, AfterInitRetry DEF InitEstablish
<1>17. QED
  BY <1>1, <1>2, <1>3, <1>4, <1>5, <1>6, <1>7, <1>8, <1>9, <1>10, <1>11, <1>12,
     <1>13, <1>14, <1>15, <1>16, <1>dr, <1>en, <1>ow DEF Step

-----------------------------------------------------------------------------
(* Types                                                                    *)

\* TypeOK without the threads.
DataTypes ==
    /\ cred \in BOOLEAN
    /\ devSess \in [Procs -> {"none", "valid", "reneg"}]
    /\ vault \in [Handles -> Keys \cup {NoKey}]
    /\ store \in Nat
    /\ up \in [Procs -> BOOLEAN]
    /\ part \in [Procs -> Nat]
    /\ sessOpen \in [Procs -> BOOLEAN]
    /\ sessEpoch \in [Procs -> Nat]
    /\ key \in [Keys -> KeyRecs]
    /\ \A k \in Keys : key[k].st = "live" => key[k].handle \in Handles
    /\ resets \in 0 .. MaxResets
    /\ errors \in 0 .. MaxErrors
    /\ astray \in BOOLEAN

\* The two halves of TypeOK.
LEMMA TypeSplit == TypeOK <=> DataTypes /\ th \in [Threads -> ThreadRecs]
BY DEF TypeOK, DataTypes, ThreadRecs, KeyRecs, Calls

\* The steps of a call keep the types of the device and of the process.
LEMMA StepTypes ==
    ASSUME IInv, NEW t \in Threads, Step(t)
    PROVE  DataTypes'
<1> USE DEF At
<1>0. /\ DataTypes /\ th \in [Threads -> ThreadRecs] /\ RecordOK(t, th[t])
      /\ ProcOf[t] \in Procs
      /\ store + 1 \in Nat
  BY TypeSplit, ConstantsAssumption DEF IInv, CallInv, DataTypes
<1>k. th[t].call \in {"op", "gen", "delete"} => th[t].key \in Keys
  BY <1>0 DEF RecordOK
<1>f. ASSUME Fault \/ UNCHANGED errors PROVE errors' \in 0 .. MaxErrors
  BY <1>0, <1>f, ConstantsAssumption DEF Fault, DataTypes
<1>p. ASSUME NEW v \in Nat, part' = [part EXCEPT ![ProcOf[t]] = v]
      PROVE  part' \in [Procs -> Nat]
  BY <1>0, <1>p DEF DataTypes
<1>d. ASSUME th[t].call = "delete", MarkDeleted(th[t].key)
      PROVE  /\ key' \in [Keys -> KeyRecs]
             /\ \A k \in Keys : key'[k].st = "live" => key'[k].handle \in Handles
  BY <1>0, <1>d, <1>k DEF MarkDeleted, DataTypes, KeyRecs
<1>1. CASE Check(t)
  BY <1>0, <1>1 DEF Check, DataTypes, device, procVars, faults
<1>2. CASE Use(t)
  BY <1>0, <1>2, <1>f DEF Use, DataTypes, device, procVars
<1>3. CASE Recover(t)
  BY <1>0, <1>3 DEF Recover, DataTypes, device, procVars, faults
<1>dr. CASE Drain(t)
  BY <1>0, <1>dr DEF Drain, DataTypes, device, procVars, faults
<1>en. CASE Enter(t)
  BY <1>0, <1>en DEF Enter, DataTypes, device, procVars, faults
<1>ow. CASE Own(t)
  BY <1>0, <1>ow DEF Own, DataTypes, device, procVars, faults
<1>4. CASE Lock(t)
  <2>1. part' \in [Procs -> Nat]
    BY <1>0, <1>4, <1>p DEF Lock, SyncEpoch, DataTypes
  <2>2. Fault \/ UNCHANGED errors
    BY <1>4 DEF Lock
  <2>3. QED
    BY <1>0, <1>4, <1>f, <2>1, <2>2 DEF Lock, DataTypes, device
<1>5. CASE Establish(t)
  BY <1>0, <1>5, <1>f DEF Establish, DataTypes, procVars
<1>6. CASE Apply(t)
  <2>1. part' \in [Procs -> Nat]
    BY <1>0, <1>6, <1>p DEF Apply, DataTypes
  <2>2. store' \in Nat
    BY <1>0, <1>6 DEF Apply, DataTypes
  <2>3. QED
    BY <1>0, <1>6, <1>f, <2>1, <2>2 DEF Apply, DataTypes, device
<1>7. CASE ReopenSession(t)
  <2>1. /\ devSess' \in [Procs -> {"none", "valid", "reneg"}]
        /\ sessEpoch' \in [Procs -> Nat]
    BY <1>0, <1>7 DEF ReopenSession, DataTypes
  <2>2. Fault \/ UNCHANGED errors
    BY <1>7 DEF ReopenSession
  <2>3. QED
    BY <1>0, <1>7, <1>f, <2>1, <2>2 DEF ReopenSession, DataTypes
<1>8. CASE RestoreKey(t)
  <2>1. th[t].key \in Keys
    BY <1>8, <1>0, <1>k DEF RestoreKey, RecordOK, CallsAt
  <2>2. /\ vault' \in [Handles -> Keys \cup {NoKey}]
        /\ key' \in [Keys -> KeyRecs]
        /\ \A k \in Keys : key'[k].st = "live" => key'[k].handle \in Handles
    <3>1. CASE UNCHANGED <<vault, key>>
      BY <1>0, <3>1 DEF DataTypes
    <3>2. CASE \E h \in Handles :
                 /\ vault' = [vault EXCEPT ![h] = th[t].key]
                 /\ key' = [key EXCEPT ![th[t].key].handle = h,
                                       ![th[t].key].epoch = part[ProcOf[t]]]
      BY <1>0, <2>1, <3>2 DEF DataTypes, KeyRecs
    <3>3. QED
      BY <1>8, <3>1, <3>2 DEF RestoreKey
  <2>3. Fault \/ UNCHANGED errors
    BY <1>8 DEF RestoreKey
  <2>4. astray' \in BOOLEAN
    BY <1>0, <1>8 DEF RestoreKey, DataTypes, SessionBehind
  <2>5. QED
    BY <1>0, <1>8, <1>f, <2>2, <2>3, <2>4 DEF RestoreKey, DataTypes
<1>9. CASE Generate(t)
  <2>1. vault' \in [Handles -> Keys \cup {NoKey}]
    <3>1. th[t].key \in Keys
      BY <1>9, <1>k DEF Generate
    <3>2. \/ UNCHANGED vault
          \/ \E h \in Handles : vault' = [vault EXCEPT ![h] = th[t].key]
      BY <1>9 DEF Generate
    <3>3. QED
      BY <1>0, <3>1, <3>2 DEF DataTypes
  <2>2. Fault \/ UNCHANGED errors
    BY <1>9 DEF Generate
  <2>3. QED
    BY <1>0, <1>9, <1>f, <2>1, <2>2 DEF Generate, DataTypes, procVars
<1>10. CASE StampKey(t)
  <2>1. /\ th[t].key \in Keys
        /\ [st |-> "live", handle |-> th[t].handle, epoch |-> part[ProcOf[t]]] \in KeyRecs
        /\ th[t].handle \in Handles
    BY <1>10, <1>0, <1>k DEF StampKey, RecordOK, DataTypes, KeyRecs
  <2>2. /\ key' \in [Keys -> KeyRecs]
        /\ \A k \in Keys : key'[k].st = "live" => key'[k].handle \in Handles
    BY <1>0, <1>10, <2>1 DEF StampKey, DataTypes
  <2>3. astray' \in BOOLEAN
    BY <1>0, <1>10 DEF StampKey, DataTypes, HandleMissed, SessionBehind
  <2>4. QED
    BY <1>0, <1>10, <2>2, <2>3 DEF StampKey, DataTypes, device
<1>11. CASE Open(t)
  <2>1. devSess' \in [Procs -> {"none", "valid", "reneg"}]
    BY <1>0, <1>11 DEF Open, DataTypes
  <2>2. Fault \/ UNCHANGED errors
    BY <1>11 DEF Open
  <2>3. QED
    BY <1>0, <1>11, <1>f, <2>1, <2>2 DEF Open, DataTypes, procVars
<1>12. CASE StampSession(t)
  BY <1>0, <1>12 DEF StampSession, DataTypes, device, faults
<1>13. CASE DeleteCheck(t)
  <2>1. th[t].call = "delete"
    BY <1>0, <1>13 DEF DeleteCheck, RecordOK, CallsAt
  <2>2. /\ key' \in [Keys -> KeyRecs]
        /\ \A k \in Keys : key'[k].st = "live" => key'[k].handle \in Handles
    BY <1>0, <1>13, <1>d, <2>1 DEF DeleteCheck, DataTypes
  <2>3. QED
    BY <1>0, <1>13, <2>2 DEF DeleteCheck, DataTypes, device, faults
<1>14. CASE Erase(t)
  <2>1. th[t].call = "delete"
    BY <1>0, <1>14 DEF Erase, RecordOK, CallsAt
  <2>2. /\ key' \in [Keys -> KeyRecs]
        /\ \A k \in Keys : key'[k].st = "live" => key'[k].handle \in Handles
    BY <1>0, <1>14, <1>d, <2>1 DEF Erase, DataTypes
  <2>3. vault' \in [Handles -> Keys \cup {NoKey}]
    BY <1>0, <1>14 DEF Erase, DataTypes
  <2>4. Fault \/ UNCHANGED errors
    BY <1>14 DEF Erase
  <2>5. QED
    BY <1>0, <1>14, <1>f, <2>2, <2>3, <2>4 DEF Erase, DataTypes
<1>15. CASE InitNonce(t)
  BY <1>0, <1>15, <1>f DEF InitNonce, Initialised, DataTypes, device
<1>16. CASE InitEstablish(t)
  BY <1>0, <1>16, <1>f DEF InitEstablish, Initialised, DataTypes
<1>17. QED
  BY <1>1, <1>2, <1>3, <1>4, <1>5, <1>6, <1>7, <1>8, <1>9, <1>10, <1>11, <1>12,
     <1>13, <1>14, <1>15, <1>16, <1>dr, <1>en, <1>ow DEF Step

-----------------------------------------------------------------------------
(* Epochs                                                                   *)

\* DownInv without the threads.
NothingStamped ==
    \A p \in Procs : ~up[p] =>
        /\ ~sessOpen[p]
        /\ \A k \in Keys : KeyProc[k] = p => key[k].st # "live"

\* What every step of a call does to the epochs.
EpochPost(t) ==
    /\ EpochsOrdered'
    /\ Grows
    /\ NothingStamped'
    /\ \/ UNCHANGED up
       \/ /\ th[t].call = "init" /\ th'[t] = Idle
          /\ up' = [up EXCEPT ![ProcOf[t]] = TRUE]

\* Errors are only counted up.
LEMMA StepErrors ==
    ASSUME IInv, NEW t \in Threads, Step(t)
    PROVE  errors \in Nat /\ errors' \in Nat /\ errors' >= errors
<1>1. errors \in Nat
  BY ConstantsAssumption DEF IInv, TypeOK
<1>2. Fault \/ errors' = errors
  BY DEF Step, Enter, Check, Use, Recover, Drain, Lock, Establish, Apply, ReopenSession,
         RestoreKey, Generate, StampKey, Open, StampSession, Own, DeleteCheck, Erase,
         InitNonce, InitEstablish, faults
<1>3. QED
  BY <1>1, <1>2 DEF Fault

\* A partition whose epoch stays put remains written.
LEMMA StaysWritten ==
    ASSUME NEW p, Written(p), part[p] \in Nat, store \in Nat, store' \in Nat, errors \in Nat,
           errors' \in Nat, errors' >= errors, store' >= store, part'[p] = part[p]
    PROVE  Written(p)'
BY DEF Written

\* Steps that leave the epochs alone, and at most delete keys.
LEMMA EpochsKept ==
    ASSUME IInv, NEW t \in Threads, UNCHANGED <<store, up, part, sessOpen, sessEpoch>>,
           errors \in Nat, errors' \in Nat, errors' >= errors,
           \A k \in Keys : key'[k].st = "live" => key'[k] = key[k]
    PROVE  EpochPost(t)
<1>1. \A p \in Procs : Written(p) => Written(p)'
  BY StaysWritten DEF IInv, TypeOK
<1>2. QED
  BY <1>1 DEF IInv, TypeOK, EpochPost, EpochsOrdered, Grows, NothingStamped, DownInv

\* A recovery moves the epoch of its partition forward, never ahead of storage
\* but by the write that failed.
LEMMA PartAdvances ==
    ASSUME IInv, NEW t \in Threads, NEW v \in Nat, ProcOf[t] \in Procs,
           part' = [part EXCEPT ![ProcOf[t]] = v],
           v >= part[ProcOf[t]], v <= store' \/ (errors' > 0 /\ v = store' + 1),
           store' \in Nat, store' >= store,
           errors \in Nat, errors' \in Nat, errors' >= errors,
           UNCHANGED <<up, sessOpen, sessEpoch, key>>
    PROVE  EpochPost(t)
<1>0. part \in [Procs -> Nat] /\ store \in Nat
  BY DEF IInv, TypeOK
<1>1. \A p \in Procs : part'[p] >= part[p] /\ (Written(p) => Written(p)')
  <2>1. part'[ProcOf[t]] = v /\ \A p \in Procs \ {ProcOf[t]} : part'[p] = part[p]
    BY <1>0
  <2>2. ASSUME NEW p \in Procs
        PROVE  part'[p] >= part[p] /\ (Written(p) => Written(p)')
    <3>1. part[p] \in Nat
      BY <1>0
    <3>2. CASE p = ProcOf[t]
      BY <2>1, <3>2 DEF Written
    <3>3. CASE p # ProcOf[t]
      <4>1. part'[p] = part[p]
        BY <2>1, <3>3
      <4>2. QED
        BY <1>0, <3>1, <4>1, StaysWritten
    <3>4. QED
      BY <3>2, <3>3
  <2>3. QED
    BY <2>2
<1>2. \A p \in Procs : part'[p] \in Nat /\ part[p] \in Nat /\ sessEpoch[p] \in Nat
  BY DEF IInv, TypeOK
<1>3. \A k \in Keys : key[k].epoch \in Nat
  BY DEF IInv, TypeOK
<1>4. EpochsOrdered'
  BY <1>1, <1>2, <1>3 DEF IInv, EpochsOrdered
<1>5. Grows
  BY <1>1, <1>3 DEF Grows
<1>6. NothingStamped'
  BY DEF IInv, DownInv, NothingStamped
<1>7. QED
  BY <1>4, <1>5, <1>6 DEF EpochPost

\* The steps of a call keep the epochs in order and never take one back.
LEMMA StepEpochs ==
    ASSUME IInv, NEW t \in Threads, Step(t)
    PROVE  EpochPost(t)
<1> USE DEF At
<1>0. /\ DataTypes /\ th \in [Threads -> ThreadRecs] /\ RecordOK(t, th[t])
      /\ ProcOf[t] \in Procs
  BY TypeSplit, ConstantsAssumption DEF IInv, CallInv
<1> DEFINE p == ProcOf[t]
           k == th[t].key
<1>c. th[t].call \in CallsAt(th[t].pc)
  BY <1>0 DEF RecordOK
<1>k. th[t].call \in {"op", "gen", "delete"} => k \in Keys /\ KeyProc[k] = p
  BY <1>0 DEF RecordOK
<1>u. th[t].call \notin {"none", "init"} => up[p]
  BY <1>0 DEF IInv, DownInv
<1>s. /\ store \in Nat /\ part[p] \in Nat /\ sessEpoch[p] \in Nat
      /\ up[p] => part[p] <= store + 1
  BY <1>0 DEF DataTypes, IInv, EpochsOrdered, Written
<1>g. errors \in Nat /\ errors' \in Nat /\ errors' >= errors
  BY StepErrors
<1>w. ASSUME NEW q \in Procs, Written(q), part'[q] = part[q], store' = store PROVE Written(q)'
  BY <1>0, <1>w, <1>g, StaysWritten DEF DataTypes
<1>d. ASSUME k \in Keys, MarkDeleted(k)
      PROVE  \A j \in Keys : key'[j].st = "live" => key'[j] = key[j]
  BY <1>0, <1>d DEF MarkDeleted, DataTypes, KeyRecs
<1>i. ASSUME th[t].call = "init", Initialised(p), Return(t), UNCHANGED <<store, sessOpen, sessEpoch, key>>
      PROVE  EpochPost(t)
  <2>1. ~up[p] /\ ~sessOpen[p] /\ \A j \in Keys : KeyProc[j] = p => key[j].st # "live"
    BY <1>0, <1>i DEF IInv, OneInit, DownInv
  <2>2. /\ \A q \in Procs \ {p} : up'[q] = up[q] /\ part'[q] = part[q]
        /\ up'[p] = TRUE /\ part'[p] = store
    BY <1>0, <1>i DEF Initialised, DataTypes
  <2>3. EpochsOrdered'
    <3>1. Written(p)'
      BY <1>i, <1>s, <2>2 DEF Written
    <3>2. QED
      BY <1>0, <1>i, <1>s, <1>w, <2>1, <2>2, <3>1 DEF IInv, EpochsOrdered
  <2>4. Grows
    <3>1. \A q \in Procs : up[q] /\ up'[q] => part'[q] >= part[q]
      BY <1>0, <2>1, <2>2 DEF DataTypes
    <3>2. \A j \in Keys : key'[j].epoch >= key[j].epoch
      BY <1>0, <1>i DEF DataTypes, KeyRecs
    <3>3. QED
      BY <1>i, <1>s, <3>1, <3>2 DEF Grows
  <2>5. NothingStamped'
    BY <1>i, <2>2 DEF IInv, DownInv, NothingStamped
  <2>6. th'[t] = Idle /\ up' = [up EXCEPT ![p] = TRUE]
    BY <1>0, <1>i, AfterReturn DEF Initialised
  <2>7. QED
    BY <1>i, <2>3, <2>4, <2>5, <2>6 DEF EpochPost
<1>1. CASE Check(t)
  BY <1>1, <1>g, EpochsKept DEF Check, procVars
<1>2. CASE Use(t)
  BY <1>2, <1>g, EpochsKept DEF Use, procVars
<1>3. CASE Recover(t)
  BY <1>3, <1>g, EpochsKept DEF Recover, procVars
<1>dr. CASE Drain(t)
  BY <1>dr, <1>g, EpochsKept DEF Drain, procVars
<1>en. CASE Enter(t)
  BY <1>en, <1>g, EpochsKept DEF Enter, procVars
<1>ow. CASE Own(t)
  BY <1>ow, <1>g, EpochsKept DEF Own, procVars
<1>4. CASE Lock(t)
  <2>1. CASE UNCHANGED part
    BY <1>4, <2>1, <1>g, EpochsKept DEF Lock
  <2>2. CASE store > part[p] /\ part' = [part EXCEPT ![p] = store]
    <3>1. UNCHANGED <<store, up, sessOpen, sessEpoch, key>>
      BY <1>4 DEF Lock
    <3>2. store >= part[p] /\ store <= store' /\ store' \in Nat /\ store' >= store
      BY <1>s, <2>2, <3>1
    <3>3. QED
      BY <1>0, <1>s, <1>g, <2>2, <3>1, <3>2, PartAdvances
  <2>3. QED
    BY <1>4, <2>1, <2>2 DEF Lock, SyncEpoch
<1>5. CASE Establish(t)
  BY <1>5, <1>g, EpochsKept DEF Establish, procVars
<1>6. CASE Apply(t)
  <2>1. up[p]
    BY <1>6, <1>c, <1>u DEF Apply, CallsAt, InInit
  <2>2. CASE UNCHANGED <<part, store>>
    BY <1>6, <2>2, <1>g, EpochsKept DEF Apply
  <2>3. CASE /\ part' = [part EXCEPT ![p] = store + 1]
             /\ store' = store + 1 \/ (Fault /\ store' = store)
    <3>1. UNCHANGED <<up, sessOpen, sessEpoch, key>>
      BY <1>6 DEF Apply
    <3>2. /\ store + 1 \in Nat /\ store + 1 >= part[p]
          /\ store + 1 <= store' \/ (errors' > 0 /\ store + 1 = store' + 1)
          /\ store' \in Nat /\ store' >= store
      <4>1. store \in Nat /\ part[p] <= store + 1 /\ part[p] \in Nat
        BY <1>s, <2>1
      <4>2. CASE Fault /\ store' = store
        BY <1>g, <4>1, <4>2 DEF Fault
      <4>3. CASE store' = store + 1
        BY <4>1, <4>3
      <4>4. QED
        BY <2>3, <4>2, <4>3
    <3>3. QED
      BY <1>0, <1>g, <2>3, <3>1, <3>2, PartAdvances
  <2>4. QED
    BY <1>6, <2>2, <2>3 DEF Apply
<1>7. CASE ReopenSession(t)
  <2>1. CASE UNCHANGED sessEpoch
    BY <1>7, <2>1, <1>g, EpochsKept DEF ReopenSession
  <2>2. CASE sessEpoch' = [sessEpoch EXCEPT ![p] = part[p]]
    <3>1. \A q \in Procs : sessEpoch'[q] = sessEpoch[q] \/ sessEpoch'[q] = part[q]
      BY <1>0, <2>2 DEF DataTypes
    <3>2. UNCHANGED <<store, up, part, sessOpen, key>>
      BY <1>7 DEF ReopenSession
    <3>3. EpochsOrdered'
      BY <1>0, <1>w, <3>1, <3>2 DEF IInv, EpochsOrdered, DataTypes
    <3>4. Grows /\ NothingStamped'
      BY <1>0, <3>2 DEF IInv, DownInv, NothingStamped, Grows, DataTypes, KeyRecs
    <3>5. QED
      BY <3>2, <3>3, <3>4 DEF EpochPost
  <2>3. QED
    BY <1>7, <2>1, <2>2 DEF ReopenSession
<1>e. ASSUME k \in Keys, KeyProc[k] = p, up[p],
             UNCHANGED <<store, up, part, sessOpen, sessEpoch>>,
             \A j \in Keys \ {k} : key'[j] = key[j],
             key'[k].epoch = part[p]
      PROVE  EpochPost(t)
  <2>1. EpochsOrdered'
    BY <1>0, <1>w, <1>e DEF IInv, EpochsOrdered, DataTypes
  <2>2. \A j \in Keys : key[j].st = "live" => key'[j].epoch >= key[j].epoch
    BY <1>0, <1>e DEF IInv, EpochsOrdered, DataTypes, KeyRecs
  <2>3. NothingStamped'
    BY <1>e DEF IInv, DownInv, NothingStamped
  <2>4. QED
    BY <1>0, <1>e, <2>1, <2>2, <2>3 DEF EpochPost, Grows, DataTypes
<1>8. CASE RestoreKey(t)
  <2>1. k \in Keys /\ KeyProc[k] = p /\ up[p]
    BY <1>8, <1>c, <1>k, <1>u DEF RestoreKey, CallsAt
  <2>2. CASE UNCHANGED key
    BY <1>8, <2>2, <1>g, EpochsKept DEF RestoreKey
  <2>3. CASE \E h \in Handles :
               key' = [key EXCEPT ![k].handle = h, ![k].epoch = part[p]]
    <3>1. \A j \in Keys \ {k} : key'[j] = key[j]
      BY <2>3, <1>0 DEF DataTypes
    <3>2. key'[k].epoch = part[p]
      BY <2>1, <2>3, <1>0 DEF DataTypes, KeyRecs
    <3>3. QED
      BY <1>8, <1>e, <2>1, <3>1, <3>2 DEF RestoreKey
  <2>4. QED
    BY <1>8, <2>2, <2>3 DEF RestoreKey
<1>9. CASE Generate(t)
  BY <1>9, <1>g, EpochsKept DEF Generate, procVars
<1>10. CASE StampKey(t)
  <2>1. k \in Keys /\ KeyProc[k] = p /\ up[p]
    BY <1>10, <1>k, <1>u DEF StampKey
  <2>2. (\A j \in Keys \ {k} : key'[j] = key[j]) /\ key'[k].epoch = part[p]
    BY <1>10, <2>1, <1>0 DEF StampKey, DataTypes
  <2>3. QED
    BY <1>10, <1>e, <2>1, <2>2 DEF StampKey
<1>11. CASE Open(t)
  BY <1>11, <1>g, EpochsKept DEF Open, procVars
<1>12. CASE StampSession(t)
  <2>1. up[p]
    BY <1>12, <1>u DEF StampSession
  <2>2. /\ \A q \in Procs \ {p} : sessEpoch'[q] = sessEpoch[q] /\ sessOpen'[q] = sessOpen[q]
        /\ sessEpoch'[p] = part[p]
        /\ UNCHANGED <<store, up, part, key>>
    BY <1>0, <1>12 DEF StampSession, DataTypes
  <2>3. EpochsOrdered'
    BY <1>0, <1>w, <2>2 DEF IInv, EpochsOrdered, DataTypes
  <2>4. Grows /\ NothingStamped'
    BY <1>0, <2>1, <2>2 DEF IInv, DownInv, NothingStamped, Grows, DataTypes, KeyRecs
  <2>5. QED
    BY <2>2, <2>3, <2>4 DEF EpochPost
<1>13. CASE DeleteCheck(t)
  <2>1. k \in Keys
    BY <1>13, <1>c, <1>k DEF DeleteCheck, CallsAt
  <2>2. \A j \in Keys : key'[j].st = "live" => key'[j] = key[j]
    BY <1>13, <1>d, <2>1 DEF DeleteCheck
  <2>3. QED
    BY <1>13, <2>2, <1>g, EpochsKept DEF DeleteCheck
<1>14. CASE Erase(t)
  <2>1. k \in Keys
    BY <1>14, <1>c, <1>k DEF Erase, CallsAt
  <2>2. \A j \in Keys : key'[j].st = "live" => key'[j] = key[j]
    BY <1>14, <1>d, <2>1 DEF Erase
  <2>3. QED
    BY <1>14, <2>2, <1>g, EpochsKept DEF Erase
<1>15. CASE InitNonce(t)
  <2>1. th[t].call = "init"
    BY <1>15, <1>c DEF InitNonce, CallsAt, InInit
  <2>2. CASE UNCHANGED <<up, part>>
    BY <1>15, <2>2, <1>g, EpochsKept DEF InitNonce
  <2>3. QED
    BY <1>15, <1>i, <2>1, <2>2 DEF InitNonce
<1>16. CASE InitEstablish(t)
  <2>1. th[t].call = "init"
    BY <1>16, <1>c DEF InitEstablish, CallsAt, InInit
  <2>2. CASE UNCHANGED <<up, part>>
    BY <1>16, <2>2, <1>g, EpochsKept DEF InitEstablish
  <2>3. QED
    BY <1>16, <1>i, <2>1, <2>2 DEF InitEstablish
<1>17. QED
  BY <1>1, <1>2, <1>3, <1>4, <1>5, <1>6, <1>7, <1>8, <1>9, <1>10, <1>11, <1>12,
     <1>13, <1>14, <1>15, <1>16, <1>dr, <1>en, <1>ow DEF Step

-----------------------------------------------------------------------------
(* The inductive invariant                                                  *)

\* The steps of a call keep the invariant.
LEMMA StepIInv ==
    ASSUME IInv, NEW t \in Threads, Step(t)
    PROVE  IInv' /\ Grows
<1>1. ThreadPost(t) /\ DataTypes' /\ EpochPost(t)
  BY StepThreads, StepTypes, StepEpochs
<1>2. TypeOK'
  BY <1>1, TypeSplit DEF ThreadPost, DataTypes, TypeOK, ThreadRecs, KeyRecs, Calls
<1>3. CallInv'
  BY <1>1 DEF IInv, CallInv, ThreadPost, Others, RecordOK
<1>4. \A u \in Threads : th'[u].call \in {th[u].call, "none"}
  BY <1>1 DEF ThreadPost, Others
<1>5. DownInv'
  <2>1. \A q \in Procs : ~up'[q] => ~up[q]
    BY <1>1 DEF EpochPost, IInv, TypeOK
  <2>2. QED
    BY <1>1, <1>4, <2>1 DEF EpochPost, NothingStamped, IInv, DownInv
<1>6. OneInit'
  <2>1. CASE UNCHANGED up
    BY <1>4, <2>1 DEF IInv, OneInit
  <2>2. CASE /\ th[t].call = "init" /\ th'[t] = Idle
             /\ up' = [up EXCEPT ![ProcOf[t]] = TRUE]
    <3>1. th'[t].call = "none"
      BY <2>2 DEF Idle
    <3>2. ASSUME NEW u \in Threads, th'[u].call = "init"
          PROVE  ProcOf[u] # ProcOf[t] /\ ~up'[ProcOf[u]]
      <4>1. th[u].call = "init" /\ u # t
        BY <1>4, <3>1, <3>2
      <4>2. ProcOf[u] # ProcOf[t] /\ ~up[ProcOf[u]]
        BY <2>2, <4>1 DEF IInv, OneInit
      <4>3. ProcOf[u] \in Procs
        BY ConstantsAssumption
      <4>4. QED
        BY <2>2, <4>2, <4>3 DEF IInv, TypeOK
    <3>3. QED
      BY <1>4, <3>2 DEF IInv, OneInit
  <2>3. QED
    BY <1>1, <2>1, <2>2 DEF EpochPost
<1>7. QED
  BY <1>1, <1>2, <1>3, <1>5, <1>6 DEF IInv, EpochPost

\* So does the beginning of a call.
LEMMA StartIInv ==
    ASSUME IInv, NEW t \in Threads, Start(t)
    PROVE  IInv' /\ Grows
<1>0. /\ DataTypes /\ th \in [Threads -> ThreadRecs]
      /\ ProcOf[t] \in Procs
  BY TypeSplit, ConstantsAssumption DEF IInv
<1>b. ASSUME NEW call \in {"op", "gen", "delete", "open", "init"}, NEW k \in Keys \cup {NoKey},
             NEW pc \in Pcs \ ({"stamp"} \cup Restoring), Begin(t, call, k, pc),
             call \in CallsAt(pc),
             call \in {"op", "gen", "delete"} => k \in Keys /\ KeyProc[k] = ProcOf[t],
             IF call = "init"
             THEN ~up[ProcOf[t]] /\ \A u \in Peers(t) : th[u].call # "init"
             ELSE up[ProcOf[t]],
             UNCHANGED <<device, store, procVars, faults>>
      PROVE  IInv' /\ Grows
  <2>1. /\ th' \in [Threads -> ThreadRecs]
        /\ Others(t)
        /\ th'[t].call = call /\ th'[t].pc = pc /\ th'[t].key = k
    <3>1. [Idle EXCEPT !.pc = pc, !.call = call, !.key = k] \in ThreadRecs
      BY <1>b, IdleOK DEF ThreadRecs, Calls
    <3>2. th' = [th EXCEPT ![t] = [Idle EXCEPT !.pc = pc, !.call = call, !.key = k]]
      BY <1>b DEF Begin
    <3>3. QED
      BY <1>0, <3>1, <3>2 DEF Others, Idle
  <2>2. TypeOK'
    BY <1>0, <1>b, <2>1 DEF DataTypes, TypeOK, ThreadRecs, KeyRecs, Calls, device, procVars, faults
  <2>3. CallInv'
    <3>1. RecordOK(t, th'[t])
      BY <1>b, <2>1 DEF RecordOK
    <3>2. QED
      BY <2>1, <3>1 DEF IInv, CallInv, Others, RecordOK
  <2>4. DownInv'
    BY <1>b, <2>1 DEF IInv, DownInv, Others, procVars
  <2>5. OneInit'
    <3>1. CASE call # "init"
      BY <1>b, <2>1, <3>1 DEF IInv, OneInit, Others, procVars
    <3>2. CASE call = "init"
      <4>1. \A u \in Threads \ {t} : ProcOf[u] = ProcOf[t] => th'[u].call # "init"
        BY <1>b, <2>1, <3>2 DEF Peers, Others
      <4>2. QED
        BY <1>b, <2>1, <3>2, <4>1 DEF IInv, OneInit, Others, procVars
    <3>3. QED
      BY <3>1, <3>2
  <2>6. EpochsOrdered' /\ Grows
    BY <1>0, <1>b DEF IInv, EpochsOrdered, Written, Grows, procVars, faults, DataTypes, KeyRecs
  <2>7. QED
    BY <2>2, <2>3, <2>4, <2>5, <2>6 DEF IInv
<1>n. /\ {"check", "try", "own", "init"} \subseteq Pcs \ ({"stamp"} \cup Restoring)
      /\ "op" \in CallsAt("check") /\ "gen" \in CallsAt("try") /\ "open" \in CallsAt("try")
      /\ "delete" \in CallsAt("own") /\ "init" \in CallsAt("init")
  BY DEF Pcs, Restoring, CallsAt, InInit
<1>1. ASSUME NEW k \in Keys, StartOp(t, k) PROVE IInv' /\ Grows
  BY <1>1, <1>b, <1>n DEF StartOp
<1>2. ASSUME NEW k \in Keys, StartGenerate(t, k) PROVE IInv' /\ Grows
  BY <1>2, <1>b, <1>n DEF StartGenerate
<1>3. ASSUME NEW k \in Keys, StartDelete(t, k) PROVE IInv' /\ Grows
  BY <1>3, <1>b, <1>n DEF StartDelete
<1>4. CASE StartOpen(t)
  BY <1>4, <1>b, <1>n DEF StartOpen
<1>5. CASE StartInit(t)
  BY <1>5, <1>b, <1>n DEF StartInit
<1>6. CASE CloseSession(t)
  <2>1. /\ \A q \in Procs \ {ProcOf[t]} : sessOpen'[q] = sessOpen[q] /\ sessEpoch'[q] = sessEpoch[q]
        /\ ~sessOpen'[ProcOf[t]]
        /\ sessOpen' \in [Procs -> BOOLEAN] /\ sessEpoch' \in [Procs -> Nat]
        /\ UNCHANGED <<cred, store, up, part, key, th, resets, astray>>
    BY <1>0, <1>6 DEF CloseSession, DataTypes
  <2>2. /\ devSess' \in [Procs -> {"none", "valid", "reneg"}]
        /\ vault' \in [Handles -> Keys \cup {NoKey}]
    BY <1>0, <1>6 DEF CloseSession, DataTypes
  <2>3. errors' \in 0 .. MaxErrors
    BY <1>0, <1>6, ConstantsAssumption DEF CloseSession, DataTypes, Fault
  <2>4. TypeOK'
    BY <1>0, <2>1, <2>2, <2>3 DEF DataTypes, TypeOK, ThreadRecs, KeyRecs, Calls
  <2>5. CallInv' /\ OneInit'
    BY <2>1 DEF IInv, CallInv, OneInit, RecordOK
  <2>6. DownInv'
    BY <2>1 DEF IInv, DownInv
  <2>7. EpochsOrdered' /\ Grows
    <3>1. errors \in Nat /\ errors' \in Nat /\ errors' >= errors
      BY <1>0, <1>6, ConstantsAssumption DEF CloseSession, DataTypes, Fault
    <3>2. \A q \in Procs : Written(q) => Written(q)'
      BY <1>0, <2>1, <3>1, StaysWritten DEF DataTypes
    <3>3. QED
      BY <1>0, <2>1, <3>2 DEF IInv, EpochsOrdered, Grows, DataTypes, KeyRecs
  <2>8. QED
    BY <2>4, <2>5, <2>6, <2>7 DEF IInv
<1>7. QED
  BY <1>1, <1>2, <1>3, <1>4, <1>5, <1>6 DEF Start

\* The death of a process takes everything that was stamped with its epoch.
LEMMA CrashIInv ==
    ASSUME IInv, NEW p \in Procs, Crash(p)
    PROVE  IInv' /\ Grows
<1>0. DataTypes /\ th \in [Threads -> ThreadRecs]
  BY TypeSplit DEF IInv
<1> DEFINE gone == [st |-> "none", handle |-> 0, epoch |-> 0]
<1>1. /\ \A q \in Procs \ {p} : /\ up'[q] = up[q] /\ part'[q] = part[q]
                                /\ sessOpen'[q] = sessOpen[q] /\ sessEpoch'[q] = sessEpoch[q]
      /\ ~up'[p] /\ ~sessOpen'[p]
      /\ up' \in [Procs -> BOOLEAN] /\ part' \in [Procs -> Nat]
      /\ sessOpen' \in [Procs -> BOOLEAN] /\ sessEpoch' \in [Procs -> Nat]
      /\ UNCHANGED <<cred, store, resets, errors, astray>>
  BY <1>0 DEF Crash, DataTypes, faults
<1>2. /\ \A k \in Keys : key'[k] = IF KeyProc[k] = p THEN gone ELSE key[k]
      /\ key' \in [Keys -> KeyRecs]
  <2>1. gone \in KeyRecs
    BY DEF KeyRecs
  <2> HIDE DEF gone
  <2>2. key' = [k \in Keys |-> IF KeyProc[k] = p THEN gone ELSE key[k]]
    BY DEF Crash, gone
  <2>3. QED
    BY <1>0, <2>1, <2>2 DEF DataTypes
<1>3. /\ \A t \in Threads : th'[t] = IF ProcOf[t] = p THEN Idle ELSE th[t]
      /\ th' \in [Threads -> ThreadRecs]
  BY <1>0, IdleOK DEF Crash
<1>4. /\ devSess' \in [Procs -> {"none", "valid", "reneg"}]
      /\ vault' \in [Handles -> Keys \cup {NoKey}]
  BY <1>0 DEF Crash, DataTypes
<1>5. TypeOK'
  <2>1. \A k \in Keys : key'[k].st = "live" => key'[k].handle \in Handles
    BY <1>0, <1>2 DEF DataTypes
  <2> HIDE DEF gone
  <2>2. QED
    BY <1>0, <1>1, <1>2, <1>3, <1>4, <2>1 DEF DataTypes, TypeOK, ThreadRecs, KeyRecs, Calls
<1>6. CallInv'
  BY <1>3, IdleOK DEF IInv, CallInv, RecordOK
<1>7. Idle.call = "none"
  BY DEF Idle
<1>8. DownInv'
  BY <1>1, <1>2, <1>3, <1>7 DEF IInv, DownInv
<1>9. OneInit'
  <2>1. \A t \in Threads : th'[t].call = "init" => th[t].call = "init" /\ ProcOf[t] # p
    BY <1>3, <1>7
  <2>2. \A t \in Threads : ProcOf[t] \in Procs
    BY ConstantsAssumption
  <2>3. QED
    BY <1>1, <2>1, <2>2 DEF IInv, OneInit
<1>10. EpochsOrdered'
  BY <1>1, <1>2 DEF IInv, EpochsOrdered, Written
<1>11. Grows
  BY <1>0, <1>1, <1>2 DEF Grows, DataTypes, KeyRecs
<1>12. QED
  BY <1>5, <1>6, <1>8, <1>9, <1>10, <1>11 DEF IInv

\* A reset touches no epoch.
LEMMA ResetIInv ==
    ASSUME IInv, Reset
    PROVE  IInv' /\ Grows
<1>0. DataTypes /\ th \in [Threads -> ThreadRecs]
  BY TypeSplit DEF IInv
<1>1. /\ \A t \in Threads : /\ th'[t].pc = th[t].pc /\ th'[t].call = th[t].call
                            /\ th'[t].key = th[t].key /\ th'[t].handle = th[t].handle
                            /\ th'[t].attempt = th[t].attempt
      /\ th' \in [Threads -> ThreadRecs]
  BY <1>0 DEF Reset, ThreadRecs
<1>2. UNCHANGED <<store, up, part, sessOpen, sessEpoch, key, errors, astray>>
  BY DEF Reset, procVars
<1>3. /\ cred' \in BOOLEAN
      /\ devSess' \in [Procs -> {"none", "valid", "reneg"}]
      /\ vault' \in [Handles -> Keys \cup {NoKey}]
      /\ resets' \in 0 .. MaxResets
  <2>1. resets' \in 0 .. MaxResets
    BY <1>0, ConstantsAssumption DEF Reset, DataTypes
  <2>2. devSess' \in [Procs -> {"none", "valid", "reneg"}]
    BY <1>0 DEF Reset, DataTypes
  <2>3. vault' \in [Handles -> Keys \cup {NoKey}]
    BY DEF Reset
  <2>4. QED
    BY <2>1, <2>2, <2>3 DEF Reset
<1>4. TypeOK'
  BY <1>0, <1>1, <1>2, <1>3 DEF DataTypes, TypeOK, ThreadRecs, KeyRecs, Calls
<1>5. CallInv' /\ DownInv' /\ OneInit'
  BY <1>1, <1>2 DEF IInv, CallInv, RecordOK, DownInv, OneInit
<1>6. EpochsOrdered' /\ Grows
  BY <1>0, <1>2 DEF IInv, EpochsOrdered, Written, Grows, DataTypes, KeyRecs
<1>7. QED
  BY <1>4, <1>5, <1>6 DEF IInv

\* The invariant holds initially.
LEMMA InitIInv == Init => IInv
<1> SUFFICES ASSUME Init PROVE IInv
  OBVIOUS
<1>1. PICK f \in [Loaded -> Handles] :
        /\ vault = [h \in Handles |-> IF \E k \in Loaded : f[k] = h
                                      THEN CHOOSE k \in Loaded : f[k] = h
                                      ELSE NoKey]
        /\ key = [k \in Keys |->
                    IF k \in Loaded
                    THEN [st |-> "live", handle |-> f[k], epoch |-> 0]
                    ELSE [st |-> "none", handle |-> 0, epoch |-> 0]]
  BY DEF Init
<1>2. vault \in [Handles -> Keys \cup {NoKey}]
  BY <1>1, ConstantsAssumption
<1>3. /\ key \in [Keys -> KeyRecs]
      /\ \A k \in Keys : key[k].epoch = 0 /\ (key[k].st = "live" => key[k].handle \in Handles)
  BY <1>1, ConstantsAssumption DEF KeyRecs
<1>4. th \in [Threads -> ThreadRecs] /\ \A t \in Threads : th[t] = Idle
  BY IdleOK DEF Init
<1>5. TypeOK
  <2>1. /\ cred \in BOOLEAN /\ devSess \in [Procs -> {"none", "valid", "reneg"}]
        /\ store \in Nat /\ up \in [Procs -> BOOLEAN] /\ part \in [Procs -> Nat]
        /\ sessOpen \in [Procs -> BOOLEAN] /\ sessEpoch \in [Procs -> Nat]
    BY DEF Init
  <2>2. resets = 0 /\ errors = 0 /\ astray \in BOOLEAN
    BY Zenon DEF Init
  <2>3. resets \in 0 .. MaxResets /\ errors \in 0 .. MaxErrors
    BY <2>2, ConstantsAssumption
  <2>4. QED
    BY <1>2, <1>3, <1>4, <2>1, <2>2, <2>3, TypeSplit DEF DataTypes
<1>6. CallInv
  BY <1>4, IdleOK DEF CallInv
<1>7. DownInv
  BY DEF Init, DownInv
<1>8. OneInit
  BY <1>4 DEF OneInit, Idle
<1>9. EpochsOrdered
  BY <1>3 DEF Init, EpochsOrdered, Written
<1>10. QED
  BY <1>5, <1>6, <1>7, <1>8, <1>9 DEF IInv

\* Every step keeps the invariant and moves epochs forward only.
LEMMA NextIInv ==
    ASSUME IInv, [Next]_vars
    PROVE  IInv' /\ (Grows \/ UNCHANGED vars)
<1>1. CASE UNCHANGED vars
  BY <1>1 DEF IInv, vars, device, procVars, faults, TypeOK, CallInv, RecordOK, DownInv,
              OneInit, EpochsOrdered, Written
<1>2. CASE \E t \in Threads : Start(t) \/ Step(t)
  BY <1>2, StartIInv, StepIInv
<1>3. CASE \E p \in Procs : Crash(p)
  BY <1>3, CrashIInv
<1>4. CASE Reset
  BY <1>4, ResetIInv
<1>5. QED
  BY <1>1, <1>2, <1>3, <1>4 DEF Next

\* The invariant is one.
LEMMA AlwaysIInv == Spec => []IInv
BY InitIInv, NextIInv, PTL DEF Spec

\* The state of the device, of storage and of every process is well typed; no
\* retry loop exceeds its budget by more than one attempt.
THEOREM ResiliencyTyped == Spec => []TypeOK
<1>1. IInv => TypeOK
  BY DEF IInv
<1>2. QED
  BY <1>1, AlwaysIInv, PTL

\* However processes restore, race, lose a storage write, die and start again,
\* no session or key carries a later epoch than its partition, and no partition
\* is ahead of storage but by one write that failed.
THEOREM EpochOrder == Spec => []EpochsOrdered
<1>1. IInv => EpochsOrdered
  BY DEF IInv
<1>2. QED
  BY <1>1, AlwaysIInv, PTL

\* The stored epoch, and the epochs of running partitions and of the keys they
\* keep, never go back.
THEOREM EpochsOnlyGrow == Spec => EpochsGrow
<1>1. IInv /\ [Next]_vars => [Grows]_vars
  BY NextIInv
<1>2. QED
  BY <1>1, AlwaysIInv, PTL DEF Spec, EpochsGrow, Grows

-----------------------------------------------------------------------------
(* What a stamp vouches for                                                 *)

\* A session under construction: the device has it, the process not yet.
Opened(t) == th[t].pc = "stamp" /\ th[t].call = "open"

\* Where a process has a session the device keeps a session id; live keys, and
\* the calls that need a session, exist only then; and at most one session is
\* under construction.
SessionInv ==
    /\ \A p \in Procs : sessOpen[p] => devSess[p] # "none"
    /\ \A k \in Keys : key[k].st = "live" => sessOpen[KeyProc[k]]
    /\ \A t \in Threads : th[t].call \in {"op", "gen", "delete"} => sessOpen[ProcOf[t]]
    /\ \A t \in Threads : Opened(t) =>
         /\ ~sessOpen[ProcOf[t]]
         /\ devSess[ProcOf[t]] # "none"
         /\ \A u \in Threads : Opened(u) /\ ProcOf[u] = ProcOf[t] => u = t

\* The barrier's writer, inside or queued.
Writer(t) == HoldsWrite(t) \/ Draining(t)

\* The barrier and the key locks exclude; a key that is being deleted lives
\* until the thread that holds its lock is done.
LockInv ==
    \A t \in Threads :
        /\ Writer(t) => \A u \in Threads \ {t} : ProcOf[u] = ProcOf[t] => ~Writer(u)
        /\ HoldsWrite(t) => \A u \in Threads \ {t} : ProcOf[u] = ProcOf[t] => ~HoldsRead(u)
        /\ HoldsKey(t) => /\ key[th[t].key].st = "live"
                          /\ \A u \in Threads : HoldsKey(u) /\ th[u].key = th[t].key => u = t
        /\ th[t].pc = "reopen" => th[t].call # "open"

\* A key under construction is known to nobody else.
GenInv ==
    \A t \in Threads : th[t].call = "gen" =>
        /\ key[th[t].key].st = "none"
        /\ \A u \in Threads : th[u].key = th[t].key => u = t

\* A live key's stamp is not later than its session's, and if it is the same and
\* the device accepts the session, the handle names the key.
KeySafe(k) ==
    key[k].st = "live" =>
        /\ key[k].epoch <= sessEpoch[KeyProc[k]]
        /\ devSess[KeyProc[k]] = "valid" /\ key[k].epoch = sessEpoch[KeyProc[k]]
             => vault[key[k].handle] = k

\* A live key in use was stamped in the epoch of the session.
UseSafe(t) ==
    Cleared(t) /\ key[th[t].key].st = "live"
        => key[th[t].key].epoch = sessEpoch[ProcOf[t]]

StampsSafe == (\A k \in Keys : KeySafe(k)) /\ (\A t \in Threads : UseSafe(t))

StampInv == ~astray => StampsSafe

SInv == SessionInv /\ LockInv /\ GenInv /\ StampInv

-----------------------------------------------------------------------------
(* Where a step leaves the thread that takes it                             *)

Kept(t) == th'[t].call = th[t].call /\ th'[t].key = th[t].key

Went(t, pc) == Others(t) /\ Kept(t) /\ th'[t].pc = pc

\* The call is over, or it waits for the next attempt without the barrier.
Ended(t) ==
    /\ Others(t)
    /\ \/ th'[t] = Idle
       \/ Kept(t) /\ th'[t].pc \in {"check", "recover", "initAgain"}

\* Resume and Goto change the place and nothing that identifies the call.
LEMMA ResumeGoes ==
    ASSUME th \in [Threads -> ThreadRecs], NEW t \in Threads, NEW pc, NEW n,
           Resume(t, pc, n)
    PROVE  Went(t, pc)
BY DEF Resume, ThreadRecs, Went, Others, Kept

\* The same for Goto.
LEMMA GotoGoes ==
    ASSUME th \in [Threads -> ThreadRecs], NEW t \in Threads, NEW pc, Goto(t, pc)
    PROVE  Went(t, pc)
BY ResumeGoes DEF Goto

\* Every way to fail lets go of the barrier.
LEMMA FailureEnds ==
    ASSUME th \in [Threads -> ThreadRecs], NEW t \in Threads,
           GiveUp(t) \/ Retry(t) \/ Again(t) \/ InitRetry(t) \/ Return(t)
    PROVE  Ended(t)
<1>1. ASSUME Return(t) PROVE Ended(t)
  BY <1>1 DEF Return, Ended, Others
<1>2. ASSUME NEW pc \in {"check", "recover", "initAgain"}, NEW n, Resume(t, pc, n) PROVE Ended(t)
  BY <1>2, ResumeGoes DEF Ended, Went
<1>3. QED
  BY <1>1, <1>2 DEF GiveUp, Retry, Again, InitRetry

\* Which places a step of a call leads to.
LEMMA StepGoes ==
    ASSUME IInv, NEW t \in Threads, Step(t)
    PROVE  \/ Ended(t)
           \/ Enter(t) /\ Went(t, "epoch")
           \/ Check(t) /\ Went(t, "use")
           \/ Recover(t) /\ th[t].call = "open" /\ Went(t, "lock")
           \/ Recover(t) /\ CanQueue(t) /\ Went(t, "drain")
           \/ Drain(t) /\ Went(t, "lock")
           \/ Lock(t) /\ Went(t, "cred")
           \/ (Lock(t) \/ Apply(t)) /\ Went(t, AfterRestore(th[t].call))
           \/ Establish(t) /\ Went(t, "apply")
           \/ ReopenSession(t) /\ Went(t, IF th[t].call = "op" THEN "rekey" ELSE "retry")
           \/ (Generate(t) \/ Open(t)) /\ Went(t, "stamp")
           \/ Own(t) /\ key[th[t].key].st = "live" /\ Went(t, "delete")
           \/ DeleteCheck(t) /\ Went(t, "erase")
           \/ InitNonce(t) /\ Went(t, "initCred")
<1>0. th \in [Threads -> ThreadRecs]
  BY TypeSplit DEF IInv
<1>f. ASSUME GiveUp(t) \/ Retry(t) \/ Again(t) \/ InitRetry(t) \/ Return(t) PROVE Ended(t)
  BY <1>0, <1>f, FailureEnds
<1>w. ASSUME NEW pc \in {"check", "recover", "initAgain"}, Goto(t, pc) PROVE Ended(t)
  BY <1>0, <1>w, GotoGoes DEF Ended, Went
<1>g. ASSUME NEW pc, Goto(t, pc) PROVE Went(t, pc)
  BY <1>0, <1>g, GotoGoes
<1>1. CASE Check(t)
  BY <1>1, <1>f, <1>w, <1>g DEF Check
<1>2. CASE Use(t)
  BY <1>2, <1>f DEF Use
<1>n. ASSUME NoteEpoch(t) PROVE Went(t, "lock")
  BY <1>0, <1>n DEF NoteEpoch, Went, Others, Kept, ThreadRecs
<1>3. CASE Recover(t)
  BY <1>3, <1>g, <1>n DEF Recover
<1>dr. CASE Drain(t)
  BY <1>dr, <1>n DEF Drain
<1>en. CASE Enter(t)
  BY <1>en, <1>g DEF Enter
<1>ow. CASE Own(t)
  BY <1>ow, <1>f, <1>g DEF Own
<1>4. CASE Lock(t)
  <2>1. CASE th' = [th EXCEPT ![t] = [@ EXCEPT !.pc = "cred", !.pre = 0, !.fresh = TRUE]]
    BY <1>0, <1>4, <2>1 DEF Went, Others, Kept, ThreadRecs
  <2>2. CASE SyncEpoch(t)
    BY <1>4, <1>f, <1>g, <2>2 DEF SyncEpoch
  <2>3. QED
    BY <1>4, <1>f, <1>g, <2>1, <2>2 DEF Lock
<1>5. CASE Establish(t)
  BY <1>5, <1>f, <1>g DEF Establish
<1>6. CASE Apply(t)
  BY <1>6, <1>f, <1>g DEF Apply
<1>7. CASE ReopenSession(t)
  <2> DEFINE nxt == IF th[t].call = "op" THEN "rekey" ELSE "retry"
  <2>1. Goto(t, nxt) \/ GiveUp(t)
    BY <1>7 DEF ReopenSession
  <2>2. QED
    BY <1>7, <1>f, <1>g, <2>1
<1>8. CASE RestoreKey(t)
  BY <1>8, <1>f, <1>w DEF RestoreKey
<1>9. CASE Generate(t)
  <2>1. CASE \E h \in Handles : th' = [th EXCEPT ![t].pc = "stamp", ![t].handle = h]
    BY <1>0, <1>9, <2>1 DEF Went, Others, Kept, ThreadRecs
  <2>2. QED
    BY <1>9, <1>f, <2>1 DEF Generate
<1>10. CASE StampKey(t)
  BY <1>10, <1>f DEF StampKey
<1>11. CASE Open(t)
  BY <1>11, <1>f, <1>g DEF Open
<1>12. CASE StampSession(t)
  BY <1>12, <1>f DEF StampSession
<1>13. CASE DeleteCheck(t)
  BY <1>13, <1>f, <1>g DEF DeleteCheck
<1>14. CASE Erase(t)
  BY <1>14, <1>f DEF Erase
<1>15. CASE InitNonce(t)
  <2>1. CASE th' = [th EXCEPT ![t].pc = "initCred", ![t].fresh = TRUE]
    BY <1>0, <1>15, <2>1 DEF Went, Others, Kept, ThreadRecs
  <2>2. QED
    BY <1>15, <1>f, <2>1 DEF InitNonce
<1>16. CASE InitEstablish(t)
  BY <1>16, <1>f DEF InitEstablish
<1>17. QED
  BY <1>1, <1>2, <1>3, <1>4, <1>5, <1>6, <1>7, <1>8, <1>9, <1>10, <1>11, <1>12,
     <1>13, <1>14, <1>15, <1>16, <1>dr, <1>en, <1>ow DEF Step

\* What a step of a call does to the keys: only the thread's own key changes, and
\* its state only when it is deleted or comes into being.
KeyPost(t) ==
    /\ \A k \in Keys \ {th[t].key} : key'[k] = key[k]
    /\ \/ th[t].key \in Keys => key'[th[t].key].st = key[th[t].key].st
       \/ HoldsKey(t) /\ Ended(t) /\ th'[t].pc # "erase" /\ key'[th[t].key].st # "live"
       \/ StampKey(t)

\* Every step does at most that.
LEMMA StepKeys ==
    ASSUME IInv, NEW t \in Threads, Step(t)
    PROVE  KeyPost(t)
<1> USE DEF At
<1>0. /\ th \in [Threads -> ThreadRecs] /\ key \in [Keys -> KeyRecs]
      /\ th[t].call \in CallsAt(th[t].pc)
      /\ th[t].call \in {"op", "gen", "delete"} => th[t].key \in Keys
  BY TypeSplit DEF IInv, CallInv, RecordOK, DataTypes
<1>u. ASSUME UNCHANGED key PROVE KeyPost(t)
  BY <1>u DEF KeyPost
<1>d. ASSUME MarkDeleted(th[t].key), Return(t), th[t].pc \in {"delete", "erase"}
      PROVE  KeyPost(t)
  <2>1. th[t].key \in Keys
    BY <1>0, <1>d DEF CallsAt
  <2>2. /\ \A k \in Keys \ {th[t].key} : key'[k] = key[k]
        /\ key'[th[t].key].st = "deleted"
    BY <1>0, <1>d, <2>1 DEF MarkDeleted, KeyRecs
  <2>3. Ended(t) /\ th'[t] = Idle
    BY <1>0, <1>d, FailureEnds, AfterReturn
  <2>4. HoldsKey(t) /\ th'[t].pc # "erase"
    BY <1>d, <2>3 DEF HoldsKey, Idle
  <2>5. QED
    BY <2>2, <2>3, <2>4 DEF KeyPost
<1>1. CASE RestoreKey(t)
  <2>1. th[t].key \in Keys
    BY <1>0, <1>1 DEF RestoreKey, CallsAt
  <2>2. CASE \E h \in Handles : key' = [key EXCEPT ![th[t].key].handle = h,
                                                 ![th[t].key].epoch = part[ProcOf[t]]]
    BY <1>0, <2>1, <2>2 DEF KeyPost, KeyRecs
  <2>3. QED
    BY <1>1, <1>u, <2>2 DEF RestoreKey
<1>2. CASE StampKey(t)
  BY <1>0, <1>2 DEF StampKey, KeyPost
<1>3. CASE DeleteCheck(t)
  BY <1>3, <1>u, <1>d DEF DeleteCheck
<1>4. CASE Erase(t)
  BY <1>4, <1>u, <1>d DEF Erase
<1>5. CASE \/ Enter(t) \/ Check(t) \/ Use(t) \/ Recover(t) \/ Drain(t) \/ Lock(t)
           \/ Establish(t) \/ Apply(t) \/ ReopenSession(t) \/ Generate(t) \/ Open(t)
           \/ StampSession(t) \/ Own(t)
           \/ InitNonce(t) \/ InitEstablish(t)
  <2>1. UNCHANGED key
    BY <1>5 DEF Enter, Check, Use, Recover, Drain, Lock, Establish, Apply, ReopenSession,
                Generate, Open, StampSession, Own, InitNonce, InitEstablish, procVars
  <2>2. QED
    BY <2>1, <1>u
<1>6. QED
  BY <1>1, <1>2, <1>3, <1>4, <1>5 DEF Step

\* What a step of a call does to the locks.
LockPost(t) ==
    /\ Others(t)
    /\ th'[t] = Idle \/ Kept(t)
    /\ Writer(t)' => Writer(t) \/ CanQueue(t)
    /\ HoldsWrite(t)' => HoldsWrite(t) \/ (Draining(t) /\ CanWrite(t))
    /\ HoldsRead(t)' => HoldsRead(t) \/ CanRead(t)
    /\ Cleared(t)' => /\ th[t].pc \in {"epoch", "delete"} /\ Kept(t)
                      /\ key[th[t].key].epoch = part[ProcOf[t]]
                      /\ UNCHANGED <<device, procVars>>
    /\ HoldsKey(t)' => /\ Kept(t) /\ UNCHANGED key
                       /\ HoldsKey(t) \/ (/\ th[t].pc = "own" /\ KeyFree(th[t].key)
                                          /\ key[th[t].key].st = "live")
    /\ th'[t].pc = "reopen" => th'[t].call # "open"
    /\ Opened(t)' => Open(t) /\ devSess[ProcOf[t]] = "none"

\* Every step does at most that.
LEMMA StepLocks ==
    ASSUME IInv, NEW t \in Threads, Step(t)
    PROVE  LockPost(t)
<1> USE DEF At
<1>0. /\ th \in [Threads -> ThreadRecs]
      /\ th[t].call \in CallsAt(th[t].pc)
  BY TypeSplit DEF IInv, CallInv, RecordOK
<1>1. CASE Ended(t)
  <2>1. Others(t) /\ (th'[t] = Idle \/ Kept(t))
        /\ th'[t].pc \in {"idle", "check", "recover", "initAgain"}
    BY <1>1 DEF Ended, Idle
  <2>2. QED
    BY <2>1 DEF LockPost, HoldsWrite, HoldsRead, HoldsKey, Opened, Writer, Draining, Cleared
<1> DEFINE w == {"lock", "cred", "apply", "reopen", "rekey", "retry"}
<1>w. ASSUME NEW pc \in w, Went(t, pc), th[t].pc \in w, pc = "reopen" => th[t].call # "open"
      PROVE  LockPost(t)
  <2>1. HoldsWrite(t)' => HoldsWrite(t)
    BY <1>w DEF Went, Kept, HoldsWrite
  <2>2. th'[t].pc = pc /\ Others(t) /\ Kept(t)
    BY <1>w DEF Went
  <2>3. pc \notin {"epoch", "use", "erase", "delete", "stamp", "drain"}
    OBVIOUS
  <2>4. QED
    BY <1>w, <2>1, <2>2, <2>3 DEF LockPost, Kept, HoldsRead, HoldsKey, Opened, Writer, Draining, Cleared
<1>2. CASE Check(t) /\ Went(t, "use")
  <2>1. /\ key[th[t].key].epoch = part[ProcOf[t]] /\ th[t].pc = "epoch"
        /\ UNCHANGED <<device, procVars>>
    <3>1. th'[t].pc = "use" /\ "use" # "recover" /\ "use" # "idle"
      BY <1>2 DEF Went
    <3>2. ~Goto(t, "recover") /\ ~Return(t)
      BY <1>0, <3>1, GotoGoes, AfterReturn DEF Went, Idle
    <3>3. QED
      BY <1>2, <3>2 DEF Check
  <2>2. QED
    BY <1>2, <2>1 DEF LockPost, Went, HoldsWrite, HoldsRead, HoldsKey, Opened, Writer, Draining, Cleared
<1>en. CASE Enter(t) /\ Went(t, "epoch")
  <2>1. CanRead(t)
    BY <1>en DEF Enter
  <2>2. QED
    BY <1>en, <2>1 DEF LockPost, Went, HoldsWrite, HoldsRead, HoldsKey, Opened, Writer, Draining, Cleared
<1>3. CASE Recover(t) /\ th[t].call = "open" /\ Went(t, "lock")
  BY <1>3 DEF LockPost, Went, Kept, HoldsWrite, HoldsRead, HoldsKey, Opened, Writer, Draining, Cleared
<1>q. CASE Recover(t) /\ CanQueue(t) /\ Went(t, "drain")
  BY <1>q DEF LockPost, Went, Kept, HoldsWrite, HoldsRead, HoldsKey, Opened, Writer, Draining, Cleared
<1>dr. CASE Drain(t) /\ Went(t, "lock")
  <2>1. Draining(t) /\ CanWrite(t)
    BY <1>dr DEF Drain
  <2>2. QED
    BY <1>dr, <2>1 DEF LockPost, Went, Kept, HoldsWrite, HoldsRead, HoldsKey, Opened, Writer, Draining, Cleared
<1>ow. CASE Own(t) /\ key[th[t].key].st = "live" /\ Went(t, "delete")
  <2>1. th[t].pc = "own" /\ KeyFree(th[t].key) /\ UNCHANGED key
    BY <1>ow DEF Own, procVars
  <2>2. QED
    BY <1>ow, <2>1 DEF LockPost, Went, Kept, HoldsWrite, HoldsRead, HoldsKey, Opened, Writer, Draining, Cleared
<1>4. CASE Lock(t) /\ Went(t, "cred")
  BY <1>4, <1>w DEF Lock
<1>5. CASE (Lock(t) \/ Apply(t)) /\ Went(t, AfterRestore(th[t].call))
  <2>1. AfterRestore(th[t].call) \in w /\ (AfterRestore(th[t].call) = "reopen" => th[t].call # "open")
    BY DEF AfterRestore
  <2>2. th[t].pc \in w
    BY <1>5 DEF Lock, Apply
  <2> HIDE DEF w
  <2>3. QED
    BY <1>5, <1>w, <2>1, <2>2
<1>6. CASE Establish(t) /\ Went(t, "apply")
  BY <1>6, <1>w DEF Establish
<1>7. CASE ReopenSession(t) /\ Went(t, IF th[t].call = "op" THEN "rekey" ELSE "retry")
  BY <1>7, <1>w DEF ReopenSession
<1>8. CASE Generate(t) /\ Went(t, "stamp")
  BY <1>8 DEF Generate, LockPost, Went, Kept, HoldsWrite, HoldsRead, HoldsKey, Opened, Writer, Draining, Cleared
<1>9. CASE Open(t) /\ Went(t, "stamp")
  <2>1. devSess[ProcOf[t]] = "none"
    <3>1. ~Return(t) /\ ~Retry(t)
      BY <1>0, <1>9, FailureEnds DEF Went, Ended, Idle
    <3>2. QED
      BY <1>9, <3>1 DEF Open
  <2>2. QED
    BY <1>9, <2>1 DEF LockPost, Went, Kept, HoldsWrite, HoldsRead, HoldsKey, Opened, Writer, Draining, Cleared
<1>10. CASE DeleteCheck(t) /\ Went(t, "erase")
  <2>1. /\ CanRead(t) /\ key[th[t].key].epoch = part[ProcOf[t]] /\ th[t].pc = "delete"
        /\ UNCHANGED <<device, procVars>>
    <3>1. ~Return(t)
      BY <1>0, <1>10, AfterReturn DEF Went, Idle
    <3>2. QED
      BY <1>10, <3>1 DEF DeleteCheck, procVars
  <2>2. QED
    BY <1>10, <2>1 DEF LockPost, Went, Kept, HoldsWrite, HoldsRead, HoldsKey, Opened, Writer, Draining, Cleared, procVars
<1>11. CASE InitNonce(t) /\ Went(t, "initCred")
  BY <1>11 DEF LockPost, Went, HoldsWrite, HoldsRead, HoldsKey, Opened, Writer, Draining, Cleared
<1>12. QED
  BY StepGoes, <1>1, <1>2, <1>3, <1>4, <1>5, <1>6, <1>7, <1>8, <1>9, <1>10, <1>11,
     <1>en, <1>q, <1>dr, <1>ow

\* The steps of a call keep the locks exclusive.
LEMMA StepLockInv ==
    ASSUME IInv, SInv, NEW t \in Threads, Step(t)
    PROVE  LockInv'
<1>0. LockPost(t) /\ KeyPost(t)
  BY StepLocks, StepKeys
<1>o. \A u \in Threads \ {t} :
        /\ th'[u] = th[u]
        /\ Writer(u)' <=> Writer(u)
        /\ HoldsWrite(u)' <=> HoldsWrite(u)
        /\ HoldsRead(u)' <=> HoldsRead(u)
        /\ HoldsKey(u)' <=> HoldsKey(u)
  BY <1>0 DEF LockPost, Others, Writer, Draining, At, HoldsWrite, HoldsRead, HoldsKey
<1>k. \A u \in Threads : HoldsKey(u) => th[u].key \in Keys
  BY DEF IInv, CallInv, RecordOK, CallsAt, HoldsKey
<1>1. ASSUME NEW v \in Threads, Writer(v)', NEW u \in Threads \ {v}, ProcOf[u] = ProcOf[v]
      PROVE  ~Writer(u)'
  <2>1. CASE v = t
    <3>1. Writer(t) \/ CanQueue(t)
      BY <1>0, <1>1, <2>1 DEF LockPost
    <3>2. ~Writer(u)
      BY <1>1, <2>1, <3>1 DEF CanQueue, Peers, Writer, SInv, LockInv
    <3>3. QED
      BY <1>1, <1>o, <2>1, <3>2
  <2>2. CASE v # t /\ u = t
    <3>1. Writer(v) /\ ~Writer(t) /\ v \in Peers(t)
      BY <1>1, <1>o, <2>2 DEF SInv, LockInv, Peers
    <3>2. ~CanQueue(t)
      BY <3>1 DEF CanQueue, Writer
    <3>3. QED
      BY <1>0, <2>2, <3>1, <3>2 DEF LockPost
  <2>3. CASE v # t /\ u # t
    BY <1>1, <1>o, <2>3 DEF SInv, LockInv
  <2>4. QED
    BY <2>1, <2>2, <2>3
<1>r. ASSUME NEW v \in Threads, HoldsWrite(v)', NEW u \in Threads \ {v}, ProcOf[u] = ProcOf[v]
      PROVE  ~HoldsRead(u)'
  <2>1. CASE v = t
    <3>1. HoldsWrite(t) \/ CanWrite(t)
      BY <1>0, <1>r, <2>1 DEF LockPost
    <3>2. ~HoldsRead(u)
      BY <1>r, <2>1, <3>1 DEF CanWrite, Peers, SInv, LockInv
    <3>3. QED
      BY <1>r, <1>o, <2>1, <3>2
  <2>2. CASE v # t /\ u = t
    <3>1. HoldsWrite(v) /\ ~HoldsRead(t) /\ v \in Peers(t)
      BY <1>r, <1>o, <2>2 DEF SInv, LockInv, Peers
    <3>2. ~CanRead(t)
      BY <3>1 DEF CanRead, CanQueue
    <3>3. QED
      BY <1>0, <2>2, <3>1, <3>2 DEF LockPost
  <2>3. CASE v # t /\ u # t
    BY <1>r, <1>o, <2>3 DEF SInv, LockInv
  <2>4. QED
    BY <2>1, <2>2, <2>3
<1>2. ASSUME NEW v \in Threads, HoldsKey(v)'
      PROVE  /\ key'[th'[v].key].st = "live"
             /\ th'[v].key = th[v].key
             /\ HoldsKey(v) \/ (v = t /\ KeyFree(th[t].key))
  <2>1. CASE v = t
    BY <1>0, <1>2, <2>1 DEF LockPost, Kept, SInv, LockInv
  <2>2. CASE v # t
    <3>0. HoldsKey(v) /\ th'[v].key = th[v].key /\ key[th[v].key].st = "live" /\ th[v].key \in Keys
      BY <1>2, <1>o, <1>k, <2>2 DEF SInv, LockInv
    <3>1. CASE th[t].key # th[v].key
      BY <1>0, <3>0, <3>1 DEF KeyPost
    <3>2. CASE th[t].key = th[v].key
      <4>1. ~HoldsKey(t)
        BY <2>2, <3>0, <3>2 DEF SInv, LockInv
      <4>2. ~StampKey(t)
        BY <3>0, <3>2 DEF StampKey, SInv, GenInv
      <4>3. QED
        BY <1>0, <3>0, <3>2, <4>1, <4>2 DEF KeyPost
    <3>3. QED
      BY <3>1, <3>2
  <2>3. QED
    BY <2>1, <2>2
<1>3. \A v \in Threads : th'[v].pc = "reopen" => th'[v].call # "open"
  BY <1>0, <1>o DEF LockPost, SInv, LockInv
<1>4. \A v, u \in Threads : HoldsKey(v)' /\ HoldsKey(u)' /\ th'[u].key = th'[v].key => u = v
  <2>1. SUFFICES ASSUME NEW v \in Threads, NEW u \in Threads, HoldsKey(v)', HoldsKey(u)',
                        th'[u].key = th'[v].key
                 PROVE  u = v
    OBVIOUS
  <2>2. /\ HoldsKey(v) \/ (v = t /\ KeyFree(th[t].key))
        /\ HoldsKey(u) \/ (u = t /\ KeyFree(th[t].key))
        /\ th[u].key = th[v].key
    BY <1>2, <2>1
  <2>3. CASE HoldsKey(v) /\ HoldsKey(u)
    BY <2>2, <2>3 DEF SInv, LockInv
  <2>4. QED
    BY <2>2, <2>3 DEF KeyFree
<1>5. QED
  BY <1>1, <1>r, <1>2, <1>3, <1>4 DEF LockInv

\* The steps of a call keep keys under construction private.
LEMMA StepGenInv ==
    ASSUME IInv, SInv, NEW t \in Threads, Step(t)
    PROVE  GenInv'
<1>0. LockPost(t) /\ KeyPost(t)
  BY StepLocks, StepKeys
<1>1. \A u \in Threads : th[u].call = "gen" => th[u].key \in Keys
  BY DEF IInv, CallInv, RecordOK
<1>2. \A u \in Threads : th'[u] = Idle \/ (th'[u].call = th[u].call /\ th'[u].key = th[u].key)
  BY <1>0 DEF LockPost, Others, Kept
<1>3. Idle.call = "none" /\ Idle.key = NoKey /\ NoKey \notin Keys
  BY ConstantsAssumption DEF Idle
<1>4. ASSUME NEW v \in Threads, th'[v].call = "gen"
      PROVE  /\ key'[th'[v].key].st = "none"
             /\ \A u \in Threads : th'[u].key = th'[v].key => u = v
  <2>1. /\ th[v].call = "gen" /\ th'[v].key = th[v].key /\ th[v].key \in Keys
        /\ th'[v] # Idle
    BY <1>1, <1>2, <1>3, <1>4
  <2>2. /\ key[th[v].key].st = "none"
        /\ \A u \in Threads : th[u].key = th[v].key => u = v
    BY <2>1 DEF SInv, GenInv
  <2>3. \A u \in Threads : th'[u].key = th'[v].key => u = v
    BY <1>2, <1>3, <2>1, <2>2
  <2>4. key'[th[v].key].st = "none"
    <3>1. CASE v # t
      BY <1>0, <2>1, <2>2, <3>1 DEF KeyPost
    <3>2. CASE v = t
      <4>1. ~HoldsKey(t)
        BY <2>1, <3>2 DEF IInv, CallInv, RecordOK, CallsAt, HoldsKey
      <4>2. ~StampKey(t)
        <5>1. th \in [Threads -> ThreadRecs]
          BY TypeSplit DEF IInv
        <5>2. QED
          BY <5>1, <2>1, <3>2, AfterReturn DEF StampKey
      <4>3. QED
        BY <1>0, <2>1, <2>2, <3>2, <4>1, <4>2 DEF KeyPost
    <3>3. QED
      BY <3>1, <3>2
  <2>5. QED
    BY <2>1, <2>3, <2>4
<1>5. QED
  BY <1>4 DEF GenInv

\* Session bookkeeping where no session is made or given up.
LEMMA SessionKept ==
    ASSUME SInv, UNCHANGED sessOpen,
           \A p \in Procs : devSess[p] # "none" => devSess'[p] # "none",
           \A k \in Keys : key'[k].st = "live" => key[k].st = "live" \/ sessOpen[KeyProc[k]],
           \A u \in Threads :
              /\ th'[u].call \in {"op", "gen", "delete"} => sessOpen[ProcOf[u]]
              /\ Opened(u)' => Opened(u)
    PROVE  SessionInv'
<1>1. \A u \in Threads : ProcOf[u] \in Procs
  BY ConstantsAssumption
<1>2. QED
  BY <1>1 DEF SInv, SessionInv

\* The steps of a call keep the session bookkeeping.
LEMMA StepSessionInv ==
    ASSUME IInv, SInv, NEW t \in Threads, Step(t)
    PROVE  SessionInv'
<1>0. LockPost(t) /\ KeyPost(t)
  BY StepLocks, StepKeys
<1>p. /\ ProcOf[t] \in Procs /\ \A u \in Threads : ProcOf[u] \in Procs
      /\ devSess \in [Procs -> {"none", "valid", "reneg"}]
      /\ sessOpen \in [Procs -> BOOLEAN]
      /\ th \in [Threads -> ThreadRecs]
  BY ConstantsAssumption, TypeSplit DEF IInv, DataTypes
<1>c. \A u \in Threads : th'[u].call \in {"op", "gen", "delete"} => sessOpen[ProcOf[u]]
  <2>1. \A u \in Threads : th'[u] = Idle \/ th'[u].call = th[u].call
    BY <1>0 DEF LockPost, Others, Kept
  <2>2. QED
    BY <2>1 DEF Idle, SInv, SessionInv
<1>o. \A u \in Threads \ {t} : th'[u] = th[u]
  BY <1>0 DEF LockPost, Others
<1>k. \A k \in Keys : key'[k].st = "live" => key[k].st = "live" \/ sessOpen[KeyProc[k]]
  <2>1. CASE StampKey(t)
    <3>1. th[t].key \in Keys /\ KeyProc[th[t].key] = ProcOf[t] /\ sessOpen[ProcOf[t]]
      BY <2>1 DEF StampKey, IInv, CallInv, RecordOK, SInv, SessionInv
    <3>2. QED
      BY <1>0, <3>1 DEF KeyPost
  <2>2. CASE ~StampKey(t)
    BY <1>0, <2>2 DEF KeyPost
  <2>3. QED
    BY <2>1, <2>2
<1>1. CASE Open(t)
  <2>1. UNCHANGED sessOpen
    BY <1>1 DEF Open, procVars
  <2>2. \A p \in Procs : devSess[p] # "none" => devSess'[p] # "none"
    BY <1>1, <1>p DEF Open
  <2>3. CASE ~Opened(t)'
    <3>1. \A u \in Threads : Opened(u)' => Opened(u)
      BY <1>o, <2>3 DEF Opened
    <3>2. QED
      BY <1>c, <1>k, <2>1, <2>2, <3>1, SessionKept
  <2>4. CASE Opened(t)'
    <3>1. devSess[ProcOf[t]] = "none"
      BY <1>0, <2>4 DEF LockPost
    <3>2. devSess'[ProcOf[t]] # "none"
      <4>1. th'[t].pc = "stamp"
        BY <2>4 DEF Opened
      <4>2. ~Return(t) /\ ~Retry(t)
        BY <1>p, <4>1, FailureEnds DEF Ended, Idle
      <4>3. QED
        BY <1>1, <1>p, <4>2 DEF Open
    <3>3. ~sessOpen[ProcOf[t]]
      BY <1>p, <3>1 DEF SInv, SessionInv
    <3>4. \A u \in Threads \ {t} : Opened(u)' => Opened(u) /\ ProcOf[u] # ProcOf[t]
      BY <1>o, <3>1 DEF Opened, SInv, SessionInv
    <3>5. \A u \in Threads : Opened(u)' =>
            /\ ~sessOpen'[ProcOf[u]]
            /\ devSess'[ProcOf[u]] # "none"
            /\ \A v \in Threads : Opened(v)' /\ ProcOf[v] = ProcOf[u] => v = u
      <4>1. ASSUME NEW u \in Threads \ {t}, Opened(u)'
            PROVE  ~sessOpen'[ProcOf[u]] /\ devSess'[ProcOf[u]] # "none"
        BY <1>p, <2>1, <2>2, <3>4, <4>1 DEF SInv, SessionInv
      <4>2. ASSUME NEW u \in Threads, NEW v \in Threads, Opened(u)', Opened(v)',
                   ProcOf[v] = ProcOf[u]
            PROVE  v = u
        BY <3>4, <4>2 DEF SInv, SessionInv
      <4>3. QED
        BY <2>1, <3>2, <3>3, <4>1, <4>2
    <3>6. QED
      BY <1>c, <1>k, <2>1, <2>2, <3>5 DEF SInv, SessionInv
  <2>5. QED
    BY <2>3, <2>4
<1>2. CASE StampSession(t)
  <2>1. /\ sessOpen'[ProcOf[t]] = TRUE
        /\ \A p \in Procs \ {ProcOf[t]} : sessOpen'[p] = sessOpen[p]
        /\ UNCHANGED <<devSess, key>>
        /\ th'[t] = Idle
    BY <1>2, <1>p, AfterReturn DEF StampSession, device
  <2>2. Opened(t)
    BY <1>2 DEF StampSession, Opened, At
  <2>3. devSess[ProcOf[t]] # "none"
    BY <2>2 DEF SInv, SessionInv
  <2>4. \A u \in Threads : Opened(u)' => Opened(u) /\ ProcOf[u] # ProcOf[t]
    BY <1>o, <2>1, <2>2 DEF Opened, Idle, SInv, SessionInv
  <2>5. \A k \in Keys : KeyProc[k] \in Procs
    BY ConstantsAssumption
  <2>6. \A u \in Threads : Opened(u)' =>
          /\ ~sessOpen'[ProcOf[u]]
          /\ devSess'[ProcOf[u]] # "none"
          /\ \A v \in Threads : Opened(v)' /\ ProcOf[v] = ProcOf[u] => v = u
    BY <1>p, <2>1, <2>4 DEF SInv, SessionInv
  <2>7. /\ \A p \in Procs : sessOpen'[p] => devSess'[p] # "none"
        /\ \A k \in Keys : key'[k].st = "live" => sessOpen'[KeyProc[k]]
        /\ \A u \in Threads : th'[u].call \in {"op", "gen", "delete"} => sessOpen'[ProcOf[u]]
    BY <1>p, <1>c, <2>1, <2>3, <2>5 DEF SInv, SessionInv
  <2>8. QED
    BY <2>6, <2>7 DEF SessionInv
<1>3. CASE ~Open(t) /\ ~StampSession(t)
  <2>1. UNCHANGED sessOpen
    BY <1>3 DEF Step, Enter, Check, Use, Recover, Drain, Lock, Establish, Apply, ReopenSession,
                RestoreKey, Generate, StampKey, Own, DeleteCheck, Erase, InitNonce, InitEstablish, procVars
  <2>2. \A p \in Procs : devSess[p] # "none" => devSess'[p] # "none"
    <3>1. CASE ReopenSession(t)
      BY <1>p, <3>1 DEF ReopenSession
    <3>2. CASE ~ReopenSession(t)
      BY <1>3, <3>2 DEF Step, Enter, Check, Use, Recover, Drain, Lock, Establish, Apply, RestoreKey,
                Generate, StampKey, Own, DeleteCheck, Erase, InitNonce, InitEstablish, device
    <3>3. QED
      BY <3>1, <3>2
  <2>3. \A u \in Threads : Opened(u)' => Opened(u)
    BY <1>0, <1>3, <1>o DEF LockPost, Opened
  <2>4. QED
    BY <1>c, <1>k, <2>1, <2>2, <2>3, SessionKept
<1>4. QED
  BY <1>1, <1>2, <1>3

\* A live key of a process whose partition is up has an open session, and no
\* stamp is later than the partition's epoch.
LEMMA LiveKeyFacts ==
    ASSUME IInv, SInv, NEW k \in Keys, key[k].st = "live"
    PROVE  /\ KeyProc[k] \in Procs
           /\ sessOpen[KeyProc[k]] /\ up[KeyProc[k]]
           /\ key[k].epoch \in Nat /\ sessEpoch[KeyProc[k]] \in Nat /\ part[KeyProc[k]] \in Nat
           /\ sessEpoch[KeyProc[k]] <= part[KeyProc[k]]
           /\ key[k].epoch <= part[KeyProc[k]]
           /\ key[k].handle \in Handles
<1>1. KeyProc[k] \in Procs
  BY ConstantsAssumption
<1>2. sessOpen[KeyProc[k]] /\ up[KeyProc[k]]
  BY <1>1 DEF SInv, SessionInv, IInv, DownInv
<1>3. /\ key[k].epoch \in Nat /\ sessEpoch[KeyProc[k]] \in Nat /\ part[KeyProc[k]] \in Nat
      /\ key[k].handle \in Handles
  BY <1>1 DEF IInv, TypeOK
<1>4. sessEpoch[KeyProc[k]] <= part[KeyProc[k]] /\ key[k].epoch <= part[KeyProc[k]]
  BY <1>1, <1>2 DEF IInv, EpochsOrdered
<1>5. QED
  BY <1>1, <1>2, <1>3, <1>4

\* A thread that uses or deletes a key has one, of its own process.
LEMMA ReaderFacts ==
    ASSUME IInv, NEW t \in Threads, Cleared(t)
    PROVE  th[t].key \in Keys /\ KeyProc[th[t].key] = ProcOf[t]
BY DEF IInv, CallInv, RecordOK, CallsAt, Cleared

\* Where no epoch moves, no key is stamped and no live key loses its entry, the
\* stamps stay safe; a thread that passes the epoch check is safe as well.
LEMMA StampsKept ==
    ASSUME IInv, SInv, StampsSafe, NEW t \in Threads, LockPost(t), UNCHANGED sessEpoch,
           \A k \in Keys : key'[k].st = "live" => key'[k] = key[k],
           \A k \in Keys : devSess'[KeyProc[k]] = "valid" /\ key'[k].st = "live"
                             => devSess[KeyProc[k]] = "valid",
           \A k \in Keys : key'[k].st = "live" /\ vault[key[k].handle] = k
                             => vault'[key[k].handle] = k
    PROVE  StampsSafe'
<1>1. ASSUME NEW k \in Keys, key'[k].st = "live"
      PROVE  /\ key'[k].epoch <= sessEpoch'[KeyProc[k]]
             /\ devSess'[KeyProc[k]] = "valid" /\ key'[k].epoch = sessEpoch'[KeyProc[k]]
                  => vault'[key'[k].handle] = k
  BY <1>1 DEF StampsSafe, KeySafe
<1>2. ASSUME NEW u \in Threads, Cleared(u)', key'[th'[u].key].st = "live"
      PROVE  key'[th'[u].key].epoch = sessEpoch'[ProcOf[u]]
  <2>1. CASE u # t
    <3>1. th'[u] = th[u] /\ Cleared(u)
      BY <1>2, <2>1 DEF LockPost, Others, Cleared
    <3>2. th[u].key \in Keys
      BY <3>1, ReaderFacts
    <3>3. key'[th[u].key] = key[th[u].key]
      BY <1>2, <3>1, <3>2
    <3>4. QED
      BY <1>2, <3>1, <3>3 DEF StampsSafe, UseSafe
  <2>2. CASE u = t
    <3>1. /\ th'[t].key = th[t].key /\ th'[t].call = th[t].call
          /\ key[th[t].key].epoch = part[ProcOf[t]] /\ UNCHANGED key
          /\ th'[t].pc \in {"use", "erase"}
      BY <1>2, <2>2 DEF LockPost, Kept, Cleared, procVars
    <3>2. th[t].call \in {"op", "delete"}
      <4>1. th[t].pc \in {"epoch", "delete"}
        BY <1>2, <2>2 DEF LockPost
      <4>2. QED
        BY <4>1 DEF IInv, CallInv, RecordOK, CallsAt
    <3>3. th[t].key \in Keys /\ KeyProc[th[t].key] = ProcOf[t]
      BY <3>2 DEF IInv, CallInv, RecordOK
    <3>4. key[th[t].key].st = "live"
      BY <1>2, <2>2, <3>1
    <3>5. key[th[t].key].epoch <= sessEpoch[ProcOf[t]]
      BY <3>3, <3>4 DEF StampsSafe, KeySafe
    <3>6. key[th[t].key].epoch = sessEpoch[ProcOf[t]]
      <4> DEFINE k == th[t].key
      <4>1. /\ sessEpoch[KeyProc[k]] <= part[KeyProc[k]]
            /\ key[k].epoch \in Nat /\ sessEpoch[KeyProc[k]] \in Nat
        BY <3>3, <3>4, LiveKeyFacts
      <4>2. QED
        BY <3>1, <3>3, <3>5, <4>1
    <3>7. QED
      BY <2>2, <3>1, <3>6
  <2>3. QED
    BY <2>1, <2>2
<1>3. QED
  BY <1>1, <1>2 DEF StampsSafe, KeySafe, UseSafe

\* The steps of a call keep the stamps safe, unless one goes astray.
LEMMA StepStampInv ==
    ASSUME IInv, SInv, NEW t \in Threads, Step(t)
    PROVE  StampInv'
<1> USE DEF At
<1>0. LockPost(t) /\ KeyPost(t)
  BY StepLocks, StepKeys
<1>p. /\ ProcOf[t] \in Procs /\ \A k \in Keys : KeyProc[k] \in Procs
      /\ th \in [Threads -> ThreadRecs] /\ DataTypes
      /\ RecordOK(t, th[t])
  BY ConstantsAssumption, TypeSplit DEF IInv, CallInv
<1>a. astray => astray'
  BY DEF Step, Enter, Check, Use, Recover, Drain, Lock, Establish, Apply, ReopenSession,
         RestoreKey, Generate, StampKey, Open, StampSession, Own, DeleteCheck, Erase, InitNonce,
         InitEstablish, faults
<1> SUFFICES ASSUME ~astray' PROVE StampsSafe'
  BY DEF StampInv
<1>s. ~astray /\ StampsSafe
  BY <1>a DEF SInv, StampInv
<1> DEFINE p == ProcOf[t]
           k == th[t].key
<1>c. th[t].call \in CallsAt(th[t].pc) /\ (th[t].call \in {"op", "gen", "delete"}
        => k \in Keys /\ KeyProc[k] = p)
  BY <1>p DEF RecordOK
\* The steps that touch neither session, keys nor table.
<1>u. ASSUME UNCHANGED <<devSess, vault, sessEpoch, key>> PROVE StampsSafe'
  BY <1>0, <1>s, <1>u, StampsKept
\* A new entry of the table is a free one.
<1>e. ASSUME NEW h \in Handles, IsLowestFree(h), vault' = [vault EXCEPT ![h] = k],
             NEW j \in Keys, key[j].handle \in Handles, vault[key[j].handle] = j
      PROVE  vault'[key[j].handle] = j
  <2>1. vault[h] = NoKey /\ NoKey \notin Keys
    BY <1>e, ConstantsAssumption DEF IsLowestFree, FreeHandles
  <2>2. key[j].handle # h
    BY <1>e, <2>1
  <2>3. QED
    BY <1>e, <1>p, <2>2 DEF DataTypes
<1>1. CASE \/ Enter(t) \/ Check(t) \/ Use(t) \/ Recover(t) \/ Drain(t) \/ Lock(t)
           \/ Establish(t) \/ Apply(t) \/ Own(t) \/ InitNonce(t) \/ InitEstablish(t)
  BY <1>1, <1>u DEF Enter, Check, Use, Recover, Drain, Lock, Establish, Apply, Own,
                    InitNonce, InitEstablish, device, procVars
<1>2. CASE ReopenSession(t)
  <2>1. CASE UNCHANGED <<devSess, sessEpoch>>
    BY <1>2, <1>u, <2>1 DEF ReopenSession
  <2>2. CASE /\ sessEpoch[p] < part[p]
             /\ devSess' = [devSess EXCEPT ![p] = "valid"]
             /\ sessEpoch' = [sessEpoch EXCEPT ![p] = part[p]]
    <3>1. /\ sessEpoch'[p] = part[p] /\ sessEpoch[p] \in Nat /\ part[p] \in Nat
          /\ \A q \in Procs \ {p} : sessEpoch'[q] = sessEpoch[q] /\ devSess'[q] = devSess[q]
          /\ UNCHANGED <<vault, key>>
      BY <1>2, <1>p, <2>2 DEF ReopenSession, DataTypes
    <3>2. ASSUME NEW j \in Keys, key'[j].st = "live"
          PROVE  /\ key'[j].epoch <= sessEpoch'[KeyProc[j]]
                 /\ devSess'[KeyProc[j]] = "valid" /\ key'[j].epoch = sessEpoch'[KeyProc[j]]
                      => vault'[key'[j].handle] = j
      <4>1. key[j].st = "live" /\ key[j].epoch <= sessEpoch[KeyProc[j]] /\ key[j].epoch \in Nat
        BY <1>s, <3>1, <3>2, LiveKeyFacts DEF StampsSafe, KeySafe
      <4>2. CASE KeyProc[j] = p
        BY <2>2, <3>1, <4>1, <4>2
      <4>3. CASE KeyProc[j] # p
        <5>1. sessEpoch'[KeyProc[j]] = sessEpoch[KeyProc[j]] /\ devSess'[KeyProc[j]] = devSess[KeyProc[j]]
          BY <1>p, <3>1, <4>3
        <5>2. QED
          BY <1>s, <3>1, <3>2, <5>1 DEF StampsSafe, KeySafe
      <4>4. QED
        BY <4>2, <4>3
    <3>3. ASSUME NEW u \in Threads, Cleared(u)', key'[th'[u].key].st = "live"
          PROVE  key'[th'[u].key].epoch = sessEpoch'[ProcOf[u]]
      <4>1. HoldsWrite(t)
        BY <1>2 DEF ReopenSession, HoldsWrite, SInv, LockInv
      <4>2. u # t
        <5>1. th[t].pc = "reopen"
          BY <1>2 DEF ReopenSession
        <5>2. QED
          BY <1>0, <3>3, <5>1 DEF LockPost
      <4>3. Cleared(u) /\ th'[u] = th[u]
        BY <1>0, <3>3, <4>2 DEF LockPost, Others, Cleared
      <4>4. ProcOf[u] # p /\ ProcOf[u] \in Procs
        BY <4>1, <4>2, <4>3, ConstantsAssumption DEF SInv, LockInv, Cleared, HoldsRead
      <4>5. QED
        BY <1>s, <3>1, <3>3, <4>3, <4>4 DEF StampsSafe, UseSafe
    <3>4. QED
      BY <3>2, <3>3 DEF StampsSafe, KeySafe, UseSafe
  <2>3. QED
    BY <1>2, <2>1, <2>2 DEF ReopenSession
<1>3. CASE RestoreKey(t)
  <2>1. CASE UNCHANGED <<vault, key>>
    BY <1>3, <1>u, <2>1 DEF RestoreKey
  <2>2. CASE ~UNCHANGED <<vault, key>>
    <3>1. PICK h \in Handles :
            /\ IsLowestFree(h)
            /\ vault' = [vault EXCEPT ![h] = k]
            /\ key' = [key EXCEPT ![k].handle = h, ![k].epoch = part[p]]
      BY <1>3, <2>2 DEF RestoreKey
    <3>2. sessEpoch[p] = part[p] /\ key[k].st = "live" /\ UNCHANGED <<devSess, sessEpoch>>
      BY <1>3, <2>2 DEF RestoreKey, SessionBehind
    <3>3. k \in Keys /\ KeyProc[k] = p /\ th[t].pc = "rekey" /\ th[t].call = "op"
      BY <1>3, <1>c DEF RestoreKey, CallsAt
    <3>4. /\ key'[k].epoch = part[p] /\ key'[k].handle = h /\ vault'[h] = k
          /\ \A j \in Keys \ {k} : key'[j] = key[j]
          /\ part[p] \in Nat
      BY <1>p, <3>1, <3>3 DEF DataTypes, KeyRecs
    <3>5. ASSUME NEW j \in Keys, key'[j].st = "live"
          PROVE  /\ key'[j].epoch <= sessEpoch'[KeyProc[j]]
                 /\ devSess'[KeyProc[j]] = "valid" /\ key'[j].epoch = sessEpoch'[KeyProc[j]]
                      => vault'[key'[j].handle] = j
      <4>1. CASE j = k
        BY <3>2, <3>3, <3>4, <4>1
      <4>2. CASE j # k
        <5>1. key'[j] = key[j] /\ key[j].st = "live" /\ key[j].handle \in Handles
          BY <3>4, <3>5, <4>2, LiveKeyFacts
        <5>2. vault[key[j].handle] = j => vault'[key[j].handle] = j
          BY <1>e, <3>1, <5>1
        <5>3. QED
          BY <1>s, <3>2, <5>1, <5>2 DEF StampsSafe, KeySafe
      <4>3. QED
        BY <4>1, <4>2
    <3>6. ASSUME NEW u \in Threads, Cleared(u)', key'[th'[u].key].st = "live"
          PROVE  key'[th'[u].key].epoch = sessEpoch'[ProcOf[u]]
      <4>1. HoldsWrite(t)
        BY <3>3 DEF HoldsWrite
      <4>2. u # t
        BY <1>0, <3>3, <3>6 DEF LockPost
      <4>3. Cleared(u) /\ th'[u] = th[u]
        BY <1>0, <3>6, <4>2 DEF LockPost, Others, Cleared
      <4>4. ProcOf[u] # p
        BY <4>1, <4>2, <4>3 DEF SInv, LockInv, Cleared, HoldsRead
      <4>5. th[u].key \in Keys \ {k}
        BY <3>3, <4>3, <4>4, ReaderFacts
      <4>6. QED
        BY <1>s, <3>2, <3>4, <3>6, <4>3, <4>5 DEF StampsSafe, UseSafe
    <3>7. QED
      BY <3>5, <3>6 DEF StampsSafe, KeySafe, UseSafe
  <2>3. QED
    BY <2>1, <2>2
<1>4. CASE Generate(t)
  <2>1. UNCHANGED <<devSess, sessEpoch, key>>
    BY <1>4 DEF Generate, procVars
  <2>2. CASE UNCHANGED vault
    BY <1>u, <2>1, <2>2
  <2>3. CASE \E h \in Handles : IsLowestFree(h) /\ vault' = [vault EXCEPT ![h] = k]
    <3>1. \A j \in Keys : key'[j].st = "live" /\ vault[key[j].handle] = j
                            => vault'[key[j].handle] = j
      BY <1>e, <2>1, <2>3, LiveKeyFacts
    <3>2. QED
      BY <1>0, <1>s, <2>1, <3>1, StampsKept
  <2>4. QED
    BY <1>4, <2>2, <2>3 DEF Generate
<1>5. CASE StampKey(t)
  <2>1. /\ th[t].call = "gen" /\ th'[t] = Idle
        /\ UNCHANGED <<devSess, vault, sessEpoch>>
        /\ key' = [key EXCEPT ![k] = [st |-> "live", handle |-> th[t].handle,
                                      epoch |-> part[p]]]
    BY <1>5, <1>p, AfterReturn DEF StampKey, device
  <2>2. vault[th[t].handle] = k /\ sessEpoch[p] = part[p]
    BY <1>5 DEF StampKey, HandleMissed, SessionBehind
  <2>3. k \in Keys /\ KeyProc[k] = p /\ \A u \in Threads : th[u].key = k => u = t
    BY <1>c, <2>1 DEF SInv, GenInv
  <2>4. /\ key'[k].epoch = part[p] /\ key'[k].handle = th[t].handle
        /\ \A j \in Keys \ {k} : key'[j] = key[j]
        /\ part[p] \in Nat
    BY <1>p, <2>1, <2>3 DEF DataTypes
  <2>5. ASSUME NEW j \in Keys, key'[j].st = "live"
        PROVE  /\ key'[j].epoch <= sessEpoch'[KeyProc[j]]
               /\ devSess'[KeyProc[j]] = "valid" /\ key'[j].epoch = sessEpoch'[KeyProc[j]]
                    => vault'[key'[j].handle] = j
    <3>1. CASE j = k
      BY <2>1, <2>2, <2>3, <2>4, <3>1
    <3>2. CASE j # k
      BY <1>s, <2>1, <2>4, <2>5, <3>2 DEF StampsSafe, KeySafe
    <3>3. QED
      BY <3>1, <3>2
  <2>6. ASSUME NEW u \in Threads, Cleared(u)', key'[th'[u].key].st = "live"
        PROVE  key'[th'[u].key].epoch = sessEpoch'[ProcOf[u]]
    <3>1. u # t
      BY <2>1, <2>6 DEF Cleared, Idle
    <3>2. Cleared(u) /\ th'[u] = th[u]
      BY <1>0, <2>6, <3>1 DEF LockPost, Others, Cleared
    <3>3. th[u].key \in Keys \ {k}
      BY <2>3, <3>1, <3>2, ReaderFacts
    <3>4. QED
      BY <1>s, <2>1, <2>4, <2>6, <3>2, <3>3 DEF StampsSafe, UseSafe
  <2>7. QED
    BY <2>5, <2>6 DEF StampsSafe, KeySafe, UseSafe
<1>6. CASE Open(t)
  <2>1. UNCHANGED <<vault, sessEpoch, key>>
    BY <1>6 DEF Open, procVars
  <2>2. ASSUME NEW j \in Keys, devSess'[KeyProc[j]] = "valid", key'[j].st = "live"
        PROVE  devSess[KeyProc[j]] = "valid"
    <3>1. devSess[KeyProc[j]] # "none" /\ KeyProc[j] \in Procs
      BY <2>1, <2>2, LiveKeyFacts DEF SInv, SessionInv
    <3>2. devSess[p] # "none" => devSess' = devSess
      BY <1>6 DEF Open
    <3>3. devSess[p] = "none" => devSess'[KeyProc[j]] = devSess[KeyProc[j]]
      BY <1>6, <1>p, <3>1 DEF Open, DataTypes
    <3>4. QED
      BY <2>2, <3>2, <3>3
  <2>3. QED
    BY <1>0, <1>s, <2>1, <2>2, StampsKept
<1>7. CASE StampSession(t)
  <2>1. /\ \A q \in Procs \ {p} : sessEpoch'[q] = sessEpoch[q]
        /\ UNCHANGED <<devSess, vault, key>>
        /\ th'[t] = Idle
    BY <1>7, <1>p, AfterReturn DEF StampSession, DataTypes, device
  <2>2. ~sessOpen[p]
    BY <1>7 DEF StampSession, SInv, SessionInv, Opened
  <2>3. \A j \in Keys : key[j].st = "live" => sessEpoch'[KeyProc[j]] = sessEpoch[KeyProc[j]]
    BY <1>p, <2>1, <2>2 DEF SInv, SessionInv
  <2>4. \A j \in Keys : KeySafe(j)'
    BY <1>s, <2>1, <2>3 DEF StampsSafe, KeySafe
  <2>5. ASSUME NEW u \in Threads, Cleared(u)', key'[th'[u].key].st = "live"
        PROVE  key'[th'[u].key].epoch = sessEpoch'[ProcOf[u]]
    <3>1. u # t
      BY <2>1, <2>5 DEF Cleared, Idle
    <3>2. Cleared(u) /\ th'[u] = th[u]
      BY <1>0, <2>5, <3>1 DEF LockPost, Others, Cleared
    <3>3. th[u].key \in Keys /\ KeyProc[th[u].key] = ProcOf[u]
      BY <3>2, ReaderFacts
    <3>4. QED
      BY <1>s, <2>1, <2>3, <2>5, <3>2, <3>3 DEF StampsSafe, UseSafe
  <2>6. QED
    BY <2>4, <2>5 DEF StampsSafe, UseSafe
<1>d. ASSUME k \in Keys, MarkDeleted(k) \/ UNCHANGED key
      PROVE  \A j \in Keys : key'[j].st = "live" => key'[j] = key[j]
  BY <1>d, <1>p DEF MarkDeleted, DataTypes, KeyRecs
<1>8. CASE DeleteCheck(t)
  <2>1. k \in Keys
    BY <1>8, <1>c DEF DeleteCheck, CallsAt
  <2>2. UNCHANGED <<devSess, vault, sessEpoch>> /\ (MarkDeleted(k) \/ UNCHANGED key)
    BY <1>8 DEF DeleteCheck, device
  <2>3. QED
    BY <1>0, <1>s, <1>d, <2>1, <2>2, StampsKept
<1>9. CASE Erase(t)
  <2>1. k \in Keys /\ KeyProc[k] = p /\ Cleared(t)
    BY <1>9, <1>c DEF Erase, CallsAt, Cleared
  <2>2. UNCHANGED <<devSess, sessEpoch>> /\ (MarkDeleted(k) \/ UNCHANGED key)
    BY <1>9 DEF Erase
  <2>3. \A j \in Keys : key'[j].st = "live" => key'[j] = key[j]
    BY <1>d, <2>1, <2>2
  <2>4. CASE UNCHANGED vault
    BY <1>0, <1>s, <2>2, <2>3, <2>4, StampsKept
  <2>5. CASE /\ devSess[p] = "valid" /\ MarkDeleted(k)
             /\ vault' = [vault EXCEPT ![key[k].handle] = NoKey]
    <3>1. key[k].st = "live"
      BY <1>9 DEF Erase, HoldsKey, SInv, LockInv
    <3>2. key[k].epoch = sessEpoch[p] /\ vault[key[k].handle] = k /\ key[k].handle \in Handles
      BY <1>s, <2>1, <2>5, <3>1, LiveKeyFacts DEF StampsSafe, KeySafe, UseSafe
    <3>3. ASSUME NEW j \in Keys, key'[j].st = "live", vault[key[j].handle] = j
          PROVE  vault'[key[j].handle] = j
      <4>1. j # k
        BY <1>p, <2>1, <2>5, <3>3 DEF MarkDeleted, DataTypes, KeyRecs
      <4>2. key[j].st = "live" /\ key[j].handle # key[k].handle
        BY <2>3, <3>2, <3>3, <4>1
      <4>3. key[j].handle \in Handles
        BY <4>2, LiveKeyFacts
      <4>4. QED
        BY <1>p, <2>5, <3>3, <4>2, <4>3 DEF DataTypes
    <3>4. QED
      BY <1>0, <1>s, <2>2, <2>3, <3>3, StampsKept
  <2>6. QED
    BY <1>9, <2>4, <2>5 DEF Erase
<1>10. QED
  BY <1>1, <1>2, <1>3, <1>4, <1>5, <1>6, <1>7, <1>8, <1>9 DEF Step

\* So do the beginnings of calls.
LEMMA StartSInv ==
    ASSUME IInv, SInv, NEW t \in Threads, Start(t)
    PROVE  SInv'
<1>0. th \in [Threads -> ThreadRecs] /\ DataTypes /\ ProcOf[t] \in Procs
  BY ConstantsAssumption, TypeSplit DEF IInv
\* What all of them but the close of a session have in common.
<1>b. ASSUME NEW call \in {"op", "gen", "delete", "open", "init"}, NEW k \in Keys \cup {NoKey},
             NEW pc \in {"check", "try", "own", "init"}, Begin(t, call, k, pc),
             call \in {"op", "gen", "delete"} => k \in Keys /\ sessOpen[ProcOf[t]],
             call = "gen" => key[k].st = "none" /\ \A u \in Threads : th[u].key # k,
             call \in {"op", "delete"} => key[k].st = "live",
             call \in {"open", "init"} => k = NoKey,
             UNCHANGED <<device, store, procVars, faults>>
      PROVE  SInv'
  <2>1. /\ \A u \in Threads \ {t} : th'[u] = th[u]
        /\ th'[t].call = call /\ th'[t].pc = pc /\ th'[t].key = k
        /\ UNCHANGED <<devSess, vault, sessOpen, sessEpoch, part, key, astray>>
    BY <1>0, <1>b DEF Begin, Idle, ThreadRecs, device, procVars, faults
  <2>2. /\ ~HoldsWrite(t)' /\ ~HoldsRead(t)' /\ ~Opened(t)' /\ ~HoldsKey(t)'
        /\ ~Writer(t)' /\ ~Cleared(t)'
        /\ \A u \in Threads \ {t} : /\ HoldsWrite(u)' = HoldsWrite(u)
                                    /\ HoldsRead(u)' = HoldsRead(u)
                                    /\ Writer(u)' = Writer(u)
                                    /\ Cleared(u)' = Cleared(u)
                                    /\ HoldsKey(u)' = HoldsKey(u)
                                    /\ Opened(u)' = Opened(u)
    BY <2>1 DEF HoldsWrite, HoldsRead, HoldsKey, Opened, Writer, Draining, At, Cleared
  <2>3. SessionInv'
    BY <1>b, <2>1, <2>2 DEF SInv, SessionInv
  <2>4. LockInv'
    <3>1. \A v \in Threads : \A u \in Threads \ {v} : ProcOf[u] = ProcOf[v] =>
            /\ Writer(v)' => ~Writer(u)'
            /\ HoldsWrite(v)' => ~HoldsRead(u)'
      BY <2>2 DEF SInv, LockInv
    <3>2. \A v \in Threads : HoldsKey(v)' => key'[th'[v].key].st = "live"
      BY <1>b, <2>1, <2>2 DEF SInv, LockInv
    <3>3. \A v, u \in Threads : HoldsKey(v)' /\ HoldsKey(u)' /\ th'[u].key = th'[v].key => u = v
      BY <2>1, <2>2 DEF SInv, LockInv
    <3>4. \A v \in Threads : th'[v].pc = "reopen" => th'[v].call # "open"
      BY <2>1 DEF SInv, LockInv
    <3>5. QED
      BY <3>1, <3>2, <3>3, <3>4 DEF LockInv
  <2>5. GenInv'
    <3>1. \A u \in Threads : th[u].call = "gen" => th[u].key \in Keys /\ key[th[u].key].st = "none"
      BY DEF IInv, CallInv, RecordOK, SInv, GenInv
    <3>2. ASSUME NEW u \in Threads \ {t}, th'[u].call = "gen" PROVE th'[u].key # k
      <4>1. th[u].call = "gen" /\ th[u].key = th'[u].key
        BY <2>1, <3>2
      <4>2. th[u].key \in Keys /\ key[th[u].key].st = "none" /\ NoKey \notin Keys
        BY <3>1, <4>1, ConstantsAssumption
      <4>3. QED
        BY <1>b, <4>1, <4>2
    <3>3. ASSUME NEW u \in Threads, th'[u].call = "gen"
          PROVE  key'[th'[u].key].st = "none"
      BY <1>b, <2>1, <3>1, <3>3
    <3>4. ASSUME NEW u \in Threads, th'[u].call = "gen", NEW v \in Threads, th'[v].key = th'[u].key
          PROVE  v = u
      <4>1. CASE u = t
        BY <1>b, <2>1, <3>4, <4>1
      <4>2. CASE u # t
        BY <2>1, <3>2, <3>4, <4>2 DEF SInv, GenInv
      <4>3. QED
        BY <4>1, <4>2
    <3>5. QED
      BY <3>3, <3>4 DEF GenInv
  <2>6. StampInv'
    BY <2>1, <2>2 DEF SInv, StampInv, StampsSafe, KeySafe, UseSafe
  <2>7. QED
    BY <2>3, <2>4, <2>5, <2>6 DEF SInv
<1>1. ASSUME NEW k \in Keys, StartOp(t, k) PROVE SInv'
  <2>1. sessOpen[ProcOf[t]]
    BY <1>1 DEF StartOp, SInv, SessionInv
  <2>2. QED
    BY <1>1, <1>b, <2>1 DEF StartOp
<1>2. ASSUME NEW k \in Keys, StartGenerate(t, k) PROVE SInv'
  BY <1>2, <1>b DEF StartGenerate
<1>3. ASSUME NEW k \in Keys, StartDelete(t, k) PROVE SInv'
  <2>1. sessOpen[ProcOf[t]]
    BY <1>3 DEF StartDelete, SInv, SessionInv
  <2>2. QED
    BY <1>3, <1>b, <2>1 DEF StartDelete
<1>4. CASE StartOpen(t)
  BY <1>4, <1>b DEF StartOpen
<1>5. CASE StartInit(t)
  BY <1>5, <1>b DEF StartInit
<1>6. CASE CloseSession(t)
  <2>1. /\ \A q \in Procs \ {ProcOf[t]} : sessOpen'[q] = sessOpen[q] /\ sessEpoch'[q] = sessEpoch[q]
                                          /\ devSess'[q] = devSess[q]
        /\ ~sessOpen'[ProcOf[t]]
        /\ UNCHANGED <<key, th, astray>>
    BY <1>0, <1>6 DEF CloseSession, DataTypes
  <2>2. \A u \in Threads : ProcOf[u] = ProcOf[t] => th[u].pc = "idle" /\ th[u].call = "none"
    BY <1>6 DEF CloseSession, Peers, IInv, CallInv, RecordOK, CallsAt
  <2>3. \A k \in Keys : key[k].st = "live" => KeyProc[k] \in Procs \ {ProcOf[t]}
    BY <1>6, ConstantsAssumption DEF CloseSession
  <2>4. \A u \in Threads : ProcOf[u] \in Procs
    BY ConstantsAssumption
  <2>5. SessionInv'
    BY <2>1, <2>2, <2>3, <2>4 DEF SInv, SessionInv, Opened
  <2>6. LockInv' /\ GenInv'
    BY <2>1 DEF SInv, LockInv, GenInv, HoldsWrite, HoldsRead, HoldsKey, Writer, Draining, At
  <2>7. ASSUME NEW k \in Keys, key[k].st = "live", vault[key[k].handle] = k
        PROVE  vault'[key[k].handle] = k
    <3>1. key[k].handle \in Handles
      BY <2>7, LiveKeyFacts
    <3>2. QED
      BY <1>6, <2>3, <2>7, <3>1 DEF CloseSession
  <2>8. StampInv'
    <3>1. ASSUME ~astray, NEW k \in Keys PROVE KeySafe(k)'
      BY <2>1, <2>3, <2>7, <3>1 DEF SInv, StampInv, StampsSafe, KeySafe
    <3>2. ASSUME ~astray, NEW u \in Threads PROVE UseSafe(u)'
      <4>1. Cleared(u) => ProcOf[u] # ProcOf[t]
        BY <2>2 DEF Cleared
      <4>2. QED
        BY <2>1, <2>4, <3>2, <4>1 DEF SInv, StampInv, StampsSafe, UseSafe, Cleared
    <3>3. QED
      BY <2>1, <3>1, <3>2 DEF StampInv, StampsSafe
  <2>9. QED
    BY <2>5, <2>6, <2>8 DEF SInv
<1>7. QED
  BY <1>1, <1>2, <1>3, <1>4, <1>5, <1>6 DEF Start

\* The death of a process takes its calls, its session and its keys together.
LEMMA CrashSInv ==
    ASSUME IInv, SInv, NEW p \in Procs, Crash(p)
    PROVE  SInv'
<1>0. th \in [Threads -> ThreadRecs] /\ DataTypes
  BY TypeSplit DEF IInv
<1>1. /\ \A q \in Procs \ {p} : sessOpen'[q] = sessOpen[q] /\ sessEpoch'[q] = sessEpoch[q]
                                /\ devSess'[q] = devSess[q]
      /\ ~sessOpen'[p]
      /\ UNCHANGED astray
  BY <1>0 DEF Crash, DataTypes, faults
<1>2. \A k \in Keys : /\ KeyProc[k] # p => key'[k] = key[k]
                      /\ KeyProc[k] = p => key'[k].st = "none"
  BY DEF Crash
<1>3. \A t \in Threads : th'[t] = IF ProcOf[t] = p THEN Idle ELSE th[t]
  BY DEF Crash
<1>4. /\ \A t \in Threads : ProcOf[t] \in Procs
      /\ \A k \in Keys : KeyProc[k] \in Procs
      /\ NoKey \notin Keys
  BY ConstantsAssumption
<1>5. Idle.call = "none" /\ Idle.pc = "idle" /\ Idle.key = NoKey
  BY DEF Idle
<1>6. \A t \in Threads :
        /\ ProcOf[t] = p => /\ th'[t].call = "none" /\ th'[t].pc = "idle" /\ th'[t].key = NoKey
                            /\ ~HoldsWrite(t)' /\ ~HoldsRead(t)' /\ ~HoldsKey(t)' /\ ~Opened(t)'
                            /\ ~Writer(t)' /\ ~Cleared(t)'
        /\ ProcOf[t] # p => /\ th'[t] = th[t]
                            /\ HoldsWrite(t)' = HoldsWrite(t)
                            /\ HoldsRead(t)' = HoldsRead(t)
                            /\ HoldsKey(t)' = HoldsKey(t)
                            /\ Opened(t)' = Opened(t)
                            /\ Writer(t)' = Writer(t)
                            /\ Cleared(t)' = Cleared(t)
  BY <1>3, <1>5 DEF HoldsWrite, HoldsRead, HoldsKey, Opened, Writer, Draining, At, Cleared
<1>7. \A t \in Threads : th[t].call \in {"op", "gen", "delete"}
                           => th[t].key \in Keys /\ KeyProc[th[t].key] = ProcOf[t]
  BY DEF IInv, CallInv, RecordOK
<1>8. \A t \in Threads : HoldsKey(t) \/ Cleared(t) => th[t].call \in {"op", "delete"}
  BY DEF IInv, CallInv, RecordOK, CallsAt, HoldsKey, Cleared
<1>9. SessionInv'
  <2>1. \A q \in Procs : sessOpen'[q] => devSess'[q] # "none"
    BY <1>1 DEF SInv, SessionInv
  <2>2. \A k \in Keys : key'[k].st = "live" => sessOpen'[KeyProc[k]]
    BY <1>1, <1>2, <1>4 DEF SInv, SessionInv
  <2>3. \A t \in Threads : th'[t].call \in {"op", "gen", "delete"} => sessOpen'[ProcOf[t]]
    BY <1>1, <1>4, <1>6 DEF SInv, SessionInv
  <2>4. \A t \in Threads : Opened(t)' =>
          /\ ~sessOpen'[ProcOf[t]]
          /\ devSess'[ProcOf[t]] # "none"
          /\ \A u \in Threads : Opened(u)' /\ ProcOf[u] = ProcOf[t] => u = t
    BY <1>1, <1>4, <1>6 DEF SInv, SessionInv
  <2>5. QED
    BY <2>1, <2>2, <2>3, <2>4 DEF SessionInv
<1>10. LockInv'
  <2>1. \A v \in Threads : \A u \in Threads \ {v} : ProcOf[u] = ProcOf[v] =>
          /\ Writer(v)' => ~Writer(u)'
          /\ HoldsWrite(v)' => ~HoldsRead(u)'
    BY <1>6 DEF SInv, LockInv
  <2>2. \A v \in Threads : HoldsKey(v)' => key'[th'[v].key].st = "live"
    BY <1>2, <1>6, <1>7, <1>8 DEF SInv, LockInv
  <2>3. \A v, u \in Threads : HoldsKey(v)' /\ HoldsKey(u)' /\ th'[u].key = th'[v].key => u = v
    BY <1>6 DEF SInv, LockInv
  <2>4. \A v \in Threads : th'[v].pc = "reopen" => th'[v].call # "open"
    BY <1>6 DEF SInv, LockInv
  <2>5. QED
    BY <2>1, <2>2, <2>3, <2>4 DEF LockInv
<1>11. GenInv'
  <2>1. ASSUME NEW t \in Threads, th'[t].call = "gen"
        PROVE  /\ key'[th'[t].key].st = "none"
               /\ \A u \in Threads : th'[u].key = th'[t].key => u = t
    <3>1. ProcOf[t] # p /\ th'[t] = th[t] /\ th[t].call = "gen"
      BY <1>6, <2>1
    <3>2. th[t].key \in Keys /\ KeyProc[th[t].key] # p
      BY <1>7, <3>1
    <3>3. key'[th'[t].key].st = "none"
      BY <1>2, <3>1, <3>2 DEF SInv, GenInv
    <3>4. \A u \in Threads : th'[u].key = th'[t].key => th[u].key = th[t].key
      BY <1>4, <1>6, <3>1, <3>2
    <3>5. QED
      BY <3>1, <3>3, <3>4 DEF SInv, GenInv
  <2>2. QED
    BY <2>1 DEF GenInv
<1>12. StampInv'
  <2>1. ASSUME NEW k \in Keys, key'[k].st = "live", vault[key[k].handle] = k
        PROVE  vault'[key'[k].handle] = k
    <3>1. KeyProc[k] # p /\ key'[k] = key[k] /\ key[k].st = "live"
      BY <1>2, <2>1
    <3>2. key[k].handle \in Handles
      BY <3>1, LiveKeyFacts
    <3>3. vault'[key[k].handle] = vault[key[k].handle]
      BY <2>1, <3>1, <3>2 DEF Crash
    <3>4. QED
      BY <2>1, <3>1, <3>3
  <2>2. ASSUME ~astray, NEW k \in Keys, key'[k].st = "live" PROVE KeySafe(k)'
    <3>1. KeyProc[k] \in Procs \ {p} /\ key'[k] = key[k]
      BY <1>2, <1>4, <2>2
    <3>2. QED
      BY <1>1, <2>1, <2>2, <3>1 DEF SInv, StampInv, StampsSafe, KeySafe
  <2>3. ASSUME ~astray, NEW u \in Threads, Cleared(u)' PROVE UseSafe(u)'
    <3>1. ProcOf[u] \in Procs \ {p} /\ th'[u] = th[u] /\ Cleared(u)
      BY <1>4, <1>6, <2>3
    <3>2. key'[th[u].key] = key[th[u].key] /\ sessEpoch'[ProcOf[u]] = sessEpoch[ProcOf[u]]
      BY <1>1, <1>2, <1>7, <1>8, <3>1
    <3>3. QED
      BY <2>3, <3>1, <3>2 DEF SInv, StampInv, StampsSafe, UseSafe
  <2>4. QED
    BY <1>1, <2>2, <2>3 DEF StampInv, StampsSafe, KeySafe, UseSafe
<1>13. QED
  BY <1>9, <1>10, <1>11, <1>12 DEF SInv

\* A reset leaves no session valid.
LEMMA ResetSInv ==
    ASSUME IInv, SInv, Reset
    PROVE  SInv'
<1>0. th \in [Threads -> ThreadRecs]
  BY TypeSplit DEF IInv
<1>1. \A t \in Threads :
        /\ th'[t].pc = th[t].pc /\ th'[t].call = th[t].call /\ th'[t].key = th[t].key
        /\ HoldsWrite(t)' = HoldsWrite(t)
        /\ HoldsRead(t)' = HoldsRead(t)
        /\ HoldsKey(t)' = HoldsKey(t)
        /\ Opened(t)' = Opened(t)
        /\ Writer(t)' = Writer(t)
        /\ Cleared(t)' = Cleared(t)
  BY <1>0 DEF Reset, ThreadRecs, HoldsWrite, HoldsRead, HoldsKey, Opened, Writer, Draining, At, Cleared
<1>2. /\ UNCHANGED <<sessOpen, sessEpoch, key, astray>>
      /\ \A p \in Procs : /\ devSess'[p] # "valid"
                          /\ devSess'[p] = "none" <=> devSess[p] = "none"
  BY DEF Reset, procVars
<1>3. /\ \A t \in Threads : ProcOf[t] \in Procs
      /\ \A k \in Keys : KeyProc[k] \in Procs
  BY ConstantsAssumption
<1>4. SessionInv'
  BY <1>1, <1>2, <1>3 DEF SInv, SessionInv
<1>5. LockInv' /\ GenInv'
  BY <1>1, <1>2 DEF SInv, LockInv, GenInv
<1>6. StampInv'
  BY <1>1, <1>2, <1>3 DEF SInv, StampInv, StampsSafe, KeySafe, UseSafe
<1>7. QED
  BY <1>4, <1>5, <1>6 DEF SInv

\* Initially the loaded keys are where the table says.
LEMMA InitSInv == Init => SInv
<1> SUFFICES ASSUME Init PROVE SInv
  OBVIOUS
<1>1. PICK f \in [Loaded -> Handles] :
        /\ \A j, k \in Loaded : f[j] = f[k] => j = k
        /\ vault = [h \in Handles |-> IF \E k \in Loaded : f[k] = h
                                      THEN CHOOSE k \in Loaded : f[k] = h
                                      ELSE NoKey]
        /\ key = [k \in Keys |->
                    IF k \in Loaded
                    THEN [st |-> "live", handle |-> f[k], epoch |-> 0]
                    ELSE [st |-> "none", handle |-> 0, epoch |-> 0]]
  BY DEF Init
<1>2. \A t \in Threads : /\ th[t].pc = "idle" /\ th[t].call = "none"
                         /\ ~HoldsWrite(t) /\ ~HoldsRead(t) /\ ~HoldsKey(t) /\ ~Opened(t)
                         /\ ~Writer(t) /\ ~Cleared(t)
  BY DEF Init, Idle, HoldsWrite, HoldsRead, HoldsKey, Opened, Writer, Draining, At, Cleared
<1>3. /\ devSess = [p \in Procs |-> "valid"] /\ sessOpen = [p \in Procs |-> TRUE]
      /\ sessEpoch = [p \in Procs |-> 0]
      /\ \A k \in Keys : KeyProc[k] \in Procs
  BY ConstantsAssumption DEF Init
<1>4. SessionInv
  BY <1>2, <1>3 DEF SessionInv
<1>5. LockInv /\ GenInv
  BY <1>2 DEF LockInv, GenInv
<1>6. ASSUME NEW k \in Keys, key[k].st = "live"
      PROVE  key[k].epoch = 0 /\ vault[key[k].handle] = k
  <2>1. k \in Loaded /\ key[k].handle = f[k] /\ key[k].epoch = 0
    BY <1>1, <1>6
  <2>2. f[k] \in Handles
    BY <2>1
  <2>3. (CHOOSE j \in Loaded : f[j] = f[k]) = k
    BY <1>1, <2>1
  <2>4. QED
    BY <1>1, <2>1, <2>2, <2>3
<1>7. StampInv
  BY <1>2, <1>3, <1>6 DEF StampInv, StampsSafe, KeySafe, UseSafe
<1>8. QED
  BY <1>4, <1>5, <1>7 DEF SInv

\* Every step keeps the invariant.
LEMMA NextSInv ==
    ASSUME IInv, SInv, [Next]_vars
    PROVE  SInv'
<1>1. CASE UNCHANGED vars
  BY <1>1 DEF SInv, vars, device, procVars, faults, SessionInv, LockInv, GenInv, StampInv,
              StampsSafe, KeySafe, UseSafe, HoldsWrite, HoldsRead, HoldsKey, Opened,
              Writer, Draining, At, Cleared
<1>2. ASSUME NEW t \in Threads, Step(t) PROVE SInv'
  BY <1>2, StepSessionInv, StepLockInv, StepGenInv, StepStampInv DEF SInv
<1>3. CASE \E t \in Threads : Start(t) \/ Step(t)
  BY <1>2, <1>3, StartSInv
<1>4. CASE \E p \in Procs : Crash(p)
  BY <1>4, CrashSInv
<1>5. CASE Reset
  BY <1>5, ResetSInv
<1>6. QED
  BY <1>1, <1>3, <1>4, <1>5 DEF Next

\* The invariant is one.
LEMMA AlwaysSInv == Spec => []SInv
BY InitSInv, NextSInv, AlwaysIInv, PTL DEF Spec

\* The promise of the restore epoch, for any number of processes, threads, keys,
\* handles, resets, retries and errors: while every stamp was good when it was
\* made, a key that passes the epoch check is the one the device has under that
\* handle, whenever the device accepts the session at all.
THEOREM StampsVouch == Spec => []StampedHandlesHold
<1>1. IInv /\ SInv => StampedHandlesHold
  <2> SUFFICES ASSUME IInv, SInv, ~astray, NEW t \in Threads, Cleared(t),
                      devSess[ProcOf[t]] = "valid", key[th[t].key].st = "live"
               PROVE  vault[key[th[t].key].handle] = th[t].key
    BY DEF StampedHandlesHold
  <2>1. th[t].key \in Keys /\ KeyProc[th[t].key] = ProcOf[t]
    BY ReaderFacts
  <2>2. KeySafe(th[t].key) /\ UseSafe(t)
    BY <2>1 DEF SInv, StampInv, StampsSafe
  <2>3. QED
    BY <2>1, <2>2 DEF KeySafe, UseSafe
<1>2. QED
  BY <1>1, AlwaysIInv, AlwaysSInv, PTL

-----------------------------------------------------------------------------
(* Who waits for whom.  The holder of the file lock waits for nothing.  The
   writer of a barrier waits for the file lock, for the lock of its key or, while
   it is queued, for the readers inside; a reader waits for the lock of its key
   at most; and a key's lock is held by a delete_key of the key's own process,
   which waits for the barrier at most.                                     *)

\* Where no call can go on, the holder of a key's lock is a delete_key that a
\* writer keeps out of the barrier.
LEMMA KeyHolder ==
    ASSUME IInv, NEW t \in Threads, \A u \in Peers(t) : At(u, "idle") \/ Waits(u),
           NEW w \in Peers(t), th[w].pc \in {"epoch", "use", "rekey", "own"}, ~KeyFree(th[w].key)
    PROVE  \E d \in Peers(t) : At(d, "delete") /\ ~CanRead(d) /\ th[d].key = th[w].key
<1>1. PICK d \in Threads : th[d].key = th[w].key /\ HoldsKey(d)
  BY DEF KeyFree
<1>2. w \in Threads /\ ProcOf[w] = ProcOf[t]
  BY DEF Peers
<1>3. /\ th[w].key \in Keys /\ KeyProc[th[w].key] = ProcOf[w]
      /\ th[d].key \in Keys /\ KeyProc[th[d].key] = ProcOf[d]
  BY <1>1, <1>2 DEF IInv, CallInv, RecordOK, CallsAt, HoldsKey
<1>4. d \in Peers(t)
  BY <1>1, <1>2, <1>3 DEF Peers
<1>5. At(d, "delete") /\ ~CanRead(d)
  BY <1>1, <1>4 DEF HoldsKey, At, Waits, Draining
<1>6. QED
  BY <1>1, <1>4, <1>5

\* If that call has the barrier, the two are crossed.
LEMMA BarrierHolder ==
    ASSUME IInv, NEW t \in Threads, \A u \in Peers(t) : At(u, "idle") \/ Waits(u),
           NEW w \in Peers(t), th[w].pc \in {"epoch", "use", "rekey"}, ~KeyFree(th[w].key)
    PROVE  \E u, v \in Peers(t) : Inverted(u, v)
<1>1. PICK d \in Peers(t) : At(d, "delete") /\ ~CanRead(d) /\ th[d].key = th[w].key
  BY KeyHolder
<1>2. Inverted(d, w)
  BY <1>1 DEF Inverted, Peers
<1>3. QED
  BY <1>1, <1>2

\* A barrier with a writer, in a process where no call can go on while nobody
\* has the file lock: the writer, or a reader it waits for, wants the lock of a
\* key whose delete_key wants the barrier.
LEMMA WriterIsInverted ==
    ASSUME IInv, FileLockFree, NEW t \in Threads,
           \A u \in Peers(t) : At(u, "idle") \/ Waits(u),
           NEW w \in Peers(t), Writer(w)
    PROVE  \E u, v \in Peers(t) : Inverted(u, v)
<1>1. w \in Threads /\ ProcOf[w] = ProcOf[t] /\ Waits(w)
  BY DEF Peers, Writer, Draining, HoldsWrite, At
<1>2. CASE HoldsWrite(w)
  <2>1. At(w, "rekey") /\ ~KeyFree(th[w].key)
    BY <1>1, <1>2 DEF Waits, At, HoldsWrite, Draining
  <2>2. QED
    BY <2>1, BarrierHolder DEF At
<1>3. CASE Draining(w)
  <2>1. ~CanWrite(w)
    BY <1>1, <1>3 DEF Waits, At, Draining
  <2>2. PICK r \in Peers(t) : HoldsRead(r)
    BY <1>1, <2>1 DEF CanWrite, Peers
  <2>3. Waits(r)
    BY <2>2 DEF HoldsRead, At
  <2>4. th[r].pc \in {"epoch", "use"} /\ ~KeyFree(th[r].key)
    BY <2>2, <2>3 DEF HoldsRead, Waits, At, Draining
  <2>5. QED
    BY <2>4, BarrierHolder
<1>4. QED
  BY <1>2, <1>3 DEF Writer

\* So a barrier without a writer, with the file lock free, stops nobody for ever.
LEMMA WaitsForWriter ==
    ASSUME IInv, FileLockFree, NEW t \in Threads, Waits(t),
           \A u \in Peers(t) : At(u, "idle") \/ Waits(u)
    PROVE  \E w \in Peers(t) : Writer(w)
<1>1. t \in Peers(t)
  BY DEF Peers
<1>2. ASSUME NEW d \in Peers(t), ~CanRead(d) \/ ~CanQueue(d) PROVE \E w \in Peers(t) : Writer(w)
  BY <1>2 DEF CanRead, CanQueue, Peers, Writer
<1>3. CASE ~CanRead(t) \/ ~CanQueue(t)
  BY <1>1, <1>2, <1>3
<1>4. CASE Draining(t)
  BY <1>1, <1>4 DEF Writer
<1>5. CASE th[t].pc \in {"epoch", "use", "own", "rekey"} /\ ~KeyFree(th[t].key)
  <2>1. PICK d \in Peers(t) : At(d, "delete") /\ ~CanRead(d) /\ th[d].key = th[t].key
    BY <1>1, <1>5, KeyHolder
  <2>2. QED
    BY <1>2, <2>1
<1>6. QED
  BY <1>3, <1>4, <1>5 DEF Waits

\* For any processes, threads and keys, whatever resets, retries, failures and
\* crashes: the calls of a process never all wait for its locks, unless some
\* call holds the file lock and goes on, or delete_key has taken the lock of a
\* key and a recovery or an operation the barrier, each waiting for the other's
\* (the operation's barrier being closed to delete_key by a queued recovery).
THEOREM LocksDrain == Spec => []OnlyInversionLocks
<1>1. IInv => OnlyInversionLocks
  <2> SUFFICES ASSUME IInv, NEW t \in Threads, Waits(t)
               PROVE  \/ \E u \in Peers(t) : ~At(u, "idle") /\ ~Waits(u)
                      \/ \E u \in Threads : HoldsFile(u) /\ ~Waits(u)
                      \/ \E u, v \in Peers(t) : Inverted(u, v)
    BY DEF OnlyInversionLocks
  <2>1. CASE ~FileLockFree
    <3>1. PICK u \in Threads : HoldsFile(u)
      BY <2>1 DEF FileLockFree
    <3>2. ~Waits(u)
      BY <3>1 DEF HoldsFile, Waits, At, Draining
    <3>3. QED
      BY <3>1, <3>2
  <2>2. CASE FileLockFree /\ \A u \in Peers(t) : At(u, "idle") \/ Waits(u)
    <3>1. PICK w \in Peers(t) : Writer(w)
      BY <2>2, WaitsForWriter
    <3>2. QED
      BY <2>2, <3>1, WriterIsInverted
  <2>3. QED
    BY <2>1, <2>2
<1>2. QED
  BY <1>1, AlwaysIInv, PTL

=============================================================================
