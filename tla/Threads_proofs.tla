--------------------------- MODULE Threads_proofs ---------------------------
(***************************************************************************)
(* Proofs about the threads of Sync and of Crackers: Barrier and Semamore, *)
(* for any number of threads and rounds, any modulus of times_used, any    *)
(* ceiling and any sequences of calls; cracker2, whose threads meet at     *)
(* barriers, for any number of workers, users and candidates and any       *)
(* passwords; and cracker1, whose threads share a queue, for any lines and *)
(* any number of workers.                                                  *)
(***************************************************************************)
EXTENDS Sync, Crackers, Sequences, SequenceLemmas, FiniteSetTheorems, TLAPS

(***************************************************************************)
(* Counting modulo m.                                                      *)
(***************************************************************************)
(* The remainder is the only number below m that differs from a by a        *)
(* multiple of m.                                                           *)
LEMMA ModUnique ==
  ASSUME NEW k \in Nat, k > 1, NEW a \in Nat, NEW q \in Int, NEW r \in 0..(k - 1),
         a = q * k + r
  PROVE  a % k = r
<1> DEFINE p == a \div k
           s == a % k
           d == q - p
<1>1. p \in Int /\ s \in 0..(k - 1) /\ a = p * k + s
  OBVIOUS
<1> HIDE DEF p, s
<1>2. d \in Int /\ d * k = s - r
  BY <1>1
<1>3. s - r < k /\ s - r > -k
  BY <1>1
<1> HIDE DEF d
<1>4. d >= 1 => d * k >= k
  BY <1>2
<1>5. d <= -1 => d * k <= -k
  BY <1>2
<1>6. d = 0
  BY <1>2, <1>3, <1>4, <1>5
<1>7. s = r
  BY <1>1, <1>2, <1>6
<1> QED
  BY <1>7 DEF s

(* A counter that wraps around counts modulo k, and its next value is       *)
(* another one.                                                             *)
LEMMA ModStep ==
  ASSUME NEW k \in Nat, k > 1, NEW a \in Nat
  PROVE  /\ ((a % k) + 1) % k = (a + 1) % k
         /\ (a + 1) % k # a % k
         /\ a % k \in 0..(k - 1)
<1> DEFINE p == a \div k
           s == a % k
<1>1. p \in Int /\ s \in 0..(k - 1) /\ a = p * k + s
  OBVIOUS
<1> HIDE DEF p, s
<1>2. CASE s + 1 < k
  <2>1. (a + 1) % k = s + 1
    BY <1>1, <1>2, ModUnique
  <2>2. s + 1 \in 0..(k - 1) /\ s + 1 \in Nat /\ s + 1 = 0 * k + (s + 1)
    BY <1>1, <1>2
  <2>3. (s + 1) % k = s + 1
    BY <2>2, ModUnique
  <2> QED
    BY <1>1, <2>1, <2>3 DEF s
<1>3. CASE s + 1 = k
  <2>1. /\ a + 1 = (p + 1) * k + 0 /\ p + 1 \in Int /\ a + 1 \in Nat
        /\ s + 1 = 1 * k + 0 /\ s + 1 \in Nat /\ 0 \in 0..(k - 1)
    BY <1>1, <1>3
  <2>2. (a + 1) % k = 0
    BY <2>1, ModUnique
  <2>3. (s + 1) % k = 0
    BY <2>1, ModUnique
  <2> QED
    BY <1>1, <1>3, <2>2, <2>3 DEF s
<1> QED
  BY <1>1, <1>2, <1>3

(***************************************************************************)
(* The barrier.                                                            *)
(***************************************************************************)
Arrived(r) == {t \in Threads : entered[t] = r + 1}

(* Thread t when the barrier has opened r times: it is outside, it has not  *)
(* left the round that ended, or it waits for the one that is open.         *)
InRound(t, r) ==
  /\ entered[t] \in {r, r + 1} /\ entered[t] <= Rounds
  /\ left[t] = IF pc[t] \in {"idle", "arrive"} THEN entered[t] ELSE entered[t] - 1
  /\ left[t] >= 0 /\ left[t] <= r
  /\ pc[t] = "arrive" => entered[t] < Rounds
  /\ pc[t] = "return" => entered[t] = r
  /\ pc[t] \in {"test", "asleep"} => stage[t] = left[t] % Modulus
  /\ t \in waiting => pc[t] = "asleep" /\ entered[t] = r + 1
  /\ ret[t] = left[t] % Modulus

RoundInv(r) ==
  /\ times_used = r % Modulus
  /\ count = Cardinality(Arrived(r))
  /\ \A t \in Threads : InRound(t, r)

(* The inductive invariant.  The number of openings is in no variable:      *)
(* times_used has it modulo Modulus only.                                   *)
BarrierInv == TypeOK /\ \E r \in 0..Rounds : RoundInv(r)

LEMMA BarrierInit == Init => BarrierInv
<1> SUFFICES ASSUME Init PROVE BarrierInv
  OBVIOUS
<1> USE BarrierAssumption
<1>1. n_threads \in Nat /\ n_threads > 0
  BY FS_CardinalityType, FS_EmptySet DEF n_threads
<1>2. TypeOK
  BY <1>1 DEF Init, TypeOK
<1>3. 0 % Modulus = 0
  OBVIOUS
<1>4. Arrived(0) = {}
  BY DEF Arrived, Init
<1>5. RoundInv(0)
  BY <1>3, <1>4, FS_EmptySet DEF RoundInv, InRound, Init
<1> QED
  BY <1>2, <1>5 DEF BarrierInv

(* The threads that do not arrive or leave stay where they are in the round. *)
LEMMA OthersStay ==
  ASSUME NEW r \in Nat, NEW t \in Threads, NEW u \in Threads, u # t,
         TypeOK, InRound(u, r),
         pc'[u] = pc[u], stage'[u] = stage[u], ret'[u] = ret[u],
         entered'[u] = entered[u], left'[u] = left[u],
         u \in waiting' => u \in waiting
  PROVE  InRound(u, r)'
BY DEF InRound

(* A step that is no arrival leaves count and times_used alone and keeps    *)
(* the round.                                                               *)
LEMMA SameRound ==
  ASSUME NEW r \in Nat, RoundInv(r), UNCHANGED <<count, times_used, entered>>,
         \A t \in Threads : InRound(t, r)'
  PROVE  RoundInv(r)'
BY DEF RoundInv, Arrived

(* When all but the last thread have arrived, all but it are in the round.  *)
LEMMA LastIsLast ==
  ASSUME NEW r \in Nat, NEW t \in Threads, TypeOK, RoundInv(r),
         pc[t] = "arrive", LastOne
  PROVE  \A u \in Threads \ {t} : entered[u] = r + 1
<1>1. t \notin Arrived(r)
  BY DEF Arrived, RoundInv, InRound, TypeOK
<1>2. /\ IsFiniteSet(Threads \ {t}) /\ Cardinality(Threads \ {t}) = n_threads - 1
      /\ n_threads \in Nat
  BY BarrierAssumption, FS_RemoveElement, FS_CardinalityType DEF n_threads
<1>3. Arrived(r) \subseteq Threads \ {t}
  BY <1>1 DEF Arrived
<1>4. /\ Cardinality(Arrived(r)) <= n_threads - 1
      /\ Cardinality(Arrived(r)) = n_threads - 1 => Arrived(r) = Threads \ {t}
      /\ Cardinality(Arrived(r)) \in Nat
  BY <1>2, <1>3, FS_Subset, FS_CardinalityType
<1>5. Cardinality(Arrived(r)) = n_threads - 1
  BY <1>2, <1>4 DEF RoundInv, LastOne
<1> QED
  BY <1>4, <1>5 DEF Arrived

LEMMA BarrierNext == BarrierInv /\ [Next]_vars => BarrierInv'
<1> SUFFICES ASSUME BarrierInv, [Next]_vars PROVE BarrierInv'
  OBVIOUS
<1>0. TypeOK /\ Modulus \in Nat /\ Modulus > 1 /\ Rounds \in Nat
  BY BarrierAssumption DEF BarrierInv
<1>r. PICK r \in 0..Rounds : RoundInv(r)
  BY DEF BarrierInv
<1>n. r \in Nat /\ \A t \in Threads : InRound(t, r)
  BY <1>0, <1>r DEF RoundInv
<1>c. n_threads \in Nat /\ n_threads > 0
  BY BarrierAssumption, FS_CardinalityType, FS_EmptySet DEF n_threads
<1>a. ASSUME NEW t \in Threads, pc[t] = "arrive"
      PROVE  entered[t] = r /\ left[t] = r /\ r < Rounds
  BY <1>0, <1>a, <1>n DEF InRound, TypeOK
<1>1. ASSUME NEW t \in Threads, Enter(t) PROVE BarrierInv'
  <2>1. TypeOK'
    BY <1>0, <1>1 DEF TypeOK, Enter
  <2>2. \A u \in Threads : InRound(u, r)'
    BY <1>0, <1>1, <1>n, OthersStay DEF TypeOK, Enter, InRound
  <2> QED
    BY <1>1, <1>n, <1>r, <2>1, <2>2, SameRound DEF BarrierInv, Enter
<1>2. ASSUME NEW t \in Threads, Open(t) PROVE BarrierInv'
  <2>1. \A u \in Threads \ {t} : entered[u] = r + 1
    BY <1>0, <1>2, <1>n, <1>r, LastIsLast DEF Open
  <2>2. /\ entered[t] = r /\ left[t] = r /\ r < Rounds
        /\ entered' = [entered EXCEPT ![t] = r + 1]
    BY <1>2, <1>a DEF Open
  <2>3. times_used' = (r + 1) % Modulus /\ times_used' \in 0..(Modulus - 1)
    <3>1. times_used' = (r + 1) % Modulus
      BY <1>0, <1>2, <1>n, <1>r, ModStep DEF Open, RoundInv
    <3> QED
      BY <1>0, <1>n, <3>1, ModStep
  <2>4. TypeOK'
    BY <1>0, <1>2, <1>c, <2>3 DEF TypeOK, Open
  <2>5. \A u \in Threads : InRound(u, r + 1)'
    BY <1>0, <1>2, <1>n, <2>1, <2>2 DEF TypeOK, Open, InRound
  <2>6. Arrived(r + 1)' = {}
    BY <1>0, <1>n, <2>1, <2>2 DEF Arrived, TypeOK
  <2>7. RoundInv(r + 1)'
    BY <1>2, <2>3, <2>5, <2>6, FS_EmptySet DEF RoundInv, Open
  <2> QED
    BY <1>0, <1>n, <2>2, <2>4, <2>7 DEF BarrierInv
<1>3. ASSUME NEW t \in Threads, Arrive(t) PROVE BarrierInv'
  <2>2. /\ entered[t] = r /\ left[t] = r /\ r < Rounds
        /\ stage' = [stage EXCEPT ![t] = r % Modulus]
    BY <1>3, <1>a, <1>r DEF Arrive, RoundInv
  <2>4. TypeOK'
    BY <1>0, <1>3, <1>c DEF TypeOK, Arrive, LastOne
  <2>5. \A u \in Threads : InRound(u, r)'
    BY <1>0, <1>3, <1>n, <2>2, OthersStay DEF TypeOK, Arrive, InRound
  <2>6. Arrived(r)' = Arrived(r) \cup {t} /\ t \notin Arrived(r)
    BY <1>0, <1>3, <1>n, <2>2 DEF Arrived, TypeOK, Arrive
  <2>7. IsFiniteSet(Arrived(r))
    BY BarrierAssumption, FS_Subset DEF Arrived
  <2>8. Cardinality(Arrived(r)') = count + 1
    BY <1>r, <2>6, <2>7, FS_AddElement DEF RoundInv
  <2>9. RoundInv(r)'
    BY <1>3, <1>r, <2>5, <2>8 DEF RoundInv, Arrive
  <2> QED
    BY <2>4, <2>9 DEF BarrierInv
<1>4. ASSUME NEW t \in Threads, Sleep(t) PROVE BarrierInv'
  <2>1. TypeOK'
    BY <1>0, <1>4 DEF TypeOK, Sleep
  <2>2. entered[t] = r + 1
    <3>1. left[t] \in Nat /\ entered[t] = left[t] + 1 /\ left[t] % Modulus = r % Modulus
      BY <1>0, <1>4, <1>n, <1>r DEF Sleep, InRound, TypeOK, RoundInv
    <3>2. (left[t] + 1) % Modulus # left[t] % Modulus
      BY <1>0, <3>1, ModStep
    <3> QED
      BY <1>0, <1>n, <3>1, <3>2 DEF InRound
  <2>3. \A u \in Threads : InRound(u, r)'
    BY <1>0, <1>4, <1>n, <2>2, OthersStay DEF TypeOK, Sleep, InRound
  <2> QED
    BY <1>4, <1>n, <1>r, <2>1, <2>3, SameRound DEF BarrierInv, Sleep
<1>5. ASSUME NEW t \in Threads, Relock(t) PROVE BarrierInv'
  <2>1. TypeOK'
    BY <1>0, <1>5 DEF TypeOK, Relock
  <2>2. \A u \in Threads : InRound(u, r)'
    BY <1>0, <1>5, <1>n, OthersStay DEF TypeOK, Relock, InRound
  <2> QED
    BY <1>5, <1>n, <1>r, <2>1, <2>2, SameRound DEF BarrierInv, Relock
<1>6. ASSUME NEW t \in Threads, Pass(t) PROVE BarrierInv'
  <2>1. TypeOK'
    BY <1>0, <1>6 DEF TypeOK, Pass
  <2>2. entered[t] = r
    BY <1>0, <1>6, <1>n, <1>r DEF TypeOK, Pass, InRound, RoundInv
  <2>3. \A u \in Threads : InRound(u, r)'
    BY <1>0, <1>6, <1>n, <2>2, OthersStay DEF TypeOK, Pass, InRound
  <2> QED
    BY <1>6, <1>n, <1>r, <2>1, <2>3, SameRound DEF BarrierInv, Pass
<1>7. ASSUME NEW t \in Threads, Return(t) PROVE BarrierInv'
  <2>1. TypeOK'
    BY <1>0, <1>7 DEF TypeOK, Return
  <2>2. entered[t] = r /\ left[t] = r - 1 /\ times_used = r % Modulus
    BY <1>0, <1>7, <1>n, <1>r DEF TypeOK, Return, InRound, RoundInv
  <2>3. \A u \in Threads : InRound(u, r)'
    BY <1>0, <1>7, <1>n, <2>2, OthersStay DEF TypeOK, Return, InRound
  <2> QED
    BY <1>7, <1>n, <1>r, <2>1, <2>3, SameRound DEF BarrierInv, Return
<1>8. ASSUME NEW t \in Threads, SpuriousWake(t) PROVE BarrierInv'
  <2>1. TypeOK'
    BY <1>0, <1>8 DEF TypeOK, SpuriousWake
  <2>2. \A u \in Threads : InRound(u, r)'
    BY <1>0, <1>8, <1>n DEF TypeOK, SpuriousWake, InRound
  <2> QED
    BY <1>8, <1>n, <1>r, <2>1, <2>2, SameRound DEF BarrierInv, SpuriousWake
<1>9. CASE UNCHANGED vars
  BY ZenonT(60), <1>9 DEF BarrierInv, RoundInv, InRound, Arrived, TypeOK, vars
<1> QED
  BY <1>1, <1>2, <1>3, <1>4, <1>5, <1>6, <1>7, <1>8, <1>9
  DEF Next, Lock, Holding, Terminated

LEMMA BarrierSafe == BarrierInv => RoundsSeparate /\ NoStrandedWaiter
<1> SUFFICES ASSUME BarrierInv PROVE RoundsSeparate /\ NoStrandedWaiter
  OBVIOUS
<1>0. TypeOK
  BY DEF BarrierInv
<1>1. PICK r \in 0..Rounds : RoundInv(r)
  BY DEF BarrierInv
<1>2. r \in Nat /\ \A t \in Threads : InRound(t, r)
  BY <1>1, BarrierAssumption DEF RoundInv
<1>3. RoundsSeparate
  BY <1>0, <1>2 DEF RoundsSeparate, InRound, TypeOK
<1>4. ASSUME NEW t \in waiting PROVE stage[t] = times_used
  <2>1. t \in Threads /\ left[t] = r /\ stage[t] = left[t] % Modulus
    BY <1>0, <1>2, <1>4 DEF InRound, TypeOK
  <2> QED
    BY <1>1, <2>1 DEF RoundInv
<1> QED
  BY <1>3, <1>4 DEF NoStrandedWaiter

(* barrier.c keeps its rounds apart and returns the number of the round,    *)
(* for every number of threads and rounds and every width of times_used:    *)
(* nobody leaves a round of barrier_wait before all have entered it.        *)
THEOREM BarrierRounds == Spec => []RoundsSeparate
BY BarrierInit, BarrierNext, BarrierSafe, PTL DEF Spec

(***************************************************************************)
(* The semamore.                                                           *)
(***************************************************************************)
(* The inductive invariant: a sleeper is inside a call, so that neither a   *)
(* new call nor the mutex changes what it waits for.                        *)
SemInv ==
  /\ spc \in [Threads -> {"idle", "wait", "post", "wait_test", "post_test"}]
  /\ at \in [Threads -> Nat]
  /\ sleeping \subseteq Threads
  /\ \A t \in sleeping : spc[t] \in {"wait", "post"}
  /\ Sem!NoStrandedWaiter

LEMMA SemInit == Sem!Init => SemInv
BY SemAssumption DEF Sem!SemamoreAssumption, Sem!Init, SemInv, Sem!NoStrandedWaiter

(* Going to sleep when the call has to wait. *)
LEMMA SemSleeps ==
  ASSUME SemInv, NEW t \in Threads, NEW call \in {"wait", "post"},
         Sem!MustWait(call), Sem!CondWait(t, call)
  PROVE  SemInv'
BY DEF SemInv, Sem!CondWait, Sem!NoStrandedWaiter, Sem!MustWait, Sem!AtCeiling

(* A new value in range, with everybody woken. *)
LEMMA SemChanges ==
  ASSUME SemInv, NEW t \in Threads, NEW v \in 0..max_val, Sem!Change(t, v)
  PROVE  SemInv'
BY DEF SemInv, Sem!Change, Sem!NoStrandedWaiter

LEMMA SemNext == SemInv /\ [Sem!Next]_semvars => SemInv'
<1> SUFFICES ASSUME SemInv, [Sem!Next]_semvars PROVE SemInv'
  OBVIOUS
<1>0. /\ value \in 0..max_val /\ max_val \in Nat
      /\ Program \in [Threads -> Seq({"wait", "post"})]
  BY SemAssumption DEF SemInv, Sem!NoStrandedWaiter, Sem!SemamoreAssumption
<1>1. ASSUME NEW t \in Threads, Sem!Call(t) PROVE SemInv'
  <2>1. Program[t][at[t] + 1] \in {"wait", "post"}
    <3>1. Program[t] \in Seq({"wait", "post"}) /\ at[t] + 1 \in 1..Len(Program[t])
      BY <1>0, <1>1 DEF SemInv, Sem!Call
    <3> QED
      BY <3>1
  <2>2. t \notin sleeping
    BY <1>1 DEF SemInv, Sem!Call
  <2> QED
    BY <1>1, <2>1, <2>2 DEF SemInv, Sem!Call, Sem!NoStrandedWaiter, Sem!MustWait, Sem!AtCeiling
<1>2. ASSUME NEW t \in Threads, Sem!Lock(t) PROVE SemInv'
  BY <1>2 DEF SemInv, Sem!Lock, Sem!NoStrandedWaiter, Sem!MustWait, Sem!AtCeiling
<1>3. ASSUME NEW t \in Threads, Sem!SpuriousWake(t) PROVE SemInv'
  BY <1>3 DEF SemInv, Sem!SpuriousWake, Sem!NoStrandedWaiter, Sem!MustWait, Sem!AtCeiling
<1>4. ASSUME NEW t \in Threads, Sem!semm_wait_block(t) PROVE SemInv'
  BY <1>4, SemSleeps DEF Sem!semm_wait_block, Sem!MustWait
<1>5. ASSUME NEW t \in Threads, Sem!semm_post_block(t) PROVE SemInv'
  BY <1>5, SemSleeps DEF Sem!semm_post_block, Sem!MustWait
<1>6. ASSUME NEW t \in Threads, Sem!semm_wait_take(t) PROVE SemInv'
  BY <1>0, <1>6, SemChanges DEF Sem!semm_wait_take
<1>7. ASSUME NEW t \in Threads, Sem!semm_post_give(t) PROVE SemInv'
  BY <1>0, <1>7, SemChanges DEF Sem!semm_post_give, Sem!AtCeiling
<1>8. CASE UNCHANGED semvars
  BY <1>8 DEF semvars, SemInv, Sem!NoStrandedWaiter, Sem!MustWait, Sem!AtCeiling
<1> QED
  BY <1>1, <1>2, <1>3, <1>4, <1>5, <1>6, <1>7, <1>8
  DEF Sem!Next, Sem!Step, Sem!Terminated, Sem!vars, semvars

(***************************************************************************)
(* Either of them.                                                         *)
(***************************************************************************)
SyncInv == BarrierInv /\ SemInv

LEMMA SyncSafe == SyncSpec => []SyncInv
<1>1. SyncInit => SyncInv
  BY BarrierInit, SemInit DEF SyncInit, SyncInv
<1>2. SyncInv /\ [SyncNext]_allvars => SyncInv'
  BY BarrierNext, SemNext DEF SyncInv, SyncNext, allvars, UsesBarrier, UsesSemamore
<1> QED
  BY <1>1, <1>2, PTL DEF SyncSpec

(* The same of the specification that the run checks. *)
THEOREM SyncRounds == SyncSpec => []RoundsSeparate
<1>1. SyncInv => RoundsSeparate
  BY BarrierSafe DEF SyncInv
<1> QED
  BY <1>1, SyncSafe, PTL

(* Nobody sleeps in barrier_wait, semm_wait or semm_post who could go on,   *)
(* and the semamore's value stays in range: one condition variable for      *)
(* waiters and posters is enough because every change wakes all of them.    *)
THEOREM SyncNobodyStranded == SyncSpec => []NobodyStranded
<1>1. SyncInv => NobodyStranded
  BY BarrierSafe DEF SyncInv, SemInv, NobodyStranded
<1> QED
  BY <1>1, SyncSafe, PTL

-----------------------------------------------------------------------------
(***************************************************************************)
(* cracker2                                                                *)
(***************************************************************************)
Positions == 0..(Candidates - 1)
Answers == (1..Users) \X Workers \X Positions

C2TypeOK ==
  /\ main2 \in {"read", "start", "end", "summary", "last", "join", "done"}
  /\ user \in 0..Users /\ working \in {0, 1}
  /\ answer \in Answers \cup {Nothing}
  /\ pc2 \in [Workers -> {"start", "begin", "test", "hash", "end", "done"}]
  /\ i \in [Workers -> 0..Candidates] /\ of \in [Workers -> 0..Users]
  /\ result2 \in [Workers -> {0, 1, 2}]
  /\ DOMAIN summary2 = 1..Users /\ summary2 = [k \in 1..Users |-> summary2[k]]

(* Where main is, and what it has set, tells where the workers can be: the  *)
(* barriers alone see to that.                                              *)
Phases ==
  /\ main2 \in {"read", "start", "summary", "last"} => \A w \in Workers : pc2[w] = "start"
  /\ main2 = "end" => \A w \in Workers : pc2[w] \in {"begin", "test", "hash", "end"}
  /\ main2 \in {"join", "done"} => \A w \in Workers : pc2[w] \in {"begin", "done"}
  /\ main2 \in {"start", "end"} => working = 1
  /\ main2 \in {"last", "join", "done"} => working = 0
  /\ main2 \in {"start", "end", "summary"} => user > 0
  /\ main2 = "start" => answer = Nothing

(* answer points to a password of the present user. *)
AnswerRight ==
  answer # Nothing => answer[1] = user /\ <<answer[2], answer[3]>> \in Secret[user]

(* While the workers search: who tests or hashes has found nothing so far,  *)
(* who is done found something, gave up because of an answer, or tried all. *)
Searched(w) ==
  /\ pc2[w] \in {"test", "hash", "end"} => of[w] = user
  /\ pc2[w] \in {"test", "hash"} => result2[w] = 2
  /\ pc2[w] = "hash" => i[w] < Candidates
  /\ pc2[w] \in {"test", "hash"} => \A j \in Positions : j < i[w] => <<w, j>> \notin Secret[user]
  /\ pc2[w] = "end" /\ result2[w] \in {0, 1} => answer # Nothing
  /\ pc2[w] = "end" /\ result2[w] = 2 => \A j \in Positions : <<w, j>> \notin Secret[user]

(* The worker that wrote answer waits at barrier_end. *)
Finder == answer # Nothing => pc2[answer[2]] = "end" /\ result2[answer[2]] = 0

Summaries ==
  \A k \in 1..Users : summary2[k] # Nothing =>
    /\ summary2[k].found <=> Secret[k] # {}
    /\ summary2[k].found => /\ summary2[k].by[1] = k
                           /\ <<summary2[k].by[2], summary2[k].by[3]>> \in Secret[k]

(* The inductive invariant. *)
C2Inv ==
  /\ C2TypeOK
  /\ Phases
  /\ main2 \in {"end", "summary"} => AnswerRight
  /\ main2 = "end" => Finder /\ \A w \in Workers : Searched(w)
  /\ main2 = "summary" => (answer # Nothing <=> Secret[user] # {})
  /\ Summaries

LEMMA C2Initially == ASSUME C2!Cracker2Assumption PROVE C2!Init => C2Inv
BY DEF C2!Cracker2Assumption, C2!Init, C2Inv, C2TypeOK, Phases, Summaries

(* When every worker has come to barrier_end, an answer is there exactly if *)
(* the user has a password among the candidates.                            *)
LEMMA AllSearched ==
  ASSUME C2!Cracker2Assumption, C2Inv, main2 = "end", \A w \in Workers : pc2[w] = "end"
  PROVE  answer # Nothing <=> Secret[user] # {}
<1>1. user \in 1..Users /\ Secret[user] \subseteq Workers \X Positions
  BY DEF C2!Cracker2Assumption, C2Inv, C2TypeOK, Phases, Positions
<1>2. ASSUME answer # Nothing PROVE Secret[user] # {}
  BY <1>2 DEF C2Inv, AnswerRight
<1>3. ASSUME answer = Nothing, Secret[user] # {} PROVE FALSE
  <2>1. PICK w \in Workers, j \in Positions : <<w, j>> \in Secret[user]
    BY <1>1, <1>3
  <2>2. result2[w] = 2
    BY <1>3 DEF C2Inv, Searched, C2TypeOK
  <2> QED
    BY <2>1, <2>2 DEF C2Inv, Searched
<1> QED
  BY <1>2, <1>3

LEMMA C2Step == ASSUME C2!Cracker2Assumption PROVE C2Inv /\ [C2!Next]_(C2!vars) => C2Inv'
<1> SUFFICES ASSUME C2Inv, [C2!Next]_(C2!vars) PROVE C2Inv'
  OBVIOUS
<1>0. /\ C2TypeOK /\ Phases /\ Summaries
      /\ Users \in Nat /\ Candidates \in Nat /\ Nothing \notin Answers
  BY DEF C2Inv, C2!Cracker2Assumption, Answers, Positions
<1>1. CASE C2!NextUser
  <2>1. /\ main2 = "read" /\ main2' = "start" /\ answer' = Nothing /\ working' = 1
        /\ user' = user + 1 /\ user < Users
        /\ UNCHANGED <<pc2, i, of, result2, summary2>>
    BY <1>1 DEF C2!NextUser, C2!Reset
  <2>2. user' \in 1..Users
    BY <1>0, <2>1 DEF C2TypeOK
  <2>3. C2TypeOK'
    BY <1>0, <2>1, <2>2 DEF C2TypeOK
  <2>4. Phases'
    BY <1>0, <2>1, <2>2 DEF Phases
  <2>5. Summaries'
    BY <1>0, <2>1 DEF Summaries
  <2> QED
    BY <2>1, <2>3, <2>4, <2>5 DEF C2Inv
<1>2. CASE C2!NoMoreUsers
  BY ZenonT(60), <1>0, <1>2 DEF C2!NoMoreUsers, C2Inv, C2TypeOK, Phases, Summaries
<1>3. CASE C2!Summarise
  <2>1. C2TypeOK' /\ Phases' /\ main2' = "read"
    BY <1>0, <1>3 DEF C2!Summarise, C2TypeOK, Phases
  <2>2. /\ user \in 1..Users
        /\ \A k \in 1..Users : summary2'[k] = IF k = user
             THEN [found |-> answer # Nothing, by |-> answer] ELSE summary2[k]
    BY <1>0, <1>3 DEF C2!Summarise, C2TypeOK, Phases
  <2>3. AnswerRight /\ (answer # Nothing <=> Secret[user] # {})
    BY <1>3 DEF C2!Summarise, C2Inv
  <2>4. ASSUME NEW k \in 1..Users, summary2'[k] # Nothing
        PROVE  /\ summary2'[k].found <=> Secret[k] # {}
               /\ summary2'[k].found => /\ summary2'[k].by[1] = k
                                       /\ <<summary2'[k].by[2], summary2'[k].by[3]>> \in Secret[k]
    <3>1. CASE k = user
      <4>1. summary2'[k].found = (answer # Nothing) /\ summary2'[k].by = answer
        BY <2>2, <3>1
      <4> QED
        BY <2>3, <3>1, <4>1 DEF AnswerRight
    <3>2. CASE k # user
      <4>1. summary2'[k] = summary2[k]
        BY <2>2, <3>2
      <4> QED
        BY <1>0, <2>4, <4>1 DEF Summaries
    <3> QED
      BY <3>1, <3>2
  <2>5. Summaries'
    BY <2>4 DEF Summaries
  <2> QED
    BY <2>1, <2>5 DEF C2Inv
<1>4. CASE C2!barrier_start
  <2>1. C2TypeOK' /\ Phases' /\ Summaries'
    BY <1>0, <1>4 DEF C2!barrier_start, C2TypeOK, Phases, Summaries
  <2>2. main2' = "end" => answer' = Nothing /\ \A w \in Workers : pc2'[w] = "begin"
    BY <1>0, <1>4 DEF C2!barrier_start, Phases
  <2>3. main2' \in {"end", "join"}
    BY <1>4 DEF C2!barrier_start
  <2> QED
    BY <2>1, <2>2, <2>3 DEF C2Inv, AnswerRight, Finder, Searched
<1>5. CASE C2!barrier_end
  <2>1. C2TypeOK' /\ Phases' /\ Summaries' /\ main2' = "summary"
    BY ZenonT(60), <1>0, <1>5 DEF C2!barrier_end, C2TypeOK, Phases, Summaries
  <2>2. answer # Nothing <=> Secret[user] # {}
    BY <1>5, AllSearched DEF C2!barrier_end
  <2>3. AnswerRight /\ UNCHANGED <<user, answer>>
    BY <1>5 DEF C2Inv, C2!barrier_end
  <2>4. AnswerRight'
    BY <2>3 DEF AnswerRight
  <2> QED
    BY <2>1, <2>2, <2>3, <2>4 DEF C2Inv
<1>6. ASSUME NEW w \in Workers, C2!Begin(w) PROVE C2Inv'
  <2>1. C2TypeOK' /\ Phases' /\ Summaries'
    <3>0. UNCHANGED <<main2, user, working, answer, summary2>>
      BY <1>6 DEF C2!Begin
    <3>1. CASE working = 0
      <4>1. pc2' = [pc2 EXCEPT ![w] = "done"] /\ UNCHANGED <<i, of, result2>>
        BY <1>6, <3>1 DEF C2!Begin
      <4>2. C2TypeOK'
        BY <1>0, <3>0, <4>1 DEF C2TypeOK
      <4>3. main2 \in {"join", "done"}
        BY <1>0, <1>6, <3>1 DEF C2!Begin, C2TypeOK, Phases
      <4>4. Phases'
        BY <1>0, <3>0, <3>1, <4>1, <4>3 DEF C2TypeOK, Phases
      <4> QED
        BY <1>0, <3>0, <4>2, <4>4 DEF Summaries
    <3>2. CASE working # 0
      <4>1. /\ pc2' = [pc2 EXCEPT ![w] = "test"] /\ i' = [i EXCEPT ![w] = 0]
            /\ of' = [of EXCEPT ![w] = user] /\ result2' = [result2 EXCEPT ![w] = 2]
        BY <1>6, <3>2 DEF C2!Begin
      <4>2. C2TypeOK'
        BY <1>0, <3>0, <4>1 DEF C2TypeOK
      <4>3. main2 = "end"
        BY <1>0, <1>6, <3>2 DEF C2!Begin, C2TypeOK, Phases
      <4>4. Phases'
        BY <1>0, <3>0, <3>2, <4>1, <4>3 DEF C2TypeOK, Phases
      <4> QED
        BY <1>0, <3>0, <4>2, <4>4 DEF Summaries
    <3> QED
      BY <3>1, <3>2
  <2>2. main2 \in {"end", "join", "done"}
    BY <1>0, <1>6 DEF C2!Begin, C2TypeOK, Phases
  <2>3. CASE main2 = "end"
    <3>1. /\ working = 1 /\ AnswerRight' /\ UNCHANGED <<main2, user, answer>>
          /\ pc2' = [pc2 EXCEPT ![w] = "test"] /\ i' = [i EXCEPT ![w] = 0]
          /\ of' = [of EXCEPT ![w] = user] /\ result2' = [result2 EXCEPT ![w] = 2]
      BY <1>0, <1>6, <2>3 DEF C2!Begin, Phases, C2Inv, AnswerRight
    <3>2. Finder'
      BY <1>0, <1>6, <2>3, <3>1 DEF C2Inv, Finder, C2!Begin, C2TypeOK, Answers
    <3>3. ASSUME NEW v \in Workers PROVE Searched(v)'
      BY <1>0, <2>3, <3>1 DEF C2Inv, Searched, C2TypeOK, Positions
    <3> QED
      BY <2>1, <2>3, <3>1, <3>2, <3>3 DEF C2Inv
  <2>4. CASE main2 \in {"join", "done"}
    BY <1>6, <2>1, <2>4 DEF C2!Begin, C2Inv
  <2> QED
    BY <2>2, <2>3, <2>4
<1>7. ASSUME NEW w \in Workers, C2!Test(w) PROVE C2Inv'
  <2>1. main2 = "end"
    BY <1>0, <1>7 DEF C2!Test, C2TypeOK, Phases
  <2>2. C2TypeOK' /\ Phases' /\ Summaries'
    BY ZenonT(60), <1>0, <1>7, <2>1 DEF C2!Test, C2TypeOK, Phases, Summaries
  <2>3. AnswerRight' /\ UNCHANGED <<main2, user, answer, i, of>>
    BY <1>7, <2>1 DEF C2!Test, C2Inv, AnswerRight
  <2>4. Finder'
    BY <1>0, <1>7, <2>1, <2>3 DEF C2Inv, Finder, C2!Test, C2TypeOK, Answers
  <2>5. ASSUME NEW v \in Workers PROVE Searched(v)'
    <3>1. CASE v = w
      <4>1. of[w] = user /\ result2[w] = 2 /\ i[w] \in 0..Candidates
        BY <1>0, <1>7, <2>1 DEF C2Inv, Searched, C2!Test, C2TypeOK
      <4>2. \A j \in Positions : j < i[w] => <<w, j>> \notin Secret[user]
        BY <1>7, <2>1 DEF C2Inv, Searched, C2!Test
      <4>3. /\ pc2'[w] = IF i[w] < Candidates /\ answer = Nothing THEN "hash" ELSE "end"
            /\ result2'[w] = IF i[w] < Candidates /\ answer # Nothing THEN 1 ELSE 2
        BY <1>0, <1>7, <4>1 DEF C2!Test, C2TypeOK
      <4> QED
        BY <1>0, <2>3, <3>1, <4>1, <4>2, <4>3 DEF Searched, Positions
    <3>2. CASE v # w
      BY <1>0, <1>7, <2>1, <2>3, <3>2 DEF C2Inv, Searched, C2!Test, C2TypeOK
    <3> QED
      BY <3>1, <3>2
  <2> QED
    BY <2>1, <2>2, <2>3, <2>4, <2>5 DEF C2Inv
<1>8. ASSUME NEW w \in Workers, C2!Hash(w) PROVE C2Inv'
  <2>1. main2 = "end"
    BY <1>0, <1>8 DEF C2!Hash, C2TypeOK, Phases
  <2>2. /\ of[w] = user /\ result2[w] = 2 /\ i[w] \in Positions /\ user \in 1..Users
        /\ \A j \in Positions : j < i[w] => <<w, j>> \notin Secret[user]
    BY <1>0, <1>8, <2>1 DEF C2Inv, Searched, C2!Hash, C2TypeOK, Positions, Phases
  <2>3. UNCHANGED <<main2, user, working, of, summary2>>
    BY <1>8 DEF C2!Hash
  <2>4. CASE <<w, i[w]>> \in Secret[user]
    <3>1. /\ answer' = <<user, w, i[w]>> /\ result2' = [result2 EXCEPT ![w] = 0]
          /\ pc2' = [pc2 EXCEPT ![w] = "end"] /\ i' = i
      BY <1>8, <2>2, <2>4 DEF C2!Hash
    <3>2. answer' \in Answers /\ answer' # Nothing
      BY <1>0, <2>2, <3>1 DEF Answers
    <3>3. C2TypeOK' /\ Phases' /\ Summaries'
      <4>1. C2TypeOK'
        BY <1>0, <2>3, <3>1, <3>2 DEF C2TypeOK
      <4>2. Phases'
        BY <1>0, <2>1, <2>3, <3>1 DEF C2TypeOK, Phases
      <4>3. Summaries'
        BY <1>0, <2>1, <2>3, <3>1, <3>2 DEF Summaries
      <4> QED
        BY <4>1, <4>2, <4>3
    <3>4. AnswerRight'
      BY <2>3, <2>4, <3>1 DEF AnswerRight
    <3>5. Finder'
      BY <1>0, <3>1 DEF Finder, C2TypeOK
    <3>6. ASSUME NEW v \in Workers PROVE Searched(v)'
      BY <1>0, <2>1, <2>2, <2>3, <3>1, <3>2 DEF C2Inv, Searched, C2TypeOK
    <3> QED
      BY <2>1, <2>3, <3>3, <3>4, <3>5, <3>6 DEF C2Inv
  <2>5. CASE <<w, i[w]>> \notin Secret[user]
    <3>1. /\ answer' = answer /\ result2' = result2
          /\ pc2' = [pc2 EXCEPT ![w] = "test"] /\ i' = [i EXCEPT ![w] = i[w] + 1]
      BY <1>8, <2>2, <2>5 DEF C2!Hash
    <3>2. C2TypeOK' /\ Phases' /\ Summaries'
      <4>1. i[w] + 1 \in 0..Candidates
        BY <1>0, <2>2 DEF Positions
      <4>2. C2TypeOK'
        BY <1>0, <2>3, <3>1, <4>1 DEF C2TypeOK
      <4>3. Phases'
        BY <1>0, <2>1, <2>3, <3>1 DEF C2TypeOK, Phases
      <4>4. Summaries'
        BY <1>0, <2>3 DEF Summaries
      <4> QED
        BY <4>2, <4>3, <4>4
    <3>3. AnswerRight'
      BY <2>1, <2>3, <3>1 DEF AnswerRight, C2Inv
    <3>4. Finder'
      <4>1. Finder /\ pc2[w] = "hash"
        BY <1>8, <2>1 DEF C2Inv, C2!Hash
      <4>2. answer # Nothing => answer[2] \in Workers /\ answer[2] # w
        BY <1>0, <4>1 DEF Finder, C2TypeOK, Answers
      <4> QED
        BY <1>0, <3>1, <4>1, <4>2 DEF Finder, C2TypeOK
    <3>5. ASSUME NEW v \in Workers PROVE Searched(v)'
      <4>1. CASE v = w
        <5>1. pc2'[w] = "test" /\ i'[w] = i[w] + 1 /\ of'[w] = user' /\ result2'[w] = 2
          BY <1>0, <2>2, <2>3, <3>1 DEF C2TypeOK
        <5>2. ASSUME NEW j \in Positions, j < i'[w] PROVE <<w, j>> \notin Secret[user]
          <6>1. j = i[w] \/ j < i[w]
            BY <2>2, <5>1, <5>2 DEF Positions
          <6> QED
            BY <2>2, <2>5, <6>1
        <5> QED
          BY <2>3, <4>1, <5>1, <5>2 DEF Searched
      <4>2. CASE v # w
        BY <1>0, <2>1, <2>3, <3>1, <4>2 DEF C2Inv, Searched, C2TypeOK
      <4> QED
        BY <4>1, <4>2
    <3> QED
      BY <2>1, <2>3, <3>2, <3>3, <3>4, <3>5 DEF C2Inv
  <2> QED
    BY <2>4, <2>5
<1>9. CASE C2!Join
  BY ZenonT(60), <1>0, <1>9 DEF C2!Join, C2Inv, C2TypeOK, Phases, Summaries
<1>10. CASE UNCHANGED C2!vars
  BY ZenonT(60), <1>10 DEF C2!vars, C2Inv, C2TypeOK, Phases, Summaries, AnswerRight, Finder, Searched
<1> QED
  BY <1>1, <1>2, <1>3, <1>4, <1>5, <1>6, <1>7, <1>8, <1>9, <1>10
  DEF C2!Next, C2!Main, C2!Worker, C2!Terminated

LEMMA C2Safe == ASSUME C2!Cracker2Assumption PROVE C2Inv => SummaryCorrect
<1> SUFFICES ASSUME C2Inv, NEW w \in Workers, pc2[w] = "end"
             PROVE  of[w] = user /\ (result2[w] = 1 => \E v \in Workers \ {w} : result2[v] = 0)
  BY DEF C2Inv, Summaries, SummaryCorrect, C2!SummaryCorrect
<1>1. main2 = "end"
  BY DEF C2Inv, C2TypeOK, Phases
<1>2. of[w] = user
  BY <1>1 DEF C2Inv, Searched
<1>3. ASSUME result2[w] = 1 PROVE answer[2] \in Workers \ {w} /\ result2[answer[2]] = 0
  BY <1>1, <1>3 DEF C2Inv, Searched, Finder, C2TypeOK, Answers
<1> QED
  BY <1>2, <1>3

(* cracker2.c sums up every user rightly, for any number of workers and any *)
(* division of the passwords among them, although answer is written without *)
(* a lock: between the two barriers it can only point to a password of the  *)
(* present user, and no worker stops early without one.                     *)
THEOREM Cracker2Correct == C2!Spec => []SummaryCorrect
<1> USE CrackersAssumption
<1> QED
  BY C2Initially, C2Step, C2Safe, PTL DEF C2!Spec
(***************************************************************************)
(* cracker1                                                                *)
(***************************************************************************)
InputLines == ToSet(Tasks)
Working(w) == pc1[w] \in {"crack", "count", "report"}
WasRead == {Tasks[n] : n \in 1..num_tasks}

C1TypeOK ==
  /\ tasks \in Seq(InputLines \cup {Nothing})
  /\ main1 \in {"read", "join", "done"}
  /\ num_tasks \in 0..Len(Tasks)
  /\ pc1 \in [Workers -> {"none", "pull", "crack", "count", "report", "leave", "done"}]
  /\ task \in [Workers -> InputLines \cup {Nothing}]
  /\ success \in Nat
  /\ result1 \in [InputLines -> {Nothing, 0, 1}]

(* A line that was read, and no other, is queued once, with one worker, or  *)
(* reported.                                                                *)
Places ==
  /\ \A k, l \in 1..Len(tasks) : tasks[k] = tasks[l] => k = l
  /\ \A w \in Workers : Working(w) =>
       task[w] \in InputLines \ ToSet(tasks) /\ result1[task[w]] = Nothing
  /\ \A v, w \in Workers : Working(v) /\ Working(w) /\ task[v] = task[w] => v = w
  /\ \A t \in InputLines \cap ToSet(tasks) : result1[t] = Nothing
  /\ \A t \in InputLines :
       t \in WasRead <=> \/ t \in ToSet(tasks) \/ result1[t] # Nothing
                         \/ \E w \in Workers : Working(w) /\ task[w] = t

(* The sentinel comes after all the lines: when a worker leaves, none waits *)
(* in the queue.                                                            *)
Sentinel ==
  /\ main1 = "read" => Nothing \notin ToSet(tasks) /\ \A w \in Workers : pc1[w] = "none"
  /\ main1 # "read" => num_tasks = Len(Tasks) /\ \A w \in Workers : pc1[w] # "none"
  /\ main1 = "join" => (Nothing \in ToSet(tasks) <=> \A w \in Workers : pc1[w] # "leave")
  /\ main1 = "done" => tasks = <<>> /\ \A w \in Workers : pc1[w] = "done"
  /\ \A v, w \in Workers : pc1[v] = "leave" /\ pc1[w] = "leave" => v = w
  /\ \A k \in 1..Len(tasks) : tasks[k] = Nothing => k = Len(tasks)
  /\ (\E w \in Workers : pc1[w] \in {"leave", "done"}) => ToSet(tasks) \subseteq {Nothing}

(* What was counted: the users found whose worker has passed the lock. *)
Counted ==
  {t \in Crackable : \/ result1[t] # Nothing
                     \/ \E w \in Workers : pc1[w] = "report" /\ task[w] = t}

Counts ==
  /\ \A t \in InputLines : result1[t] # Nothing =>
       result1[t] = IF t \in Crackable \cup Known THEN 0 ELSE 1
  /\ \A w \in Workers : pc1[w] = "count" => task[w] \in Crackable
  /\ success = Cardinality(Counted)
  /\ main1 # "done" => summary1 = Nothing
  /\ main1 = "done" => summary1.recovered = success

(* The inductive invariant. *)
C1Inv == C1TypeOK /\ Places /\ Sentinel /\ Counts

(* The assumptions on the lines of stdin *)
LEMMA Stdin ==
  /\ Workers # {} /\ Nothing \notin InputLines \cup {0, 1}
  /\ Tasks \in Seq(InputLines) /\ Len(Tasks) \in Nat
  /\ \A k, n \in 1..Len(Tasks) : Tasks[k] = Tasks[n] => k = n
  /\ InputLines = {Tasks[n] : n \in 1..Len(Tasks)} /\ C1!ToSet(Tasks) = InputLines
  /\ Crackable \subseteq InputLines /\ Known \subseteq InputLines
  /\ Crackable \cap Known = {}
<1>1. C1!ToSet(Tasks) = InputLines
  BY DEF InputLines, ToSet, C1!ToSet
<1>2. Tasks \in Seq(InputLines) /\ C1!IsInjective(Tasks)
  BY <1>1, CrackersAssumption DEF C1!Cracker1Assumption
<1>3. DOMAIN Tasks = 1..Len(Tasks) /\ Len(Tasks) \in Nat
  BY <1>2
<1>4. InputLines = {Tasks[n] : n \in 1..Len(Tasks)}
  BY <1>3 DEF InputLines, ToSet
<1>5. \A k, n \in 1..Len(Tasks) : Tasks[k] = Tasks[n] => k = n
  BY <1>2, <1>3 DEF C1!IsInjective
<1> QED
  BY <1>1, <1>2, <1>3, <1>4, <1>5, CrackersAssumption DEF C1!Cracker1Assumption

LEMMA C1Initially == C1!Init => C1Inv
<1> SUFFICES ASSUME C1!Init PROVE C1Inv
  OBVIOUS
<1>0. /\ tasks = <<>> /\ main1 = "read" /\ num_tasks = 0
      /\ pc1 = [w \in Workers |-> "none"] /\ task = [w \in Workers |-> Nothing]
      /\ success = 0 /\ result1 = [t \in InputLines |-> Nothing] /\ summary1 = Nothing
  BY Stdin DEF C1!Init
<1>1. ToSet(tasks) = {} /\ Len(tasks) = 0 /\ tasks \in Seq(InputLines \cup {Nothing})
  BY <1>0 DEF ToSet
<1>2. WasRead = {}
  BY <1>0 DEF WasRead
<1>3. Counted = {} /\ Cardinality({}) = 0
  BY <1>0, Stdin, FS_EmptySet DEF Counted
<1>4. C1TypeOK
  BY <1>0, <1>1, Stdin DEF C1TypeOK
<1>5. Places
  BY <1>0, <1>1, <1>2 DEF Places, Working
<1>6. Sentinel
  BY <1>0, <1>1 DEF Sentinel
<1>7. Counts
  BY <1>0, <1>3 DEF Counts
<1> QED
  BY <1>4, <1>5, <1>6, <1>7 DEF C1Inv

(* Only finitely many lines can be counted. *)
LEMMA CountedFinite == IsFiniteSet(Counted)
<1>1. IsFiniteSet(1..Len(Tasks))
  BY Stdin, FS_Interval
<1>2. Tasks \in Surjection(1..Len(Tasks), InputLines)
  <2>1. Tasks \in [1..Len(Tasks) -> InputLines]
    BY Stdin
  <2> QED
    BY <2>1, Stdin DEF Surjection
<1>3. IsFiniteSet(InputLines)
  BY <1>1, <1>2, FS_Surjection
<1>4. Counted \in SUBSET InputLines
  BY Stdin DEF Counted
<1> QED
  BY <1>3, <1>4, FS_Subset

(***************************************************************************)
(* What a step of cracker1 leaves as it was                                *)
(***************************************************************************)
LEMMA SamePlaces ==
  ASSUME Places, UNCHANGED <<num_tasks, result1>>,
         \A k, l \in 1..Len(tasks') : tasks'[k] = tasks'[l] => k = l,
         \A t \in InputLines : t \in ToSet(tasks)' <=> t \in ToSet(tasks),
         \A w \in Workers : /\ Working(w)' <=> Working(w)
                            /\ Working(w) => task'[w] = task[w]
  PROVE  Places'
<1>1. WasRead' = WasRead
  BY DEF WasRead
<1>2. /\ \A w \in Workers : Working(w)' =>
           task'[w] \in InputLines \ ToSet(tasks)' /\ result1'[task'[w]] = Nothing
      /\ \A v, w \in Workers : Working(v)' /\ Working(w)' /\ task'[v] = task'[w] => v = w
      /\ \A t \in InputLines \cap ToSet(tasks)' : result1'[t] = Nothing
  BY DEF Places
<1>3. ASSUME NEW t \in InputLines
      PROVE  (\E w \in Workers : Working(w)' /\ task'[w] = t)
                <=> (\E w \in Workers : Working(w) /\ task[w] = t)
  OBVIOUS
<1>4. \A t \in InputLines :
        t \in WasRead' <=> \/ t \in ToSet(tasks)' \/ result1'[t] # Nothing
                           \/ \E w \in Workers : Working(w)' /\ task'[w] = t
  BY <1>1, <1>3 DEF Places
<1> QED
  BY <1>2, <1>4 DEF Places

LEMMA SameCounts ==
  ASSUME Counts, UNCHANGED <<result1, success, main1, summary1>>,
         \A w \in Workers : pc1'[w] = "count" => task'[w] \in Crackable,
         \A w \in Workers : pc1'[w] = "report" /\ task'[w] \in Crackable
                              <=> pc1[w] = "report" /\ task[w] \in Crackable,
         \A w \in Workers : pc1'[w] = "report" => task'[w] = task[w]
  PROVE  Counts'
<1>1. ASSUME NEW t \in Crackable
      PROVE  (\E w \in Workers : pc1'[w] = "report" /\ task'[w] = t)
                <=> (\E w \in Workers : pc1[w] = "report" /\ task[w] = t)
  OBVIOUS
<1>2. Counted' = Counted
  BY <1>1 DEF Counted
<1> QED
  BY <1>2 DEF Counts

(***************************************************************************)
(* Its steps                                                               *)
(***************************************************************************)
LEMMA ReadKeeps == C1Inv /\ C1!Read => C1Inv'
<1> SUFFICES ASSUME C1Inv, C1!Read PROVE C1Inv'
  OBVIOUS
<1> DEFINE e == Tasks[num_tasks + 1]
<1>0. /\ C1TypeOK /\ Places /\ Sentinel /\ Counts
      /\ main1 = "read" /\ num_tasks < Len(Tasks) /\ num_tasks' = num_tasks + 1
      /\ tasks' = Append(tasks, e)
      /\ UNCHANGED <<main1, pc1, task, success, result1, summary1>>
  BY DEF C1Inv, C1!Read
<1>1. /\ num_tasks \in Nat /\ num_tasks + 1 \in 1..Len(Tasks) /\ e \in InputLines
      /\ num_tasks' \in 0..Len(Tasks)
  BY SMTT(40), <1>0, Stdin DEF C1TypeOK
<1>2. e \notin WasRead
  <2>1. \A n \in 1..num_tasks : n \in 1..Len(Tasks) /\ n # num_tasks + 1
    BY <1>1, Stdin
  <2> QED
    BY <1>1, <2>1, Stdin DEF WasRead
<1>3. WasRead' = WasRead \cup {e}
  <2>1. 1..(num_tasks + 1) = (1..num_tasks) \cup {num_tasks + 1}
    BY <1>1
  <2> QED
    BY <1>0, <2>1 DEF WasRead
<1> HIDE DEF e
<1>4. /\ e \notin ToSet(tasks) /\ result1[e] = Nothing /\ e # Nothing
      /\ \A w \in Workers : ~Working(w)
  BY ZenonT(60), <1>0, <1>1, <1>2, Stdin DEF Places, Sentinel, Working
<1>5. tasks \in Seq(InputLines \cup {Nothing}) /\ e \in InputLines \cup {Nothing}
  BY <1>0, <1>1 DEF C1TypeOK
<1>6. /\ tasks' \in Seq(InputLines \cup {Nothing}) /\ Len(tasks') = Len(tasks) + 1
      /\ ToSet(tasks)' = ToSet(tasks) \cup {e}
  BY <1>0, <1>5, AppendOne
<1>7. \A k, l \in 1..Len(tasks') : tasks'[k] = tasks'[l] => k = l
  BY <1>0, <1>4, <1>5, AppendDistinct DEF Places
<1>8. \A w \in Workers : ~Working(w)'
  BY <1>0, <1>4 DEF Working
<1>9. C1TypeOK'
  BY <1>0, <1>1, <1>6 DEF C1TypeOK
<1>10. Places'
  <2>1. \A t \in InputLines \cap ToSet(tasks)' : result1'[t] = Nothing
    BY <1>0, <1>4, <1>6 DEF Places
  <2>2. ASSUME NEW t \in InputLines
        PROVE  t \in WasRead' <=> t \in ToSet(tasks)' \/ result1'[t] # Nothing
    BY <1>0, <1>3, <1>4, <1>6 DEF Places
  <2> QED
    BY <1>7, <1>8, <2>1, <2>2 DEF Places
<1>11. Sentinel'
  <2>1. Nothing \notin ToSet(tasks)'
    BY <1>0, <1>4, <1>6 DEF Sentinel
  <2>2. \A k \in 1..Len(tasks') : tasks'[k] # Nothing
    BY <1>6, <2>1, Elements
  <2> QED
    BY <1>0, <2>1, <2>2 DEF Sentinel
<1>12. Counts'
  BY <1>0, SameCounts DEF Counts
<1> QED
  BY <1>9, <1>10, <1>11, <1>12 DEF C1Inv

LEMMA LaunchKeeps == C1Inv /\ C1!Launch => C1Inv'
<1> SUFFICES ASSUME C1Inv, C1!Launch PROVE C1Inv'
  OBVIOUS
<1>0. /\ C1TypeOK /\ Places /\ Sentinel /\ Counts
      /\ main1 = "read" /\ main1' = "join" /\ num_tasks = Len(Tasks)
      /\ tasks' = Append(tasks, Nothing) /\ pc1' = [w \in Workers |-> "pull"]
      /\ UNCHANGED <<num_tasks, task, success, result1, summary1>>
  BY DEF C1Inv, C1!Launch
<1>1. Nothing \notin ToSet(tasks) /\ \A w \in Workers : pc1[w] = "none" /\ pc1'[w] = "pull"
  BY <1>0 DEF Sentinel
<1>2. /\ tasks \in Seq(InputLines \cup {Nothing}) /\ Nothing \in InputLines \cup {Nothing}
      /\ Len(tasks) \in Nat
  BY <1>0 DEF C1TypeOK
<1>3. /\ tasks' \in Seq(InputLines \cup {Nothing}) /\ Len(tasks') = Len(tasks) + 1
      /\ \A k \in 1..Len(tasks) : tasks'[k] = tasks[k]
      /\ ToSet(tasks)' = ToSet(tasks) \cup {Nothing}
  BY <1>0, <1>2, AppendOne
<1>4. \A k, l \in 1..Len(tasks') : tasks'[k] = tasks'[l] => k = l
  BY <1>0, <1>1, <1>2, AppendDistinct DEF Places
<1>5. C1TypeOK'
  BY <1>0, <1>3 DEF C1TypeOK
<1>6. Places'
  <2>1. \A w \in Workers : ~Working(w) /\ ~Working(w)'
    BY <1>1 DEF Working
  <2> QED
    BY <1>0, <1>3, <1>4, <2>1, Stdin, SamePlaces
<1>7. Sentinel'
  <2>1. \A k \in 1..Len(tasks) : tasks[k] # Nothing
    BY <1>1, <1>2, Elements
  <2>2. \A k \in 1..Len(tasks') : tasks'[k] = Nothing => k = Len(tasks')
    <3>1. \A k \in 1..Len(tasks') : k \in 1..Len(tasks) \/ k = Len(tasks')
      BY <1>2, <1>3
    <3> QED
      BY <1>3, <2>1, <3>1
  <2> QED
    BY <1>0, <1>1, <1>3, <2>2 DEF Sentinel
<1>8. Counts'
  <2>1. Counted' = Counted
    BY <1>0, <1>1 DEF Counted
  <2> QED
    BY <1>0, <1>1, <2>1 DEF Counts
<1> QED
  BY <1>5, <1>6, <1>7, <1>8 DEF C1Inv

LEMMA PullKeeps ==
  ASSUME C1Inv, NEW w \in Workers, C1!Pull(w)
  PROVE  C1Inv'
<1> DEFINE h == Head(tasks)
<1>0. /\ C1TypeOK /\ Places /\ Sentinel /\ Counts
      /\ pc1[w] = "pull" /\ tasks # <<>> /\ tasks' = Tail(tasks)
      /\ task' = [task EXCEPT ![w] = h]
      /\ pc1' = [pc1 EXCEPT ![w] = IF h = Nothing THEN "leave" ELSE "crack"]
      /\ UNCHANGED <<main1, num_tasks, success, result1, summary1>>
  BY DEF C1Inv, C1!Pull
<1>1. tasks \in Seq(InputLines \cup {Nothing}) /\ Len(tasks) \in Nat
  BY <1>0 DEF C1TypeOK
<1>2. \A k, l \in 1..Len(tasks) : tasks[k] = tasks[l] => k = l
  BY <1>0 DEF Places
<1>3. /\ tasks' \in Seq(InputLines \cup {Nothing}) /\ Len(tasks') = Len(tasks) - 1
      /\ \A k \in 1..(Len(tasks) - 1) : tasks'[k] = tasks[k + 1]
      /\ \A k, l \in 1..Len(tasks') : tasks'[k] = tasks'[l] => k = l
      /\ h = tasks[1] /\ h \in ToSet(tasks)
      /\ ToSet(tasks)' = ToSet(tasks) \ {h}
  BY <1>0, <1>1, <1>2, TailDistinct
<1>4. h \in InputLines \cup {Nothing} /\ 1 \in 1..Len(tasks)
  BY <1>0, <1>1, <1>3
<1> HIDE DEF h
<1>5. /\ pc1'[w] = (IF h = Nothing THEN "leave" ELSE "crack") /\ task'[w] = h
      /\ \A v \in Workers : v # w => pc1'[v] = pc1[v] /\ task'[v] = task[v]
  BY <1>0 DEF C1TypeOK
<1>6. main1 = "join" /\ main1' = "join"
  BY <1>0 DEF Sentinel, C1TypeOK
<1>7. \A v \in Workers : v # w => (Working(v)' <=> Working(v))
  BY <1>5 DEF Working
<1>8. ~Working(w)
  BY <1>0 DEF Working
<1>9. C1TypeOK'
  <2>1. task' \in [Workers -> InputLines \cup {Nothing}]
    BY <1>0, <1>4 DEF C1TypeOK
  <2>2. pc1' \in [Workers -> {"none", "pull", "crack", "count", "report", "leave", "done"}]
    BY <1>0 DEF C1TypeOK
  <2> QED
    BY <1>0, <1>3, <2>1, <2>2 DEF C1TypeOK
<1>10. Counts'
  BY <1>0, <1>5, SameCounts DEF Counts
<1>11. \A k \in 1..Len(tasks') : tasks'[k] = Nothing => k = Len(tasks')
  <2>1. ASSUME NEW k \in 1..Len(tasks'), tasks'[k] = Nothing PROVE k = Len(tasks')
    <3>1. k + 1 \in 1..Len(tasks) /\ k \in 1..(Len(tasks) - 1) /\ tasks[k + 1] = Nothing
      BY <1>1, <1>3, <2>1
    <3>2. k + 1 = Len(tasks)
      BY <1>0, <3>1 DEF Sentinel
    <3> QED
      BY <1>1, <1>3, <3>1, <3>2
  <2> QED
    BY <2>1
<1>12. CASE h = Nothing
  <2>1. Len(tasks') = 0
    <3>1. 1 = Len(tasks)
      BY <1>0, <1>3, <1>4, <1>12 DEF Sentinel
    <3> QED
      BY SMTT(40), <1>1, <1>3, <3>1
  <2>2. ToSet(tasks)' = {}
    <3>1. tasks' = <<>>
      BY <1>3, <2>1
    <3> QED
      BY <3>1 DEF ToSet
  <2>3. ~Working(w)' /\ pc1'[w] = "leave"
    BY <1>5, <1>12 DEF Working
  <2>4. Places'
    <3>1. \A t \in InputLines : t \in ToSet(tasks)' <=> t \in ToSet(tasks)
      BY SMTT(40), <1>3, <1>12, Stdin
    <3>2. \A v \in Workers : /\ Working(v)' <=> Working(v)
                             /\ Working(v) => task'[v] = task[v]
      BY <1>5, <1>7, <1>8, <2>3
    <3> QED
      BY <1>0, <1>3, <3>1, <3>2, SamePlaces
  <2>5. \A v \in Workers : v # w => pc1'[v] # "leave"
    BY ZenonT(60), <1>0, <1>3, <1>5, <1>6, <1>12 DEF Sentinel
  <2>6. num_tasks' = Len(Tasks) /\ \A v \in Workers : pc1'[v] # "none"
    BY <1>0, <1>5, <1>6, <2>3 DEF Sentinel
  <2>7. Sentinel'
    BY <1>6, <1>11, <2>2, <2>3, <2>5, <2>6 DEF Sentinel
  <2> QED
    BY <1>9, <1>10, <2>4, <2>7 DEF C1Inv
<1>13. CASE h # Nothing
  <2>1. h \in InputLines /\ pc1'[w] = "crack" /\ Working(w)'
    BY <1>4, <1>5, <1>13 DEF Working
  <2>2. \A v \in Workers : pc1[v] \notin {"leave", "done"}
    BY <1>0, <1>3, <1>13 DEF Sentinel
  <2>3. result1[h] = Nothing /\ \A v \in Workers : Working(v) => task[v] # h
    BY <1>0, <1>3, <2>1 DEF Places
  <2>4. Places'
    <3>1. WasRead' = WasRead
      BY <1>0 DEF WasRead
    <3>2. ASSUME NEW v \in Workers, Working(v)'
          PROVE  task'[v] \in InputLines \ ToSet(tasks)' /\ result1'[task'[v]] = Nothing
      <4>1. CASE v = w
        BY <1>0, <1>3, <1>5, <2>1, <2>3, <4>1
      <4>2. CASE v # w
        BY <1>0, <1>3, <1>5, <1>7, <3>2, <4>2 DEF Places
      <4> QED
        BY <4>1, <4>2
    <3>3. ASSUME NEW u \in Workers, NEW v \in Workers,
                 Working(u)', Working(v)', task'[u] = task'[v]
          PROVE  u = v
      <4>1. CASE u # w /\ v # w
        BY <1>0, <1>5, <1>7, <3>3, <4>1 DEF Places
      <4>2. CASE u = w /\ v # w
        BY <1>5, <1>7, <2>3, <3>3, <4>2
      <4>3. CASE u # w /\ v = w
        BY <1>5, <1>7, <2>3, <3>3, <4>3
      <4> QED
        BY <4>1, <4>2, <4>3
    <3>4. \A t \in InputLines \cap ToSet(tasks)' : result1'[t] = Nothing
      BY <1>0, <1>3 DEF Places
    <3>5. ASSUME NEW t \in InputLines
          PROVE  (t \in ToSet(tasks)' \/ \E v \in Workers : Working(v)' /\ task'[v] = t)
                    <=> (t \in ToSet(tasks) \/ \E v \in Workers : Working(v) /\ task[v] = t)
      <4>1. CASE t = h
        BY <1>3, <1>5, <2>1, <4>1
      <4>2. CASE t # h
        BY <1>3, <1>5, <1>7, <1>8, <4>2
      <4> QED
        BY <4>1, <4>2
    <3>6. \A t \in InputLines :
            t \in WasRead' <=> \/ t \in ToSet(tasks)' \/ result1'[t] # Nothing
                               \/ \E v \in Workers : Working(v)' /\ task'[v] = t
      BY <1>0, <3>1, <3>5 DEF Places
    <3> QED
      BY <1>3, <3>2, <3>3, <3>4, <3>6 DEF Places
  <2>5. \A v \in Workers : pc1'[v] \notin {"none", "leave", "done"}
    BY <1>0, <1>5, <1>6, <2>1, <2>2 DEF Sentinel
  <2>6. Nothing \in ToSet(tasks)' /\ num_tasks' = Len(Tasks)
    BY <1>0, <1>3, <1>6, <1>13, <2>2 DEF Sentinel
  <2>7. Sentinel'
    BY <1>6, <1>11, <2>5, <2>6 DEF Sentinel
  <2> QED
    BY <1>9, <1>10, <2>4, <2>7 DEF C1Inv
<1> QED
  BY <1>12, <1>13

LEMMA CrackKeeps ==
  ASSUME C1Inv, NEW w \in Workers, C1!Crack(w)
  PROVE  C1Inv'
<1>0. /\ C1TypeOK /\ Places /\ Sentinel /\ Counts /\ pc1[w] = "crack"
      /\ pc1' = [pc1 EXCEPT ![w] = IF task[w] \in Crackable THEN "count" ELSE "report"]
      /\ UNCHANGED <<tasks, main1, num_tasks, task, success, result1, summary1>>
  BY DEF C1Inv, C1!Crack
<1>1. /\ pc1'[w] = (IF task[w] \in Crackable THEN "count" ELSE "report")
      /\ \A v \in Workers : v # w => pc1'[v] = pc1[v]
  BY <1>0 DEF C1TypeOK
<1>2. C1TypeOK'
  BY <1>0 DEF C1TypeOK
<1>3. \A v \in Workers : Working(v)' <=> Working(v)
  BY <1>0, <1>1 DEF Working
<1>4. Places'
  <2>1. \A k, l \in 1..Len(tasks') : tasks'[k] = tasks'[l] => k = l
    BY <1>0 DEF Places
  <2> QED
    BY <1>0, <1>3, <2>1, SamePlaces
<1>5. Sentinel'
  BY <1>0, <1>1 DEF Sentinel
<1>6. Counts'
  BY <1>0, <1>1, SameCounts DEF Counts
<1> QED
  BY <1>2, <1>4, <1>5, <1>6 DEF C1Inv

LEMMA CountKeeps ==
  ASSUME C1Inv, NEW w \in Workers, C1!Count(w)
  PROVE  C1Inv'
<1>0. /\ C1TypeOK /\ Places /\ Sentinel /\ Counts /\ pc1[w] = "count"
      /\ pc1' = [pc1 EXCEPT ![w] = "report"] /\ success' = success + 1
      /\ UNCHANGED <<tasks, main1, num_tasks, task, result1, summary1>>
  BY DEF C1Inv, C1!Count
<1>1. pc1'[w] = "report" /\ \A v \in Workers : v # w => pc1'[v] = pc1[v]
  BY <1>0 DEF C1TypeOK
<1>2. C1TypeOK'
  BY <1>0 DEF C1TypeOK
<1>3. \A v \in Workers : Working(v)' <=> Working(v)
  BY <1>0, <1>1 DEF Working
<1>4. Places'
  <2>1. \A k, l \in 1..Len(tasks') : tasks'[k] = tasks'[l] => k = l
    BY <1>0 DEF Places
  <2> QED
    BY <1>0, <1>3, <2>1, SamePlaces
<1>5. Sentinel'
  BY <1>0, <1>1 DEF Sentinel
<1>6. Counts'
  <2>1. task[w] \in Crackable /\ result1[task[w]] = Nothing
    BY <1>0 DEF Counts, Places, Working
  <2>2. \A v \in Workers : v # w /\ pc1[v] = "report" => task[v] # task[w]
    BY <1>0 DEF Places, Working
  <2>3. task[w] \notin Counted
    BY <1>0, <2>1, <2>2 DEF Counted
  <2>4. Counted' = Counted \cup {task[w]}
    BY <1>0, <1>1, <2>1 DEF Counted
  <2>5. Cardinality(Counted') = Cardinality(Counted) + 1
    BY <2>3, <2>4, CountedFinite, FS_AddElement
  <2>6. main1' # "done"
    BY <1>0 DEF Sentinel
  <2> QED
    BY <1>0, <1>1, <2>5, <2>6 DEF Counts
<1> QED
  BY <1>2, <1>4, <1>5, <1>6 DEF C1Inv

LEMMA ReportKeeps ==
  ASSUME C1Inv, NEW w \in Workers, C1!Report(w)
  PROVE  C1Inv'
<1> DEFINE e == task[w]
           r == IF e \in Crackable \cup Known THEN 0 ELSE 1
<1>0. /\ C1TypeOK /\ Places /\ Sentinel /\ Counts /\ pc1[w] = "report"
      /\ pc1' = [pc1 EXCEPT ![w] = "pull"] /\ result1' = [result1 EXCEPT ![e] = r]
      /\ UNCHANGED <<tasks, main1, num_tasks, task, success, summary1>>
  BY DEF C1Inv, C1!Report
<1>1. pc1'[w] = "pull" /\ \A v \in Workers : v # w => pc1'[v] = pc1[v]
  BY <1>0 DEF C1TypeOK
<1>2. /\ e \in InputLines \ ToSet(tasks) /\ result1[e] = Nothing
      /\ Working(w) /\ \A v \in Workers : Working(v) /\ task[v] = e => v = w
  BY <1>0 DEF Places, Working
<1>3. r \in {0, 1} /\ r # Nothing
  BY Stdin
<1> HIDE DEF r
<1>4. result1'[e] = r /\ \A t \in InputLines : t # e => result1'[t] = result1[t]
  BY <1>0, <1>2 DEF C1TypeOK
<1> HIDE DEF e
<1>5. ~Working(w)' /\ \A v \in Workers : v # w => (Working(v)' <=> Working(v))
  BY <1>1 DEF Working
<1>6. C1TypeOK'
  <2>1. result1' \in [InputLines -> {Nothing, 0, 1}]
    BY <1>0, <1>2, <1>3 DEF C1TypeOK
  <2> QED
    BY <1>0, <2>1 DEF C1TypeOK
<1>7. Places'
  <2>1. WasRead' = WasRead
    BY <1>0 DEF WasRead
  <2>2. ASSUME NEW v \in Workers, Working(v)'
        PROVE  task'[v] \in InputLines \ ToSet(tasks)' /\ result1'[task'[v]] = Nothing
    <3>1. v # w /\ Working(v)
      BY <1>5, <2>2
    <3>2. task[v] # e /\ task[v] \in InputLines \ ToSet(tasks) /\ result1[task[v]] = Nothing
      BY <1>0, <1>2, <3>1 DEF Places
    <3> QED
      BY <1>0, <1>4, <3>2
  <2>3. \A u, v \in Workers : Working(u)' /\ Working(v)' /\ task'[u] = task'[v] => u = v
    BY <1>0, <1>5 DEF Places
  <2>4. \A t \in InputLines \cap ToSet(tasks)' : result1'[t] = Nothing
    BY <1>0, <1>2, <1>4 DEF Places
  <2>5. ASSUME NEW t \in InputLines
        PROVE  t \in WasRead' <=> \/ t \in ToSet(tasks)' \/ result1'[t] # Nothing
                                  \/ \E v \in Workers : Working(v)' /\ task'[v] = t
    <3>1. t \in WasRead <=> \/ t \in ToSet(tasks) \/ result1[t] # Nothing
                            \/ \E v \in Workers : Working(v) /\ task[v] = t
      BY <1>0 DEF Places
    <3>2. CASE t = e
      BY <1>2, <1>3, <1>4, <2>1, <3>1, <3>2 DEF e
    <3>3. CASE t # e
      <4>1. (\E v \in Workers : Working(v)' /\ task'[v] = t)
               <=> (\E v \in Workers : Working(v) /\ task[v] = t)
        BY <1>0, <1>5, <3>3 DEF e
      <4> QED
        BY <1>0, <1>4, <2>1, <3>1, <3>3, <4>1
    <3> QED
      BY <3>2, <3>3
  <2>6. \A k, l \in 1..Len(tasks') : tasks'[k] = tasks'[l] => k = l
    BY <1>0 DEF Places
  <2> QED
    BY <2>2, <2>3, <2>4, <2>5, <2>6 DEF Places
<1>8. Sentinel'
  BY <1>0, <1>1 DEF Sentinel
<1>9. Counts'
  <2>1. ASSUME NEW t \in Crackable PROVE t \in Counted' <=> t \in Counted
    <3>1. CASE t = e
      BY <1>0, <1>3, <1>4, <2>1, <3>1 DEF Counted, e
    <3>2. CASE t # e
      <4>1. t \in InputLines
        BY <2>1, Stdin
      <4>2. (\E v \in Workers : pc1'[v] = "report" /\ task'[v] = t)
               <=> (\E v \in Workers : pc1[v] = "report" /\ task[v] = t)
        BY <1>0, <1>1, <3>2 DEF e
      <4> QED
        BY <1>4, <2>1, <3>2, <4>1, <4>2 DEF Counted
    <3> QED
      BY <3>1, <3>2
  <2>2. Counted' = Counted
    BY <2>1 DEF Counted
  <2>3. \A t \in InputLines : result1'[t] # Nothing =>
          result1'[t] = IF t \in Crackable \cup Known THEN 0 ELSE 1
    BY <1>0, <1>4 DEF Counts, r
  <2>4. \A v \in Workers : pc1'[v] = "count" => task'[v] \in Crackable
    BY <1>0, <1>1 DEF Counts
  <2> QED
    BY <1>0, <2>2, <2>3, <2>4 DEF Counts
<1> QED
  BY <1>6, <1>7, <1>8, <1>9 DEF C1Inv

LEMMA LeaveKeeps ==
  ASSUME C1Inv, NEW w \in Workers, C1!Leave(w)
  PROVE  C1Inv'
<1>0. /\ C1TypeOK /\ Places /\ Sentinel /\ Counts /\ pc1[w] = "leave"
      /\ pc1' = [pc1 EXCEPT ![w] = "done"] /\ tasks' = Append(tasks, Nothing)
      /\ UNCHANGED <<main1, num_tasks, task, success, result1, summary1>>
  BY DEF C1Inv, C1!Leave
<1>1. pc1'[w] = "done" /\ \A v \in Workers : v # w => pc1'[v] = pc1[v]
  BY <1>0 DEF C1TypeOK
<1>2. main1 = "join" /\ Nothing \notin ToSet(tasks) /\ ToSet(tasks) \subseteq {Nothing}
  BY <1>0 DEF Sentinel, C1TypeOK
<1>3. tasks \in Seq(InputLines \cup {Nothing}) /\ Nothing \in InputLines \cup {Nothing}
  BY <1>0 DEF C1TypeOK
<1>4. /\ tasks' \in Seq(InputLines \cup {Nothing}) /\ Len(tasks') = Len(tasks) + 1
      /\ ToSet(tasks)' = {Nothing}
  BY <1>0, <1>2, <1>3, AppendOne
<1>5. \A k, l \in 1..Len(tasks') : tasks'[k] = tasks'[l] => k = l
  BY <1>0, <1>2, <1>3, AppendDistinct DEF Places
<1>6. C1TypeOK'
  BY <1>0, <1>4 DEF C1TypeOK
<1>7. Places'
  <2>1. \A t \in InputLines : t \in ToSet(tasks)' <=> t \in ToSet(tasks)
    BY <1>2, <1>4, Stdin
  <2>2. \A v \in Workers : Working(v)' <=> Working(v)
    BY <1>0, <1>1 DEF Working
  <2> QED
    BY <1>0, <1>5, <2>1, <2>2, SamePlaces
<1>8. Sentinel'
  <2>1. \A v \in Workers : pc1'[v] # "leave"
    BY <1>0, <1>1 DEF Sentinel
  <2>2. Len(tasks) = 0
    <3>1. \A k \in 1..Len(tasks) : FALSE
      BY <1>2, <1>3, Elements
    <3> QED
      BY <1>3, <3>1
  <2>3. \A k \in 1..Len(tasks') : k = Len(tasks')
    BY <1>4, <2>2
  <2>4. num_tasks' = Len(Tasks) /\ \A v \in Workers : pc1'[v] # "none"
    BY <1>0, <1>1, <1>2 DEF Sentinel
  <2> QED
    BY <1>0, <1>2, <1>4, <2>1, <2>3, <2>4 DEF Sentinel
<1>9. Counts'
  BY <1>0, <1>1, SameCounts DEF Counts
<1> QED
  BY <1>6, <1>7, <1>8, <1>9 DEF C1Inv

LEMMA FinishKeeps == C1Inv /\ C1!Finish => C1Inv'
<1> SUFFICES ASSUME C1Inv, C1!Finish PROVE C1Inv'
  OBVIOUS
<1>0. /\ C1TypeOK /\ Places /\ Sentinel /\ Counts
      /\ main1 = "join" /\ \A w \in Workers : pc1[w] = "done"
      /\ summary1'.recovered = success /\ tasks' = <<>> /\ main1' = "done"
      /\ UNCHANGED <<num_tasks, pc1, task, success, result1>>
  BY DEF C1Inv, C1!Finish
<1>1. ToSet(tasks) \subseteq {Nothing}
  BY <1>0, Stdin DEF Sentinel
<1>2. Len(tasks') = 0 /\ ToSet(tasks)' = {} /\ tasks' \in Seq(InputLines \cup {Nothing})
  BY <1>0 DEF ToSet
<1>3. C1TypeOK'
  BY <1>0, <1>2 DEF C1TypeOK
<1>4. Places'
  <2>1. \A t \in InputLines : t \in ToSet(tasks)' <=> t \in ToSet(tasks)
    BY <1>1, <1>2, Stdin
  <2>2. \A v \in Workers : Working(v)' <=> Working(v)
    BY <1>0 DEF Working
  <2>3. \A k, l \in 1..Len(tasks') : tasks'[k] = tasks'[l] => k = l
    BY <1>2
  <2> QED
    BY <1>0, <2>1, <2>2, <2>3, SamePlaces
<1>5. Sentinel'
  BY <1>0, <1>2 DEF Sentinel
<1>6. Counts'
  <2>1. Counted' = Counted
    BY <1>0 DEF Counted
  <2> QED
    BY <1>0, <2>1 DEF Counts
<1> QED
  BY <1>3, <1>4, <1>5, <1>6 DEF C1Inv

LEMMA C1Step == C1Inv /\ [C1!Next]_(C1!vars) => C1Inv'
<1> SUFFICES ASSUME C1Inv, [C1!Next]_(C1!vars) PROVE C1Inv'
  OBVIOUS
<1>1. CASE UNCHANGED C1!vars
  <2>1. C1TypeOK' /\ Sentinel'
    BY <1>1 DEF C1!vars, C1Inv, C1TypeOK, Sentinel
  <2>2. Places'
    BY <1>1 DEF C1!vars, C1Inv, Places, Working, WasRead
  <2>3. Counts'
    BY <1>1 DEF C1!vars, C1Inv, Counts, Counted
  <2> QED
    BY <2>1, <2>2, <2>3 DEF C1Inv
<1>2. CASE C1!Main
  BY <1>2, ReadKeeps, LaunchKeeps, FinishKeeps DEF C1!Main
<1>3. CASE \E w \in Workers : C1!Worker(w)
  BY <1>3, PullKeeps, CrackKeeps, CountKeeps, ReportKeeps, LeaveKeeps DEF C1!Worker
<1> QED
  BY <1>1, <1>2, <1>3 DEF C1!Next, C1!Terminated

(* One occurrence *)
LEMMA OnePlace ==
  ASSUME NEW S, NEW s \in Seq(S), NEW e,
         \A k, l \in 1..Len(s) : s[k] = s[l] => k = l
  PROVE  Cardinality({k \in 1..Len(s) : s[k] = e}) = IF e \in ToSet(s) THEN 1 ELSE 0
<1>1. CASE e \in ToSet(s)
  <2>1. PICK k \in 1..Len(s) : s[k] = e
    BY <1>1, Elements
  <2>2. {l \in 1..Len(s) : s[l] = e} = {k}
    BY <2>1
  <2> QED
    BY <1>1, <2>2, FS_Singleton
<1>2. CASE e \notin ToSet(s)
  <2>1. {l \in 1..Len(s) : s[l] = e} = {}
    BY <1>2, Elements
  <2> QED
    BY <1>2, <2>1, FS_EmptySet
<1> QED
  BY <1>1, <1>2

LEMMA C1Safe == C1Inv => NothingLost
<1> SUFFICES ASSUME C1Inv PROVE C1!NothingLost
  BY DEF NothingLost
<1>0. C1TypeOK /\ Places /\ Sentinel /\ Counts
  BY DEF C1Inv
<1>1. /\ tasks \in Seq(InputLines \cup {Nothing})
      /\ \A k, l \in 1..Len(tasks) : tasks[k] = tasks[l] => k = l
  BY <1>0 DEF C1TypeOK, Places
<1>2. ASSUME NEW n \in 1..num_tasks
      PROVE  Cardinality({k \in 1..Len(tasks) : tasks[k] = Tasks[n]})
               + Cardinality({w \in Workers : /\ pc1[w] \in {"crack", "count", "report"}
                                              /\ task[w] = Tasks[n]})
               + (IF result1[Tasks[n]] = Nothing THEN 0 ELSE 1) = 1
  <2> DEFINE t == Tasks[n]
             W == {w \in Workers : pc1[w] \in {"crack", "count", "report"} /\ task[w] = t}
  <2>1. t \in InputLines /\ t \in WasRead
    <3>1. n \in 1..Len(Tasks)
      BY <1>0, Stdin DEF C1TypeOK
    <3> QED
      BY <3>1, Stdin DEF WasRead
  <2> HIDE DEF t
  <2>2. Cardinality({k \in 1..Len(tasks) : tasks[k] = t})
          = IF t \in ToSet(tasks) THEN 1 ELSE 0
    BY <1>1, OnePlace
  <2>3. \A w \in Workers : w \in W <=> Working(w) /\ task[w] = t
    BY DEF Working
  <2>4. CASE \E w \in Workers : w \in W
    <3>1. PICK w \in Workers : w \in W
      BY <2>4
    <3>2. \A v \in Workers : v \in W => v = w
      BY <1>0, <2>3, <3>1 DEF Places
    <3>3. W = {w}
      BY <3>1, <3>2
    <3>4. Cardinality(W) = 1
      BY <3>3, FS_Singleton
    <3>5. t \notin ToSet(tasks) /\ result1[t] = Nothing
      BY <1>0, <2>3, <3>1 DEF Places
    <3> QED
      BY <2>2, <3>4, <3>5 DEF t
  <2>5. CASE ~\E w \in Workers : w \in W
    <3>1. Cardinality(W) = 0
      <4>1. W = {}
        BY <2>5
      <4> QED
        BY <4>1, FS_EmptySet
    <3>2. t \in ToSet(tasks) <=> result1[t] = Nothing
      BY <1>0, <2>1, <2>3, <2>5 DEF Places
    <3> QED
      BY <2>2, <3>1, <3>2 DEF t
  <2> QED
    BY <2>4, <2>5
<1>3. ASSUME main1 = "join"
      PROVE  Cardinality({k \in 1..Len(tasks) : tasks[k] = Nothing})
               + Cardinality({w \in Workers : pc1[w] = "leave"}) = 1
  <2> DEFINE L == {w \in Workers : pc1[w] = "leave"}
  <2>1. Cardinality({k \in 1..Len(tasks) : tasks[k] = Nothing})
          = IF Nothing \in ToSet(tasks) THEN 1 ELSE 0
    BY <1>1, OnePlace
  <2>2. CASE \E w \in Workers : pc1[w] = "leave"
    <3>1. PICK w \in Workers : pc1[w] = "leave"
      BY <2>2
    <3>2. L = {w}
      BY <1>0, <3>1 DEF Sentinel
    <3>3. Cardinality(L) = 1
      BY <3>2, FS_Singleton
    <3> QED
      BY <1>0, <1>3, <2>1, <2>2, <3>3 DEF Sentinel
  <2>3. CASE ~\E w \in Workers : pc1[w] = "leave"
    <3>1. L = {}
      BY <2>3
    <3>2. Cardinality(L) = 0
      BY <3>1, FS_EmptySet
    <3> QED
      BY <1>0, <1>3, <2>1, <2>3, <3>2 DEF Sentinel
  <2> QED
    BY <2>2, <2>3
<1>4. ASSUME summary1 # Nothing
      PROVE  /\ \A n \in 1..Len(Tasks) : result1[Tasks[n]] # Nothing
             /\ summary1.recovered
                  = Cardinality({t \in C1!ToSet(Tasks) \ Known : result1[t] = 0})
  <2>1. /\ main1 = "done" /\ tasks = <<>> /\ num_tasks = Len(Tasks)
        /\ \A w \in Workers : pc1[w] = "done"
        /\ summary1.recovered = Cardinality(Counted)
    BY <1>0, <1>4 DEF Counts, Sentinel
  <2>2. ToSet(tasks) = {}
    BY <2>1 DEF ToSet
  <2>3. ASSUME NEW t \in InputLines PROVE result1[t] # Nothing
    <3>1. t \in WasRead
      BY <2>1, Stdin DEF WasRead
    <3>2. \A w \in Workers : ~Working(w)
      BY <2>1 DEF Working
    <3> QED
      BY <1>0, <2>2, <3>1, <3>2 DEF Places
  <2>4. Counted = {t \in InputLines \ Known : result1[t] = 0}
    BY <1>0, <2>1, <2>3, Stdin DEF Counted, Counts
  <2> QED
    BY <2>1, <2>3, <2>4, Stdin
<1>5. \A S : C1!Cardinality(S) = Cardinality(S)
  BY DEF C1!Cardinality, Cardinality
<1> QED
  BY <1>2, <1>3, <1>4, <1>5 DEF C1!NothingLost

(* cracker1.c tries every line of stdin exactly once, whatever the number   *)
(* of threads, and its summary counts what was reported: a worker leaves    *)
(* only when the lines before the sentinel are gone from the queue, and     *)
(* hands the sentinel on.                                                   *)
THEOREM Cracker1Correct == C1!Spec => []NothingLost
BY C1Initially, C1Step, C1Safe, PTL DEF C1!Spec
=============================================================================
