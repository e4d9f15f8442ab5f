--------------------------- MODULE ParMake_proofs ---------------------------
(***************************************************************************)
(* Proofs about ParMake for any number of workers, any rules and any files *)
(* there were: no rule is forgotten or run twice; rules are run after the  *)
(* dependencies that were looked at; and, when targets that are there need *)
(* source files only, what is left alone is up to date.                    *)
(***************************************************************************)
EXTENDS ParMake, SequenceLemmas, FiniteSetTheorems, TLAPS

Scanning(w) == pc[w] \in {"scan", "reread"}

(* Whoever scans holds mtx_1, so topo_order is as long as when it began; a  *)
(* second look is at a dependency of the rule the scan is at.               *)
ScanAlone ==
  \A w \in Workers : Scanning(w) =>
    /\ mtx_1 = w /\ num[w] = Len(todo) /\ i[w] \in 1..num[w]
    /\ pc[w] = "reread" => sub[w] \in 1..Len(Deps[todo[i[w]]])

(* A rule is in topo_order at most once and with at most one worker, never  *)
(* in both, and in one of them until its state is set.                      *)
OneHome ==
  /\ \A m, n \in 1..Len(todo) : todo[m] = todo[n] => m = n
  /\ \A n \in 1..Len(todo) : fate[todo[n]] = "waiting"
  /\ \A w \in Workers : Acting(w) =>
       job[w] \in Targets /\ fate[job[w]] = "waiting" /\ job[w] \notin ToSet(todo)
  /\ \A v, w \in Workers : Acting(v) /\ Acting(w) /\ job[v] = job[w] => v = w
  /\ \A t \in Targets : fate[t] = "waiting" =>
       t \in ToSet(todo) \/ \E w \in Workers : Acting(w) /\ job[w] = t
  /\ \A t \in Targets : state[t] = 0 <=> fate[t] = "waiting"

(* The inductive invariant. *)
ParInv == TypeOK /\ ScanAlone /\ OneHome

-----------------------------------------------------------------------------
(* No rule is forgotten, and none is run twice *)

(* set_elements(order): a sequence of all targets, each once. *)
LEMMA AllQueued ==
  ASSUME ParMakeAssumption, NEW s \in SetToSeqs(Targets)
  PROVE  /\ s \in Seq(Targets)
         /\ \A k, l \in 1..Len(s) : s[k] = s[l] => k = l
         /\ ToSet(s) = Targets
<1> DEFINE n == Cardinality(Targets)
<1>1. n \in Nat /\ IsFiniteSet(Targets)
  BY FS_CardinalityType DEF ParMakeAssumption
<1>2. s \in [1..n -> Targets] /\ \A k, l \in 1..n : k # l => s[k] # s[l]
  BY DEF SetToSeqs
<1>3. s \in Seq(Targets) /\ Len(s) = n
  BY <1>1, <1>2
<1>4. s \in Injection(1..n, Targets)
  BY <1>2 DEF Injection, IsInjective
<1>5. Cardinality(1..n) = n
  BY <1>1, FS_Interval
<1>6. s \in Surjection(1..n, Targets)
  BY <1>1, <1>4, <1>5, FS_Injection
<1> QED
  BY <1>2, <1>3, <1>6 DEF Surjection, ToSet

LEMMA ParInit == ASSUME ParMakeAssumption PROVE Init => ParInv
<1> SUFFICES ASSUME Init PROVE ParInv
  OBVIOUS
<1>1. /\ todo \in Seq(Targets)
      /\ \A k, l \in 1..Len(todo) : todo[k] = todo[l] => k = l
      /\ ToSet(todo) = Targets
  BY AllQueued DEF Init
<1>2. Cardinality(Targets) \in Nat
  BY FS_CardinalityType DEF ParMakeAssumption
<1>3. TypeOK
  BY <1>1, <1>2 DEF Init, TypeOK, ParMakeAssumption
<1>4. ScanAlone
  BY DEF Init, ScanAlone, Scanning
<1>5. OneHome
  <2>1. \A n \in 1..Len(todo) : todo[n] \in Targets
    BY <1>1
  <2> QED
    BY <1>1, <2>1 DEF Init, OneHome, Acting
<1> QED
  BY <1>3, <1>4, <1>5 DEF ParInv

(* What a worker that scans looks at. *)
LEMMA Scanned ==
  ASSUME ParInv, NEW w \in Workers, Scanning(w)
  PROVE  /\ mtx_1 = w /\ i[w] \in 1..Len(todo) /\ todo[i[w]] \in ToSet(todo)
         /\ todo[i[w]] \in Targets /\ state[todo[i[w]]] = 0 /\ fate[todo[i[w]]] = "waiting"
         /\ \A v \in Workers : Scanning(v) => v = w
  BY DEF ParInv, TypeOK, ScanAlone, OneHome, Scanning, ToSet

(* A scan does one of three things with the rule it looks at; rule->state   *)
(* is never set then, so that status 3 does not occur.                      *)
LEMMA ActCases ==
  ASSUME ParInv, NEW w \in Workers, Scanning(w), NEW status \in {-1, 0, 1, 2}, Act(w, status)
  PROVE  \/ status = 1 /\ Erase(w, "run")
         \/ status = 2 /\ Erase(w, "halted")
         \/ status = -1 /\ Erase(w, "dropped")
         \/ status = 0 /\ Idle(w)
  BY DEF Act

LEMMA StatusRange ==
  ASSUME ParMakeAssumption, ParInv, NEW w \in Workers, Scanning(w)
  PROVE  /\ Status(todo[i[w]]) \in {1, 2}
         /\ pc[w] = "reread" => state[Deps[todo[i[w]]][sub[w]]] \in {-1, 0, 1}
<1>1. state[todo[i[w]]] = 0 /\ todo[i[w]] \in Targets
  BY Scanned
<1>2. Status(todo[i[w]]) \in {1, 2}
  BY <1>1 DEF Status, FileStatus
<1>3. ASSUME pc[w] = "reread" PROVE state[Deps[todo[i[w]]][sub[w]]] \in {-1, 0, 1}
  <2>1. Deps[todo[i[w]]] \in Seq(Targets) /\ sub[w] \in 1..Len(Deps[todo[i[w]]])
    BY <1>1, <1>3 DEF ParMakeAssumption, ParInv, ScanAlone
  <2>2. Deps[todo[i[w]]][sub[w]] \in Targets
    BY <2>1
  <2> QED
    BY <2>2 DEF ParInv, TypeOK
<1> QED
  BY <1>2, <1>3

(* vector_erase hands the rule over to the worker. *)
LEMMA EraseStep ==
  ASSUME ParInv, NEW w \in Workers, Scanning(w), NEW next \in {"run", "halted", "dropped"},
         Erase(w, next), UNCHANGED <<sub, state, mtime, now, fate>>, seen' \in [Workers -> Nat]
  PROVE  ParInv'
<1> DEFINE t == todo[i[w]]
<1>1. /\ mtx_1 = w /\ i[w] \in 1..Len(todo) /\ t \in ToSet(todo) /\ t \in Targets
      /\ fate[t] = "waiting" /\ \A v \in Workers : Scanning(v) => v = w
  BY Scanned
<1>2. /\ TypeOK /\ ScanAlone /\ OneHome
      /\ job' = [job EXCEPT ![w] = t] /\ todo' = RemoveAt(todo, i[w])
      /\ mtx_1' = NULL /\ pc' = [pc EXCEPT ![w] = next] /\ UNCHANGED <<asleep, i, num>>
  BY DEF ParInv, Erase
<1>3. /\ todo \in Seq(Targets)
      /\ \A k, l \in 1..Len(todo) : todo[k] = todo[l] => k = l
  BY <1>2 DEF TypeOK, OneHome
<1> HIDE DEF t
<1>4. /\ todo' \in Seq(Targets)
      /\ \A k, l \in 1..Len(todo') : todo'[k] = todo'[l] => k = l
      /\ ToSet(todo') = ToSet(todo) \ {t}
  <2>1. /\ RemoveAt(todo, i[w]) \in Seq(Targets)
        /\ \A k, l \in 1..Len(RemoveAt(todo, i[w])) :
             RemoveAt(todo, i[w])[k] = RemoveAt(todo, i[w])[l] => k = l
        /\ ToSet(RemoveAt(todo, i[w])) = ToSet(todo) \ {t}
    BY ZenonT(60), <1>1, <1>3, RemoveAtProperties, RemoveOne DEF t
  <2> QED
    BY <1>2, <2>1
<1>5. TypeOK'
  BY <1>1, <1>2, <1>4 DEF TypeOK
<1>6. ScanAlone'
  BY <1>1, <1>2 DEF ScanAlone, Scanning, TypeOK
<1>7. /\ Acting(w)' /\ job'[w] = t /\ ~Acting(w)
      /\ \A v \in Workers : v # w => (Acting(v)' <=> Acting(v)) /\ job'[v] = job[v]
  BY <1>2 DEF Acting, Scanning, TypeOK
<1>8. OneHome'
  <2>1. \A n \in 1..Len(todo') : fate'[todo'[n]] = "waiting"
    <3> SUFFICES ASSUME NEW n \in 1..Len(todo') PROVE fate[todo'[n]] = "waiting"
      OBVIOUS
    <3>1. todo'[n] \in ToSet(todo)
      BY <1>4, Elements
    <3>2. PICK k \in 1..Len(todo) : todo[k] = todo'[n]
      BY <1>3, <3>1, Elements
    <3> QED
      BY <1>2, <3>2 DEF OneHome
  <2>2. ASSUME NEW v \in Workers, Acting(v)'
        PROVE  job'[v] \in Targets /\ fate'[job'[v]] = "waiting" /\ job'[v] \notin ToSet(todo')
    <3>1. job'[v] \notin ToSet(todo')
      BY <1>2, <1>4, <1>7, <2>2 DEF OneHome
    <3> QED
      BY <1>1, <1>2, <1>7, <2>2, <3>1 DEF OneHome
  <2>3. ASSUME NEW v \in Workers, NEW u \in Workers, Acting(v)', Acting(u)', job'[v] = job'[u]
        PROVE  v = u
    BY <1>1, <1>2, <1>7, <2>3 DEF OneHome
  <2>4. ASSUME NEW u \in Targets, fate'[u] = "waiting"
        PROVE  u \in ToSet(todo') \/ \E v \in Workers : Acting(v)' /\ job'[v] = u
    <3>1. CASE u = t
      BY <1>7, <3>1
    <3>2. CASE u # t
      BY <1>2, <1>4, <1>7, <2>4, <3>2 DEF OneHome
    <3> QED
      BY <3>1, <3>2
  <2>5. \A u \in Targets : state'[u] = 0 <=> fate'[u] = "waiting"
    BY <1>2 DEF OneHome
  <2> QED
    BY <1>4, <2>1, <2>2, <2>3, <2>4, <2>5 DEF OneHome
<1> QED
  BY <1>5, <1>6, <1>8 DEF ParInv

(* A step that changes neither topo_order nor a state, and neither whether  *)
(* a worker acts nor on what, keeps every rule where it is.                 *)
LEMMA SameHomes ==
  ASSUME OneHome, UNCHANGED <<todo, state, fate, job>>,
         \A v \in Workers : Acting(v)' <=> Acting(v)
  PROVE  OneHome'
  BY DEF OneHome

LEMMA IdleStep ==
  ASSUME ParInv, NEW w \in Workers, Scanning(w), Idle(w),
         UNCHANGED <<sub, state, mtime, now, fate>>, seen' \in [Workers -> Nat]
  PROVE  ParInv'
<1>1. /\ mtx_1 = w /\ i[w] \in 1..Len(todo) /\ \A v \in Workers : Scanning(v) => v = w
  BY Scanned
<1>2. /\ TypeOK /\ ScanAlone /\ OneHome /\ num[w] = Len(todo)
      /\ UNCHANGED <<todo, num, job>>
  BY DEF ParInv, Idle, ScanAlone
<1>3. CASE i[w] = num[w]
  <2>1. /\ asleep' = asleep \cup {w} /\ mtx_1' = NULL /\ i' = i
        /\ pc' = [pc EXCEPT ![w] = "asleep"]
    BY <1>3 DEF Idle
  <2>2. TypeOK'
    BY <1>2, <2>1 DEF TypeOK
  <2>3. ScanAlone'
    BY <1>1, <1>2, <2>1 DEF ScanAlone, Scanning, TypeOK
  <2>4. \A v \in Workers : Acting(v)' <=> Acting(v)
    BY <1>2, <2>1 DEF Acting, TypeOK, Scanning
  <2> QED
    BY <1>2, <2>2, <2>3, <2>4, SameHomes DEF ParInv
<1>4. CASE i[w] # num[w]
  <2>1. /\ i' = [i EXCEPT ![w] = i[w] + 1] /\ UNCHANGED <<mtx_1, asleep>>
        /\ pc' = [pc EXCEPT ![w] = "scan"]
    BY <1>4 DEF Idle
  <2>2. TypeOK'
    BY <1>1, <1>2, <2>1 DEF TypeOK
  <2>3. ScanAlone'
    BY <1>1, <1>2, <1>4, <2>1 DEF ScanAlone, Scanning, TypeOK
  <2>4. \A v \in Workers : Acting(v)' <=> Acting(v)
    BY <1>2, <2>1 DEF Acting, TypeOK, Scanning
  <2> QED
    BY <1>2, <2>2, <2>3, <2>4, SameHomes DEF ParInv
<1> QED
  BY <1>3, <1>4

(* A scan or a second look at a dependency *)
LEMMA ActStep ==
  ASSUME ParInv, NEW w \in Workers, Scanning(w), NEW status \in {-1, 0, 1, 2}, Act(w, status),
         UNCHANGED <<sub, state, mtime, now, fate>>, seen' \in [Workers -> Nat]
  PROVE  ParInv'
  BY ActCases, EraseStep, IdleStep

LEMMA LockStep ==
  ASSUME ParMakeAssumption, ParInv, NEW w \in Workers, Lock(w) PROVE ParInv'
<1>1. /\ TypeOK /\ ScanAlone /\ OneHome /\ pc[w] = "loop" /\ mtx_1 = NULL /\ w # NULL
      /\ UNCHANGED <<todo, asleep, job, sub, state, mtime, now, fate, seen>>
  BY DEF ParMakeAssumption, ParInv, Lock
<1>2. \A v \in Workers : ~Scanning(v)
  BY <1>1 DEF ParMakeAssumption, ScanAlone
<1>3. CASE todo = <<>>
  <2>1. pc' = [pc EXCEPT ![w] = "exited"] /\ UNCHANGED <<mtx_1, i, num>>
    BY <1>3 DEF Lock
  <2>2. TypeOK' /\ ScanAlone'
    BY <1>1, <1>2, <2>1 DEF TypeOK, ScanAlone, Scanning
  <2>3. \A v \in Workers : Acting(v)' <=> Acting(v)
    BY <1>1, <2>1 DEF Acting, TypeOK
  <2> QED
    BY <1>1, <2>2, <2>3, SameHomes DEF ParInv
<1>4. CASE todo # <<>>
  <2>1. /\ mtx_1' = w /\ i' = [i EXCEPT ![w] = 1] /\ num' = [num EXCEPT ![w] = Len(todo)]
        /\ pc' = [pc EXCEPT ![w] = "scan"] /\ Len(todo) \in Nat \ {0}
    BY <1>1, <1>4 DEF Lock, TypeOK
  <2>2. TypeOK'
    BY <1>1, <2>1 DEF TypeOK
  <2>3. ScanAlone'
    BY <1>1, <1>2, <2>1 DEF TypeOK, ScanAlone, Scanning
  <2>4. \A v \in Workers : Acting(v)' <=> Acting(v)
    BY <1>1, <2>1 DEF Acting, TypeOK
  <2> QED
    BY <1>1, <2>2, <2>3, <2>4, SameHomes DEF ParInv
<1> QED
  BY <1>3, <1>4

LEMMA MeetStep ==
  ASSUME ParMakeAssumption, ParInv, NEW w \in Workers, Meet(w)
  PROVE  ParInv'
<1>1. /\ TypeOK /\ ScanAlone /\ OneHome /\ Scanning(w)
      /\ pc' = [pc EXCEPT ![w] = "reread"]
      /\ UNCHANGED <<todo, mtx_1, asleep, i, num, job, state, mtime, now, fate, seen>>
  BY DEF ParInv, Meet, Scanning
<1>2. PICK k \in Unfinished(todo[i[w]]) : sub' = [sub EXCEPT ![w] = k]
  BY DEF Meet
<1>3. todo[i[w]] \in Targets /\ k \in 1..Len(Deps[todo[i[w]]]) /\ k \in Nat
  BY <1>1, Scanned DEF Unfinished
<1>4. sub'[w] = k
  BY <1>1, <1>2 DEF TypeOK
<1>5. TypeOK' /\ ScanAlone'
  BY ZenonT(60), <1>1, <1>2, <1>3, <1>4 DEF TypeOK, ScanAlone, Scanning
<1>6. \A v \in Workers : Acting(v)' <=> Acting(v)
  BY <1>1 DEF Acting, TypeOK, Scanning
<1> QED
  BY <1>1, <1>5, <1>6, SameHomes DEF ParInv

LEMMA RunStep == ASSUME ParInv, NEW w \in Workers, Run(w) PROVE ParInv'
<1>1. /\ TypeOK /\ ScanAlone /\ OneHome /\ pc[w] = "run"
      /\ pc' = [pc EXCEPT ![w] = "built"] \/ pc' = [pc EXCEPT ![w] = "failed"]
      /\ UNCHANGED <<todo, mtx_1, asleep, i, num, job, sub, state, fate, seen>>
  BY DEF ParInv, Run
<1>2. mtime' \in [Targets -> Nat] /\ now' \in Nat
  <2>1. CASE now' = now + 1 /\ mtime' = IF job[w] \in Creates THEN [mtime EXCEPT ![job[w]] = now']
                                        ELSE mtime
    <3>1. now' \in Nat
      BY <1>1, <2>1 DEF TypeOK
    <3> QED
      BY <1>1, <2>1, <3>1 DEF TypeOK
  <2>2. CASE UNCHANGED <<now, mtime>>
    BY <1>1, <2>2 DEF TypeOK
  <2> QED
    BY <2>1, <2>2 DEF Run
<1>3. TypeOK'
  BY <1>1, <1>2 DEF TypeOK
<1>4. ScanAlone'
  <2>1. ASSUME NEW v \in Workers
        PROVE  (Scanning(v)' <=> Scanning(v)) /\ (pc'[v] = "reread" <=> pc[v] = "reread")
    BY <1>1, <2>1 DEF TypeOK, Scanning
  <2> QED
    BY <1>1, <2>1 DEF ScanAlone
<1>5. \A v \in Workers : Acting(v)' <=> Acting(v)
  BY <1>1 DEF Acting, TypeOK
<1> QED
  BY <1>1, <1>3, <1>4, <1>5, SameHomes DEF ParInv

(* What a report makes of the rule's state and of its fate *)
LEMMA Reported ==
  ASSUME ParInv, NEW w \in Workers, Report(w)
  PROVE  /\ job[w] \in Targets /\ Acting(w) /\ fate[job[w]] = "waiting"
         /\ pc[w] \in {"built", "failed", "halted", "dropped"}
         /\ state' = [state EXCEPT ![job[w]] = IF pc[w] = "failed" THEN -1 ELSE 1]
         /\ fate' = [fate EXCEPT ![job[w]] = pc[w]]
         /\ pc' = [pc EXCEPT ![w] = "loop"] /\ asleep' = {}
         /\ UNCHANGED <<todo, mtx_1, i, num, job, sub, mtime, now, seen>>
<1>1. pc[w] \in {"built", "failed", "halted", "dropped"}
  BY DEF Report
<1>2. job[w] \in Targets /\ Acting(w) /\ fate[job[w]] = "waiting" /\ state[job[w]] = 0
  BY <1>1 DEF ParInv, OneHome, Acting
<1>3. /\ \E s : Publish(w, s) /\ s = IF pc[w] = "failed" THEN -1 ELSE 1
      /\ fate' = [fate EXCEPT ![job[w]] = pc[w]]
      /\ UNCHANGED <<todo, mtx_1, i, num, job, sub, mtime, now, seen>>
  BY <1>1, <1>2 DEF Report
<1> QED
  BY <1>1, <1>2, <1>3 DEF Publish

LEMMA ReportStep == ASSUME ParInv, NEW w \in Workers, Report(w) PROVE ParInv'
<1> DEFINE t == job[w]
<1>1. /\ TypeOK /\ ScanAlone /\ OneHome
      /\ t \in Targets /\ Acting(w) /\ fate[t] = "waiting"
      /\ pc[w] \in {"built", "failed", "halted", "dropped"}
      /\ state' = [state EXCEPT ![t] = IF pc[w] = "failed" THEN -1 ELSE 1]
      /\ fate' = [fate EXCEPT ![t] = pc[w]]
      /\ pc' = [pc EXCEPT ![w] = "loop"] /\ asleep' = {}
      /\ UNCHANGED <<todo, mtx_1, i, num, job, sub, mtime, now, seen>>
  BY Reported DEF ParInv
<1>2. TypeOK'
  BY <1>1 DEF TypeOK
<1>3. ScanAlone'
  BY <1>1 DEF TypeOK, ScanAlone, Scanning
<1>4. /\ ~Acting(w)' /\ \A v \in Workers : v # w => (Acting(v)' <=> Acting(v))
      /\ t \notin ToSet(todo) /\ \A v \in Workers : v # w /\ Acting(v) => job[v] # t
  BY <1>1 DEF Acting, TypeOK, OneHome
<1>5. OneHome'
  <2>1. /\ \A m, n \in 1..Len(todo') : todo'[m] = todo'[n] => m = n
        /\ \A v, u \in Workers : Acting(v)' /\ Acting(u)' /\ job'[v] = job'[u] => v = u
    BY <1>1, <1>4 DEF OneHome
  <2>2. ASSUME NEW n \in 1..Len(todo') PROVE fate'[todo'[n]] = "waiting"
    <3>1. todo[n] \in ToSet(todo) /\ fate[todo[n]] = "waiting" /\ todo[n] \in Targets
      BY <1>1, Elements DEF OneHome, TypeOK
    <3> QED
      BY <1>1, <1>4, <3>1 DEF TypeOK
  <2>3. ASSUME NEW v \in Workers, Acting(v)'
        PROVE  job'[v] \in Targets /\ fate'[job'[v]] = "waiting" /\ job'[v] \notin ToSet(todo')
    BY <1>1, <1>4, <2>3 DEF OneHome, TypeOK
  <2>4. ASSUME NEW u \in Targets, fate'[u] = "waiting"
        PROVE  u \in ToSet(todo') \/ \E v \in Workers : Acting(v)' /\ job'[v] = u
    <3>1. u # t /\ fate[u] = "waiting"
      BY <1>1, <2>4 DEF TypeOK
    <3> QED
      BY <1>1, <1>4, <3>1 DEF OneHome
  <2>5. \A u \in Targets : state'[u] = 0 <=> fate'[u] = "waiting"
    BY <1>1 DEF OneHome, TypeOK
  <2> QED
    BY <2>1, <2>2, <2>3, <2>4, <2>5 DEF OneHome
<1> QED
  BY <1>2, <1>3, <1>5 DEF ParInv

LEMMA WakeStep == ASSUME ParInv, NEW w \in Workers, Wake(w) PROVE ParInv'
<1>1. /\ TypeOK /\ ScanAlone /\ OneHome /\ pc[w] = "asleep"
      /\ pc' = [pc EXCEPT ![w] = "loop"]
      /\ UNCHANGED <<todo, mtx_1, asleep, i, num, job, sub, state, mtime, now, fate, seen>>
  BY DEF ParInv, Wake
<1>2. TypeOK' /\ ScanAlone'
  BY <1>1 DEF TypeOK, ScanAlone, Scanning
<1>3. \A v \in Workers : Acting(v)' <=> Acting(v)
  BY <1>1 DEF Acting, TypeOK
<1> QED
  BY <1>1, <1>2, <1>3, SameHomes DEF ParInv

LEMMA ParNext == ASSUME ParMakeAssumption PROVE ParInv /\ [Next]_vars => ParInv'
<1> SUFFICES ASSUME ParInv, [Next]_vars PROVE ParInv'
  OBVIOUS
<1>1. ASSUME NEW w \in Workers, Lock(w) PROVE ParInv'
  BY <1>1, LockStep
<1>2. ASSUME NEW w \in Workers, Scan(w) PROVE ParInv'
  <2>1. Scanning(w) /\ Act(w, Status(todo[i[w]])) /\ UNCHANGED <<sub, state, mtime, now, fate>>
    BY <1>2 DEF Scan, Scanning
  <2>2. Status(todo[i[w]]) \in {-1, 0, 1, 2}
    BY <2>1, StatusRange
  <2>3. seen' \in [Workers -> Nat]
    <3>1. Deps[todo[i[w]]] \in Seq(Targets) /\ seen \in [Workers -> Nat]
      BY <2>1, Scanned DEF ParMakeAssumption, ParInv, TypeOK
    <3>2. Len(Deps[todo[i[w]]]) \in Nat
      BY <3>1
    <3> QED
      BY <1>2, <3>1, <3>2 DEF Scan
  <2> QED
    BY <2>1, <2>2, <2>3, ActStep
<1>3. ASSUME NEW w \in Workers, Meet(w) PROVE ParInv'
  BY <1>3, MeetStep
<1>4. ASSUME NEW w \in Workers, Reread(w) PROVE ParInv'
  <2> DEFINE status == state[Deps[todo[i[w]]][sub[w]]]
  <2>1. /\ Scanning(w) /\ pc[w] = "reread" /\ Act(w, status)
        /\ UNCHANGED <<sub, state, mtime, now, fate>>
    BY <1>4 DEF Reread, Scanning
  <2>2. status \in {-1, 0, 1, 2}
    BY <2>1, StatusRange
  <2>3. seen' \in [Workers -> Nat]
    BY <1>4 DEF Reread, ParInv, TypeOK
  <2> HIDE DEF status
  <2> QED
    BY <2>1, <2>2, <2>3, ActStep
<1>5. ASSUME NEW w \in Workers, Run(w) PROVE ParInv'
  BY <1>5, RunStep
<1>6. ASSUME NEW w \in Workers, Report(w) PROVE ParInv'
  BY <1>6, ReportStep
<1>7. ASSUME NEW w \in Workers, Wake(w) PROVE ParInv'
  BY <1>7, WakeStep
<1>8. CASE UNCHANGED vars
  BY <1>8 DEF vars, ParInv, TypeOK, ScanAlone, Scanning, OneHome, Acting
<1> QED
  BY <1>1, <1>2, <1>3, <1>4, <1>5, <1>6, <1>7, <1>8 DEF Next, Step, Terminated

(* One home is what OneOwner counts. *)
LEMMA ParSafe == ASSUME ParInv PROVE OneOwner
<1> SUFFICES ASSUME NEW t \in Targets
             PROVE  Cardinality({k \in 1..Len(todo) : todo[k] = t})
                      + Cardinality({w \in Workers : Acting(w) /\ job[w] = t})
                      + (IF fate[t] = "waiting" THEN 0 ELSE 1) = 1
  BY DEF OneOwner
<1> DEFINE P == {k \in 1..Len(todo) : todo[k] = t}
           W == {w \in Workers : Acting(w) /\ job[w] = t}
<1> SUFFICES Cardinality(P) + Cardinality(W) + (IF fate[t] = "waiting" THEN 0 ELSE 1) = 1
  OBVIOUS
<1> HIDE DEF P, W
<1>1. OneHome /\ todo \in Seq(Targets)
  BY DEF ParInv, TypeOK
<1>2. Cardinality({}) = 0
  BY FS_EmptySet
<1>3. CASE t \in ToSet(todo)
  <2>1. PICK k \in 1..Len(todo) : todo[k] = t
    BY <1>1, <1>3, Elements
  <2>2. P = {k} /\ W = {} /\ fate[t] = "waiting"
    BY <1>1, <1>3, <2>1 DEF OneHome, P, W
  <2>3. Cardinality({k}) = 1
    BY FS_Singleton
  <2> QED
    BY <1>2, <2>2, <2>3
<1>4. CASE t \notin ToSet(todo) /\ fate[t] = "waiting"
  <2>1. PICK w \in Workers : Acting(w) /\ job[w] = t
    BY <1>1, <1>4 DEF OneHome
  <2>2. P = {} /\ W = {w}
    BY <1>1, <1>4, <2>1, Elements DEF OneHome, P, W
  <2>3. Cardinality({w}) = 1
    BY FS_Singleton
  <2> QED
    BY <1>2, <1>4, <2>2, <2>3
<1>5. CASE t \notin ToSet(todo) /\ fate[t] # "waiting"
  <2>1. P = {} /\ W = {}
    BY <1>1, <1>5, Elements DEF OneHome, P, W
  <2> QED
    BY <1>2, <1>5, <2>1
<1> QED
  BY <1>3, <1>4, <1>5

(* The worker list and the rules agree in every run of parmake. *)
THEOREM ParMakeInvariant == ASSUME ParMakeAssumption PROVE Spec => []ParInv
BY ParInit, ParNext, PTL DEF Spec

(* parmake runs the commands of no rule twice and forgets none, for any     *)
(* makefile and any number of threads, although a thread acts on a rule     *)
(* without any lock: the erasure under mtx_1 hands the rule over to it.     *)
THEOREM ParMakeOneOwner == ASSUME ParMakeAssumption PROVE Spec => []OneOwner
BY ParMakeInvariant, ParSafe, PTL

-----------------------------------------------------------------------------
(* What is left alone is up to date *)

(* A target whose file is there already needs source files only: their      *)
(* times say everything.  parmake does not look at the states of the        *)
(* dependencies of such a target, so one with a rule may be rebuilt later.  *)
OldNeedSources ==
  \A f \in Files : \A t \in Targets : f[t] > 0 =>
    \A k \in 1..Len(Deps[t]) : Deps[Deps[t][k]] = <<>> /\ f[Deps[t][k]] > 0

(* A file that was there is judged by sources, nobody runs a source, and    *)
(* what is halted stays newer than the sources it needs.                    *)
Halting ==
  /\ \A n \in 1..Len(todo) : Exists(todo[n]) =>
       \A k \in 1..Len(Deps[todo[n]]) : Source(Deps[todo[n]][k])
  /\ \A w \in Workers : pc[w] = "run" => ~Source(job[w])
  /\ \A t \in Targets : (fate[t] = "halted" \/ \E w \in Workers : pc[w] = "halted" /\ job[w] = t) =>
       \A k \in 1..Len(Deps[t]) : Source(Deps[t][k]) /\ mtime[Deps[t][k]] <= mtime[t]

HaltInv == ParInv /\ Halting

LEMMA HaltInit == ASSUME ParMakeAssumption, OldNeedSources PROVE Init => Halting
<1> SUFFICES ASSUME Init PROVE Halting
  OBVIOUS
<1>1. todo \in Seq(Targets) /\ mtime \in Files /\ mtime \in [Targets -> Nat]
  BY AllQueued DEF Init, ParMakeAssumption
<1>2. ASSUME NEW n \in 1..Len(todo), Exists(todo[n])
      PROVE  \A k \in 1..Len(Deps[todo[n]]) : Source(Deps[todo[n]][k])
  BY SMTT(40), <1>1, <1>2 DEF Exists, Source, OldNeedSources
<1>3. \A w \in Workers : pc[w] = "loop"
  BY DEF Init
<1>4. \A t \in Targets : fate[t] = "waiting"
  BY DEF Init
<1> QED
  BY <1>2, <1>3, <1>4 DEF Halting

(* A step that leaves files, fates and topo_order alone, and who runs or    *)
(* halts what *)
LEMMA HaltKeeps ==
  ASSUME Halting, UNCHANGED <<todo, mtime, fate, job>>,
         \A v \in Workers : pc'[v] \in {"run", "halted"} => pc'[v] = pc[v]
  PROVE  Halting'
  BY DEF Halting, Exists, Source

LEMMA HaltErase ==
  ASSUME ParInv, Halting, NEW w \in Workers, Scanning(w), NEW next \in {"run", "halted", "dropped"},
         Erase(w, next), UNCHANGED <<sub, state, mtime, now, fate>>,
         next = "run" => ~Source(todo[i[w]]),
         next = "halted" => \A k \in 1..Len(Deps[todo[i[w]]]) :
           /\ Source(Deps[todo[i[w]]][k])
           /\ mtime[Deps[todo[i[w]]][k]] <= mtime[todo[i[w]]]
  PROVE  Halting'
<1> DEFINE t == todo[i[w]]
<1>1. /\ TypeOK /\ i[w] \in 1..Len(todo)
      /\ job' = [job EXCEPT ![w] = t] /\ todo' = RemoveAt(todo, i[w])
      /\ pc' = [pc EXCEPT ![w] = next] /\ UNCHANGED <<mtime, fate>>
  BY Scanned DEF ParInv, Erase
<1>2. \A x : Source(x)' = Source(x) /\ Exists(x)' = Exists(x)
  BY <1>1 DEF Source, Exists
<1>3. ASSUME NEW n \in 1..Len(todo') PROVE \E m \in 1..Len(todo) : todo[m] = todo'[n]
  <2>1. /\ Len(todo') = Len(todo) - 1
        /\ \A k \in 1..(Len(todo) - 1) : todo'[k] = IF k < i[w] THEN todo[k] ELSE todo[k + 1]
    BY ZenonT(60), <1>1, RemoveAtProperties DEF TypeOK
  <2>2. Len(todo) \in Nat
    BY <1>1 DEF TypeOK
  <2>3. n \in 1..Len(todo) /\ n + 1 \in 1..Len(todo) /\ (todo'[n] = todo[n] \/ todo'[n] = todo[n + 1])
    BY <2>1, <2>2
  <2> QED
    BY <2>3
<1>4. ASSUME NEW n \in 1..Len(todo'), Exists(todo'[n])
      PROVE  \A k \in 1..Len(Deps[todo'[n]]) : Source(Deps[todo'[n]][k])
  BY <1>3, <1>4 DEF Halting
<1>5. /\ pc'[w] = next /\ job'[w] = t
      /\ \A v \in Workers : v # w => pc'[v] = pc[v] /\ job'[v] = job[v]
  BY <1>1 DEF TypeOK
<1>6. ASSUME NEW v \in Workers, pc'[v] = "run" PROVE ~Source(job'[v])
  BY <1>5, <1>6 DEF Halting
<1>7. ASSUME NEW u \in Targets, fate[u] = "halted" \/ \E v \in Workers : pc'[v] = "halted" /\ job'[v] = u
      PROVE  \A k \in 1..Len(Deps[u]) : Source(Deps[u][k]) /\ mtime[Deps[u][k]] <= mtime[u]
  BY <1>5, <1>7 DEF Halting
<1> HIDE DEF t
<1> QED
  BY <1>1, <1>4, <1>6, <1>7 DEF Halting, Source, Exists

LEMMA HaltRun == ASSUME ParMakeAssumption, ParInv, Halting, NEW w \in Workers, Run(w) PROVE Halting'
<1> DEFINE t == job[w]
<1>1. /\ TypeOK /\ OneHome /\ pc[w] = "run" /\ t \in Targets /\ Acting(w)
      /\ fate[t] = "waiting" /\ t \notin ToSet(todo) /\ ~Source(t)
      /\ pc' = [pc EXCEPT ![w] = "built"] \/ pc' = [pc EXCEPT ![w] = "failed"]
      /\ UNCHANGED <<todo, job, fate>>
  BY DEF ParInv, Run, OneHome, Acting, Halting
<1>2. \A u \in Targets : u # t => mtime'[u] = mtime[u]
  BY <1>1 DEF Run, TypeOK
<1>3. \A u \in Targets : u # t => (Source(u)' <=> Source(u))
  BY <1>2 DEF Source, Exists
<1>4. /\ ~(pc'[w] \in {"run", "halted"})
      /\ \A v \in Workers : v # w => pc'[v] = pc[v] /\ (Acting(v) => job[v] # t)
  BY <1>1 DEF TypeOK, OneHome
<1>5. \A u \in Targets : \A k \in 1..Len(Deps[u]) : Deps[u][k] \in Targets
  BY DEF ParMakeAssumption
<1>6. ASSUME NEW n \in 1..Len(todo), mtime'[todo[n]] > 0, NEW k \in 1..Len(Deps[todo[n]])
      PROVE  Source(Deps[todo[n]][k])'
  <2>1. todo[n] \in Targets /\ todo[n] # t
    BY SMTT(40), <1>1, Elements DEF TypeOK
  <2>2. Source(Deps[todo[n]][k])
    BY <1>2, <1>6, <2>1 DEF Halting, Exists
  <2> QED
    BY <1>1, <1>3, <1>5, <2>1, <2>2
<1>7. ASSUME NEW v \in Workers, pc'[v] = "run" PROVE ~Source(job[v])'
  <2>1. v # w /\ pc[v] = "run" /\ Acting(v) /\ job[v] # t /\ job[v] \in Targets
    BY <1>1, <1>4, <1>7 DEF Acting, OneHome
  <2>2. ~Source(job[v])
    BY <2>1 DEF Halting
  <2> QED
    BY <1>1, <1>2, <2>1, <2>2 DEF Source, Exists
<1>8. ASSUME NEW u \in Targets, fate[u] = "halted" \/ \E v \in Workers : pc'[v] = "halted" /\ job[v] = u,
             NEW k \in 1..Len(Deps[u])
      PROVE  Source(Deps[u][k])' /\ mtime'[Deps[u][k]] <= mtime'[u]
  <2>1. u # t /\ (fate[u] = "halted" \/ \E v \in Workers : pc[v] = "halted" /\ job[v] = u)
    BY <1>1, <1>4, <1>8 DEF Acting
  <2>2. Source(Deps[u][k]) /\ mtime[Deps[u][k]] <= mtime[u]
    BY <2>1 DEF Halting
  <2> QED
    BY <1>1, <1>2, <1>3, <1>5, <2>1, <2>2
<1> QED
  BY <1>1, <1>6, <1>7, <1>8 DEF Halting, Exists

LEMMA HaltReport == ASSUME ParInv, Halting, NEW w \in Workers, Report(w) PROVE Halting'
<1>1. /\ TypeOK /\ job[w] \in Targets
      /\ fate' = [fate EXCEPT ![job[w]] = pc[w]]
      /\ pc' = [pc EXCEPT ![w] = "loop"] /\ UNCHANGED <<todo, mtime, job>>
  BY Reported DEF ParInv
<1>2. \A v \in Workers : pc'[v] \in {"run", "halted"} => pc'[v] = pc[v]
  BY <1>1 DEF TypeOK
<1>3. ASSUME NEW u \in Targets, fate'[u] = "halted" \/ \E v \in Workers : pc'[v] = "halted" /\ job[v] = u
      PROVE  fate[u] = "halted" \/ \E v \in Workers : pc[v] = "halted" /\ job[v] = u
  BY <1>1, <1>2, <1>3 DEF TypeOK
<1> QED
  BY <1>1, <1>2, <1>3 DEF Halting, Exists, Source

(* What the status of a rule in topo_order says *)
LEMMA StatusMeans ==
  ASSUME ParMakeAssumption, ParInv, Halting, NEW w \in Workers, Scanning(w), NEW t, t = todo[i[w]]
  PROVE  /\ Status(t) = 1 => ~Source(t)
         /\ Status(t) = 2 => \A k \in 1..Len(Deps[t]) :
              Source(Deps[t][k]) /\ mtime[Deps[t][k]] <= mtime[t]
         /\ pc[w] = "reread" => ~Source(t)
<1>1. /\ TypeOK /\ state[t] = 0 /\ t \in Targets /\ Deps[t] \in Seq(Targets)
      /\ Exists(t) => \A k \in 1..Len(Deps[t]) : Source(Deps[t][k])
  BY Scanned DEF ParMakeAssumption, Halting, ParInv
<1>2. Status(t) = 1 => ~Source(t)
  BY <1>1 DEF Status, Source
<1>3. ASSUME Status(t) = 2, NEW k \in 1..Len(Deps[t])
      PROVE  Source(Deps[t][k]) /\ mtime[Deps[t][k]] <= mtime[t]
  <2>1. Deps[t] # <<>>
    BY <1>1, <1>3
  <2>2. Exists(t) /\ FileStatus(t) = 2
    BY <1>1, <1>3, <2>1 DEF Status
  <2>3. ~(mtime[t] < mtime[Deps[t][k]])
    BY <2>2 DEF FileStatus
  <2>4. Deps[t][k] \in Targets
    BY <1>1
  <2>5. mtime[t] \in Nat /\ mtime[Deps[t][k]] \in Nat
    BY <1>1, <2>4 DEF TypeOK
  <2> QED
    BY <1>1, <2>2, <2>3, <2>5
<1>4. pc[w] = "reread" => ~Source(t)
  <2>1. pc[w] = "reread" => \E k \in 1..Len(Deps[t]) : TRUE
    <3>1. pc[w] = "reread" => sub[w] \in 1..Len(Deps[t])
      BY DEF ParInv, ScanAlone, Scanning
    <3> QED
      BY <3>1
  <2> QED
    BY <1>1, <2>1 DEF Source
<1> QED
  BY <1>2, <1>3, <1>4

LEMMA HaltNext ==
  ASSUME ParMakeAssumption PROVE ParInv /\ Halting /\ [Next]_vars => Halting'
<1> SUFFICES ASSUME ParInv, Halting, [Next]_vars PROVE Halting'
  OBVIOUS
<1>0. TypeOK
  BY DEF ParInv
<1>1. ASSUME NEW w \in Workers, Lock(w) \/ Meet(w) \/ Wake(w) PROVE Halting'
  <2>1. /\ UNCHANGED <<todo, mtime, fate, job>>
        /\ \E q \in {"loop", "scan", "reread", "exited"} : pc' = [pc EXCEPT ![w] = q]
    BY <1>1 DEF Lock, Meet, Wake
  <2> QED
    BY <1>0, <2>1, HaltKeeps DEF TypeOK
<1>2. ASSUME NEW w \in Workers, Scanning(w), Idle(w), UNCHANGED <<mtime, fate>> PROVE Halting'
  <2>1. /\ UNCHANGED <<todo, job>>
        /\ \E q \in {"asleep", "scan"} : pc' = [pc EXCEPT ![w] = q]
    BY <1>2 DEF Idle
  <2> QED
    BY <1>0, <1>2, <2>1, HaltKeeps DEF TypeOK
<1>3. ASSUME NEW w \in Workers, Scan(w) PROVE Halting'
  <2>1. Scanning(w) /\ Act(w, Status(todo[i[w]])) /\ UNCHANGED <<sub, state, mtime, now, fate>>
    BY <1>3 DEF Scan, Scanning
  <2>2. Status(todo[i[w]]) \in {1, 2}
    BY <2>1, StatusRange
  <2>3. \/ Status(todo[i[w]]) = 1 /\ Erase(w, "run")
        \/ Status(todo[i[w]]) = 2 /\ Erase(w, "halted")
    BY <2>1, <2>2, ActCases
  <2> QED
    BY <2>1, <2>3, StatusMeans, HaltErase
<1>4. ASSUME NEW w \in Workers, Reread(w) PROVE Halting'
  <2>1. /\ Scanning(w) /\ pc[w] = "reread" /\ Act(w, state[Deps[todo[i[w]]][sub[w]]])
        /\ UNCHANGED <<sub, state, mtime, now, fate>>
    BY <1>4 DEF Reread, Scanning
  <2>2. state[Deps[todo[i[w]]][sub[w]]] \in {-1, 0, 1}
    BY <2>1, StatusRange
  <2>3. Erase(w, "run") \/ Erase(w, "dropped") \/ Idle(w)
    BY <2>1, <2>2, ActCases
  <2> QED
    BY <1>2, <2>1, <2>3, StatusMeans, HaltErase
<1>5. CASE UNCHANGED vars
  BY <1>5, HaltKeeps DEF vars
<1> QED
  BY <1>1, <1>3, <1>4, <1>5, HaltRun, HaltReport DEF Next, Step, Terminated

LEMMA HaltSafe == ASSUME Halting PROVE HaltedIsUpToDate
BY DEF Halting, HaltedIsUpToDate

(* When parmake returns, what it left alone is up to date, for any makefile *)
(* and any files in which a target that is there already needs sources only.*)
THEOREM ParMakeHalted ==
  ASSUME ParMakeAssumption, OldNeedSources PROVE Spec => []HaltedIsUpToDate
<1>1. Init => HaltInv
  BY ParInit, HaltInit DEF HaltInv
<1>2. HaltInv /\ [Next]_vars => HaltInv'
  BY ParNext, HaltNext DEF HaltInv
<1>3. HaltInv => HaltedIsUpToDate
  BY HaltSafe DEF HaltInv
<1> QED
  BY <1>1, <1>2, <1>3, PTL DEF Spec

-----------------------------------------------------------------------------
(* In the order of the dependencies *)

(* A state of 1 tells that the rule is settled, and has not failed. *)
Published == \A t \in Targets : state[t] = 1 => fate[t] \in {"built", "halted", "dropped"}

(* The dependencies before the one that is looked at again were done. *)
DoneBefore ==
  \A w \in Workers : pc[w] = "reread" =>
    \A k \in 1..(sub[w] - 1) : state[Deps[todo[i[w]]][k]] = 1

OrderInv == ParInv /\ Published /\ DoneBefore /\ RunsAfterDeps

LEMMA OrderInit == Init => Published /\ DoneBefore /\ RunsAfterDeps
BY DEF Init, Published, DoneBefore, RunsAfterDeps

(* A step that leaves alone states, fates, what workers act on and saw, and *)
(* in which none starts to run or to look again                             *)
LEMMA OrderKeeps ==
  ASSUME Published, RunsAfterDeps, UNCHANGED <<state, fate, job, seen>>,
         \A v \in Workers : pc'[v] = "run" => pc[v] = "run"
  PROVE  Published' /\ RunsAfterDeps'
  BY DEF Published, RunsAfterDeps

LEMMA LooksKeep ==
  ASSUME DoneBefore, UNCHANGED <<state, todo, sub>>,
         \A v \in Workers : pc'[v] = "reread" => pc[v] = "reread" /\ i'[v] = i[v]
  PROVE  DoneBefore'
  BY DEF DoneBefore

(* Whoever scans is alone: after the scan nobody looks again. *)
LEMMA ScanEnds ==
  ASSUME ParInv, NEW w \in Workers, Scanning(w), NEW q, q # "reread",
         pc' = [pc EXCEPT ![w] = q]
  PROVE  DoneBefore'
<1>1. \A v \in Workers : pc'[v] # "reread"
  <2>1. TypeOK /\ \A v \in Workers : Scanning(v) => v = w
    BY Scanned DEF ParInv
  <2> QED
    BY <2>1 DEF TypeOK, Scanning
<1> QED
  BY <1>1 DEF DoneBefore

(* A scan that takes a rule on to run it has seen that dependencies are     *)
(* done; the fates of the others do not matter.                             *)
LEMMA ScanOrders ==
  ASSUME ParInv, Published, RunsAfterDeps, NEW w \in Workers, Scanning(w),
         NEW status \in {-1, 0, 1, 2}, Act(w, status), UNCHANGED <<state, fate>>,
         NEW n \in Nat, seen' = [seen EXCEPT ![w] = n],
         status = 1 => \A k \in 1..n :
           fate[Deps[todo[i[w]]][k]] \in {"built", "halted", "dropped"}
  PROVE  Published' /\ DoneBefore' /\ RunsAfterDeps'
<1>1. TypeOK /\ pc[w] # "run"
  BY DEF ParInv, Scanning
<1>2. Published'
  BY DEF Published
<1>3. CASE status = 0
  <2>1. Idle(w)
    BY <1>3, ActCases
  <2>2. UNCHANGED job /\ \E q \in {"asleep", "scan"} : pc' = [pc EXCEPT ![w] = q]
    BY <2>1 DEF Idle
  <2>3. DoneBefore'
    BY <2>2, ScanEnds
  <2>4. \A v \in Workers : pc'[v] = "run" => pc[v] = "run" /\ v # w
    BY <1>1, <2>2 DEF TypeOK
  <2>5. RunsAfterDeps'
    BY <1>1, <2>2, <2>4 DEF RunsAfterDeps, TypeOK
  <2> QED
    BY <1>2, <2>3, <2>5
<1>4. CASE status # 0
  <2>1. PICK next \in {"run", "halted", "dropped"} :
          Erase(w, next) /\ (next = "run" => status = 1)
    BY <1>4, ActCases
  <2>2. job' = [job EXCEPT ![w] = todo[i[w]]] /\ pc' = [pc EXCEPT ![w] = next]
    BY <2>1 DEF Erase
  <2>3. DoneBefore'
    BY <2>2, ScanEnds
  <2>4. /\ pc'[w] = next /\ job'[w] = todo[i[w]] /\ seen'[w] = n
        /\ \A v \in Workers : v # w => pc'[v] = pc[v] /\ job'[v] = job[v] /\ seen'[v] = seen[v]
    BY <1>1, <2>2 DEF TypeOK
  <2>5. ASSUME NEW v \in Workers, pc'[v] = "run", NEW k \in 1..seen'[v]
        PROVE  fate'[Deps[job'[v]][k]] \in {"built", "halted", "dropped"}
    <3>1. CASE v = w
      BY <2>1, <2>4, <2>5, <3>1
    <3>2. CASE v # w
      BY <2>4, <2>5, <3>2 DEF RunsAfterDeps
    <3> QED
      BY <3>1, <3>2
  <2>6. RunsAfterDeps'
    BY <2>5 DEF RunsAfterDeps
  <2> QED
    BY <1>2, <2>3, <2>6
<1> QED
  BY <1>3, <1>4

LEMMA OrderNext ==
  ASSUME ParMakeAssumption, OrderInv, [Next]_vars
  PROVE  Published' /\ DoneBefore' /\ RunsAfterDeps'
<1>0. ParInv /\ TypeOK /\ OneHome /\ Published /\ DoneBefore /\ RunsAfterDeps
  BY DEF OrderInv, ParInv
<1>t. \A t \in Targets : \A k \in 1..Len(Deps[t]) : Deps[t][k] \in Targets
  BY DEF ParMakeAssumption
<1>1. ASSUME NEW w \in Workers, Lock(w) PROVE Published' /\ DoneBefore' /\ RunsAfterDeps'
  <2>1. /\ UNCHANGED <<todo, sub, state, fate, job, seen>>
        /\ \E q \in {"scan", "exited"} : pc' = [pc EXCEPT ![w] = q]
        /\ \A v \in Workers : v # w => i'[v] = i[v]
    BY <1>0, <1>1 DEF Lock, TypeOK
  <2>2. \A v \in Workers : pc'[v] \in {"run", "reread"} => pc'[v] = pc[v] /\ v # w
    BY <1>0, <2>1 DEF TypeOK
  <2> QED
    BY <1>0, <2>1, <2>2, OrderKeeps, LooksKeep
<1>2. ASSUME NEW w \in Workers, Scan(w) PROVE Published' /\ DoneBefore' /\ RunsAfterDeps'
  <2> DEFINE t == todo[i[w]]
             n == IF Exists(t) THEN 0 ELSE Len(Deps[t])
  <2>1. /\ Scanning(w) /\ ~Rereads(t) /\ Act(w, Status(t)) /\ UNCHANGED <<state, fate>>
        /\ seen' = [seen EXCEPT ![w] = n]
    BY <1>2 DEF Scan, Scanning
  <2>2. Status(t) \in {-1, 0, 1, 2}
    BY <1>0, <2>1, StatusRange
  <2>3. state[t] = 0 /\ t \in Targets /\ Deps[t] \in Seq(Targets)
    BY <1>0, <2>1, Scanned DEF ParMakeAssumption
  <2> HIDE DEF t
  <2>4. n \in Nat
    BY <2>3
  <2>5. ASSUME NEW k \in 1..n PROVE fate[Deps[t][k]] \in {"built", "halted", "dropped"}
    <3>1. ~Exists(t) /\ k \in 1..Len(Deps[t])
      BY <2>3, <2>5
    <3>2. Deps[t] # <<>>
      BY <2>3, <3>1
    <3>3. state[Deps[t][k]] = 1
      BY <2>1, <2>3, <3>1, <3>2 DEF Rereads, Unfinished
    <3> QED
      BY <1>0, <1>t, <2>3, <3>1, <3>3 DEF Published
  <2> HIDE DEF n
  <2> QED
    BY <1>0, <2>1, <2>2, <2>4, <2>5, ScanOrders DEF t
<1>3. ASSUME NEW w \in Workers, Meet(w) PROVE Published' /\ DoneBefore' /\ RunsAfterDeps'
  <2> DEFINE t == todo[i[w]]
  <2>1. /\ Scanning(w) /\ pc' = [pc EXCEPT ![w] = "reread"]
        /\ UNCHANGED <<todo, i, state, fate, job, seen>>
    BY <1>3 DEF Meet, Scanning
  <2>2. PICK k \in Unfinished(t) :
          (\A l \in Unfinished(t) : k <= l) /\ sub' = [sub EXCEPT ![w] = k]
    BY <1>3 DEF Meet
  <2>3. \A v \in Workers : pc'[v] = "run" => pc[v] = "run"
    BY <1>0, <2>1 DEF TypeOK
  <2>4. \A v \in Workers : pc'[v] = "reread" => v = w
    <3>1. \A v \in Workers : Scanning(v) => v = w
      BY <1>0, <2>1, Scanned
    <3> QED
      BY <1>0, <2>1, <3>1 DEF TypeOK, Scanning
  <2>5. k \in 1..Len(Deps[t]) /\ sub'[w] = k /\ Deps[t] \in Seq(Targets)
    BY <1>0, <2>1, <2>2, Scanned DEF Unfinished, TypeOK, ParMakeAssumption
  <2>6. ASSUME NEW l \in 1..(k - 1) PROVE state[Deps[t][l]] = 1
    <3>1. l \in 1..Len(Deps[t]) /\ ~(k <= l)
      BY <2>5
    <3> QED
      BY <2>2, <3>1 DEF Unfinished
  <2>7. DoneBefore'
    BY <2>1, <2>4, <2>5, <2>6 DEF DoneBefore
  <2> QED
    BY <1>0, <2>1, <2>3, <2>7, OrderKeeps
<1>4. ASSUME NEW w \in Workers, Reread(w) PROVE Published' /\ DoneBefore' /\ RunsAfterDeps'
  <2> DEFINE t == todo[i[w]]
             status == state[Deps[t][sub[w]]]
  <2>1. /\ Scanning(w) /\ pc[w] = "reread" /\ Act(w, status) /\ UNCHANGED <<state, fate>>
        /\ seen' = [seen EXCEPT ![w] = sub[w]]
    BY <1>4 DEF Reread, Scanning
  <2>2. status \in {-1, 0, 1, 2}
    BY <1>0, <2>1, StatusRange
  <2>3. /\ t \in Targets /\ sub[w] \in 1..Len(Deps[t]) /\ sub[w] \in Nat
        /\ \A k \in 1..(sub[w] - 1) : state[Deps[t][k]] = 1
    BY <1>0, <2>1, Scanned DEF ParInv, ScanAlone, DoneBefore, TypeOK
  <2>l. Deps[t] \in Seq(Targets)
    BY <2>3 DEF ParMakeAssumption
  <2>4. ASSUME status = 1, NEW k \in 1..sub[w]
        PROVE  fate[Deps[t][k]] \in {"built", "halted", "dropped"}
    <3>1. state[Deps[t][k]] = 1
      <4>1. CASE k = sub[w]
        BY <2>4, <4>1
      <4>2. CASE k # sub[w]
        BY <2>3, <4>2
      <4> QED
        BY <4>1, <4>2
    <3>2. k \in 1..Len(Deps[t])
      BY <2>3, <2>l
    <3> HIDE DEF t
    <3> QED
      BY <1>0, <1>t, <2>3, <3>1, <3>2 DEF Published
  <2> HIDE DEF status
  <2> QED
    BY <1>0, <2>1, <2>2, <2>3, <2>4, ScanOrders
<1>5. ASSUME NEW w \in Workers, Run(w) \/ Wake(w) PROVE Published' /\ DoneBefore' /\ RunsAfterDeps'
  <2>1. /\ UNCHANGED <<todo, i, sub, state, fate, job, seen>>
        /\ \E q \in {"built", "failed", "loop"} : pc' = [pc EXCEPT ![w] = q]
    BY <1>5 DEF Run, Wake
  <2>2. \A v \in Workers : pc'[v] \in {"run", "reread"} => pc'[v] = pc[v]
    BY <1>0, <2>1 DEF TypeOK
  <2> QED
    BY <1>0, <2>1, <2>2, OrderKeeps, LooksKeep
<1>6. ASSUME NEW w \in Workers, Report(w) PROVE Published' /\ DoneBefore' /\ RunsAfterDeps'
  <2> DEFINE t == job[w]
  <2>1. /\ t \in Targets /\ fate[t] = "waiting"
        /\ pc[w] \in {"built", "failed", "halted", "dropped"}
        /\ state' = [state EXCEPT ![t] = IF pc[w] = "failed" THEN -1 ELSE 1]
        /\ fate' = [fate EXCEPT ![t] = pc[w]]
        /\ pc' = [pc EXCEPT ![w] = "loop"] /\ UNCHANGED <<todo, i, num, job, sub, seen>>
    BY <1>0, <1>6, Reported
  <2>2. \A v \in Workers : pc'[v] \in {"run", "reread"} => pc'[v] = pc[v]
    BY <1>0, <2>1 DEF TypeOK
  <2> HIDE DEF t
  <2>3. /\ \A u \in Targets : u # t => state'[u] = state[u] /\ fate'[u] = fate[u]
        /\ state'[t] = (IF pc[w] = "failed" THEN -1 ELSE 1) /\ fate'[t] = pc[w]
    BY <1>0, <2>1 DEF TypeOK
  <2>4. Published'
    BY <1>0, <2>1, <2>3 DEF Published
  <2>5. \A u : fate[u] \in {"built", "halted", "dropped"} => fate'[u] = fate[u]
    BY <2>1
  <2>6. RunsAfterDeps'
    BY <1>0, <2>1, <2>2, <2>5 DEF RunsAfterDeps
  <2>7. DoneBefore'
    <3> SUFFICES ASSUME NEW v \in Workers, pc'[v] = "reread", NEW k \in 1..(sub[v] - 1)
                 PROVE  state'[Deps[todo[i[v]]][k]] = 1
      BY <2>1 DEF DoneBefore
    <3>1. state[Deps[todo[i[v]]][k]] = 1
      BY <1>0, <2>2 DEF DoneBefore
    <3>2. state[t] = 0
      BY <1>0, <2>1 DEF OneHome
    <3> QED
      BY <2>1, <3>1, <3>2
  <2> QED
    BY <2>4, <2>6, <2>7
<1>7. CASE UNCHANGED vars
  BY <1>0, <1>7, OrderKeeps, LooksKeep DEF vars
<1> QED
  BY <1>1, <1>2, <1>3, <1>4, <1>5, <1>6, <1>7 DEF Next, Step, Terminated

(* parmake runs commands only after those of the dependencies a worker      *)
(* looked at, none of which failed: for any makefile and any files, any     *)
(* number of threads, and although states change between two looks.         *)
THEOREM ParMakeOrder == ASSUME ParMakeAssumption PROVE Spec => []RunsAfterDeps
<1>1. Init => OrderInv
  BY ParInit, OrderInit DEF OrderInv
<1>2. OrderInv /\ [Next]_vars => OrderInv'
  BY ParNext, OrderNext DEF OrderInv
<1>3. OrderInv => RunsAfterDeps
  BY DEF OrderInv
<1> QED
  BY <1>1, <1>2, <1>3, PTL DEF Spec
=============================================================================
