--------------------------- MODULE SetIntakeProofs ---------------------------
(* Proofs about SetIntake: its types, and that no SET reaches              *)
(* handle_verified_set twice unless two threads looked its jti up before   *)
(* either marked it.                                                       *)
EXTENDS SetIntake, TLAPS

(* What a deployment has to provide for the guard to work: every pod uses  *)
(* one store, which outlives the crashes there are, and a mark outlives    *)
(* the SET it stands for by the clock skew and the longest stall.          *)
OneStore == \A p, q \in Pods : StoreOf[p] = StoreOf[q]
Durable == MaxCrashes = 0 \/ \A p \in Pods : StoreOf[p] \notin Volatile
WindowCovered == ReplayTtl > MaxAge + Skew + MaxStall

-----------------------------------------------------------------------------
(* The inductive invariant *)

(* Past this time no thread can be about to look SET s up. *)
Deadline(s) == iat[s] + MaxAge + MaxStall

Past(w) == pc[w] \in {"mark", "dispatch"}

Waiting ==
    \A w \in Workers :
        pc[w] = "seen" =>
            /\ verifiedAt[w] <= now
            /\ now <= verifiedAt[w] + MaxStall
            /\ verifiedAt[w] <= iat[job[w]] + MaxAge
            /\ iat[job[w]] <= verifiedAt[w] + Skew

NotFuture == \A w \in Workers : pc[w] = "mark" => iat[job[w]] <= now + Skew

(* The jti of a SET that was, or is about to be, dispatched is known for   *)
(* as long as it matters.                                                  *)
Known ==
    \A s \in Sets, p \in Pods :
        dispatched[s] > 0 \/ (\E w \in Workers : job[w] = s /\ pc[w] = "dispatch")
            => marks[StoreOf[p]][s] > Deadline(s) \/ now > Deadline(s)

Alone ==
    \A v, w \in Workers :
        v # w /\ job[v] = job[w] /\ Past(v) /\ Past(w) => job[w] \in overlap

FirstTime == \A w \in Workers : Past(w) /\ dispatched[job[w]] > 0 => job[w] \in overlap

IInv ==
    /\ TypeOK
    /\ Waiting
    /\ NotFuture
    /\ Known
    /\ Alone
    /\ FirstTime
    /\ OnceUnlessOverlap

-----------------------------------------------------------------------------
LEMMA NatConstants ==
    /\ MaxAge \in Nat
    /\ Skew \in Nat
    /\ ReplayTtl \in Nat
    /\ MaxStall \in Nat
    /\ \A i \in Iats : i \in Nat
BY TimeAssumption

LEMMA InitTypeOK == Init => TypeOK
BY ShapeAssumption, TimeAssumption DEF Init, TypeOK, Steps

LEMMA NextTypeOK == TypeOK /\ [Next]_vars => TypeOK'
<1> SUFFICES ASSUME TypeOK, [Next]_vars PROVE TypeOK'
  OBVIOUS
<1> USE ShapeAssumption, TimeAssumption DEF TypeOK, Steps
<1>1. ASSUME NEW p \in Pods, NEW s \in Sets, ReceiveSet(p, s) PROVE TypeOK'
  BY <1>1 DEF ReceiveSet, threads
<1>2. ASSUME NEW w \in Workers, NEW s \in Sets, StartTask(w, s) PROVE TypeOK'
  BY <1>2 DEF StartTask, Goto
<1>3. ASSUME NEW w \in Workers, VerifySet(w) PROVE TypeOK'
  BY <1>3 DEF VerifySet, Goto
<1>4. ASSUME NEW w \in Workers, RejectSet(w) PROVE TypeOK'
  BY <1>4 DEF RejectSet, Goto, Finish
<1>5. ASSUME NEW w \in Workers, Admit(w) PROVE TypeOK'
  BY <1>5 DEF Admit, Goto, Swept, MyStore
<1>6. ASSUME NEW w \in Workers, DropReplay(w) PROVE TypeOK'
  BY <1>6 DEF DropReplay, Goto, Finish, Swept, MyStore
<1>7. ASSUME NEW w \in Workers, Mark(w) PROVE TypeOK'
  BY <1>7 DEF Mark, Goto, MyStore, Expiry
<1>8. ASSUME NEW w \in Workers, Dispatch(w) PROVE TypeOK'
  BY <1>8 DEF Dispatch, Goto, Finish
<1>9. ASSUME NEW w \in Workers, StoreFails(w) PROVE TypeOK'
  <2>1. marks' \in [Stores -> [Sets -> Nat]] /\ orphaned' \in SUBSET Sets
    <3>1. CASE UNCHANGED <<marks, orphaned>>
      BY <3>1
    <3>2. CASE /\ pc[w] = "mark"
               /\ marks' = [marks EXCEPT ![MyStore(w)][job[w]] = Expiry]
               /\ orphaned' = orphaned \cup {job[w]}
      BY <3>2 DEF MyStore, Expiry
    <3> QED
      BY <1>9, <3>1, <3>2 DEF StoreFails
  <2>2. /\ pc' = [pc EXCEPT ![w] = "idle"]
        /\ job' = [job EXCEPT ![w] = NoSet]
        /\ UNCHANGED <<now, iat, pending, verifiedAt, dispatched, overlap, posts, crashes>>
    BY <1>9 DEF StoreFails, Goto, Finish
  <2> QED
    BY <2>1, <2>2
<1>10. ASSUME NEW p \in Pods, Crash(p) PROVE TypeOK'
  BY <1>10 DEF Crash
<1>11. CASE Tick
  BY <1>11 DEF Tick, threads
<1>12. CASE UNCHANGED vars
  BY <1>12 DEF vars
<1>13. ASSUME NEW w \in Workers, Hang(w) PROVE TypeOK'
  <2>1. marks' \in [Stores -> [Sets -> Nat]] /\ orphaned' \in SUBSET Sets
    <3>1. CASE UNCHANGED <<marks, orphaned>>
      BY <3>1
    <3>2. CASE /\ pc[w] = "mark"
               /\ marks' = [marks EXCEPT ![MyStore(w)][job[w]] = Expiry]
               /\ orphaned' = orphaned \cup {job[w]}
      BY <3>2 DEF MyStore, Expiry
    <3> QED
      BY <1>13, <3>1, <3>2 DEF Hang
  <2>2. /\ pc' = [pc EXCEPT ![w] = "hung"] /\ pc[w] # "idle"
        /\ UNCHANGED <<now, iat, pending, job, verifiedAt, dispatched, overlap, posts, crashes>>
    BY <1>13 DEF Hang, Goto
  <2> QED
    BY <2>1, <2>2
<1>14. ASSUME NEW w \in Workers, HangInHandler(w) PROVE TypeOK'
  BY <1>14 DEF HangInHandler, Goto
<1>15. ASSUME NEW w \in Workers, HangEnds(w) PROVE TypeOK'
  BY <1>15 DEF HangEnds, Goto, Finish
<1> QED
  BY <1>1, <1>2, <1>3, <1>4, <1>5, <1>6, <1>7, <1>8, <1>9, <1>10, <1>11, <1>12, <1>13, <1>14,
     <1>15 DEF Next, Task

(* Every reachable state has the types of TypeOK: in particular no pending *)
(* count of receive_set's tasks goes below zero and a busy thread has a    *)
(* SET to work on.                                                         *)
THEOREM Typing == Spec => []TypeOK
BY InitTypeOK, NextTypeOK, PTL DEF Spec
-----------------------------------------------------------------------------
LEMMA InitIInv == Init => IInv
<1> SUFFICES ASSUME Init PROVE IInv
  OBVIOUS
<1>1. TypeOK
  BY InitTypeOK
<1>2. Waiting /\ NotFuture /\ Alone /\ FirstTime
  BY DEF Init, Waiting, NotFuture, Alone, FirstTime, Past
<1>3. Known
  <2> SUFFICES ASSUME NEW s \in Sets
               PROVE ~(dispatched[s] > 0) /\ ~ \E w \in Workers : pc[w] = "dispatch"
    BY DEF Known
  <2>1. dispatched[s] = 0 /\ \A w \in Workers : pc[w] = "idle"
    BY DEF Init
  <2> QED
    BY <2>1
<1>4. OnceUnlessOverlap
  <2>1. ASSUME NEW s \in Sets PROVE dispatched[s] <= 1
    <3>1. dispatched[s] = 0
      BY DEF Init
    <3> QED
      BY <3>1
  <2> QED
    BY <2>1 DEF OnceUnlessOverlap
<1> QED
  BY <1>1, <1>2, <1>3, <1>4 DEF IInv

(* A thread that is let through finds no other thread past the lookup with *)
(* the same SET except one that has not marked it yet, and the SET was     *)
(* never dispatched: its mark is gone only when its deadline is.           *)
LEMMA AdmittedIsNew ==
    ASSUME TypeOK, Waiting, Known, OneStore,
           NEW w \in Workers, Admit(w)
    PROVE  /\ dispatched[job[w]] = 0
           /\ \A v \in Workers : job[v] = job[w] => pc[v] # "dispatch"
<1> DEFINE s == job[w]
<1>1. s \in Sets /\ pc[w] = "seen" /\ ~Marked(MyStore(w), s)
  BY DEF TypeOK, Admit
<1> USE ShapeAssumption, TimeAssumption DEF TypeOK
<1>2. now <= Deadline(s)
  <2>1. now <= verifiedAt[w] + MaxStall /\ verifiedAt[w] <= iat[s] + MaxAge
    BY <1>1 DEF Waiting
  <2>2. iat[s] \in Nat /\ now \in Nat /\ verifiedAt[w] \in Nat
    BY <1>1
  <2> QED
    BY <2>1, <2>2 DEF Deadline
<1>3. marks[MyStore(w)][s] \in Nat /\ marks[MyStore(w)][s] <= now
  BY <1>1 DEF Marked, MyStore
<1>4. Deadline(s) \in Nat
  <2>1. iat[s] \in Nat
    BY <1>1, NatConstants
  <2> QED
    BY <2>1, NatConstants DEF Deadline
<1>5. ~(marks[StoreOf[PodOf[w]]][s] > Deadline(s) \/ now > Deadline(s))
  BY <1>2, <1>3, <1>4 DEF MyStore
<1>6. PodOf[w] \in Pods
  OBVIOUS
<1>7. ~(dispatched[s] > 0) /\ ~ \E v \in Workers : job[v] = s /\ pc[v] = "dispatch"
  BY <1>1, <1>5, <1>6 DEF Known
<1>8. dispatched[s] \in Nat
  BY <1>1
<1> QED
  BY <1>1, <1>7, <1>8

(* A sweep takes a mark only after its expiry. *)
LEMMA SweepKeeps ==
  ASSUME TypeOK, NEW st \in Stores, marks' = [marks EXCEPT ![st] = Swept(st)], NEW q \in Pods, NEW s \in Sets
  PROVE  marks'[StoreOf[q]][s] = marks[StoreOf[q]][s] \/ marks[StoreOf[q]][s] <= now
<1>1. CASE StoreOf[q] = st
  <2>1. marks'[StoreOf[q]] = Swept(st)
    BY <1>1 DEF TypeOK
  <2> QED
    BY <1>1, <2>1 DEF Swept
<1>2. CASE StoreOf[q] # st
  BY <1>2, ShapeAssumption DEF TypeOK
<1> QED
  BY <1>1, <1>2

(* So what Known says of a mark outlasts it. *)
LEMMA KnownAfterSweep ==
  ASSUME TypeOK, Known, NEW st \in Stores, marks' = [marks EXCEPT ![st] = Swept(st)], UNCHANGED <<now, iat, dispatched>>,
         \A s \in Sets : (\E w \in Workers : job'[w] = s /\ pc'[w] = "dispatch") =>
                            \E w \in Workers : job[w] = s /\ pc[w] = "dispatch"
  PROVE  Known'
<1> SUFFICES ASSUME NEW s \in Sets, NEW q \in Pods,
                    dispatched'[s] > 0 \/ \E w \in Workers : job'[w] = s /\ pc'[w] = "dispatch"
             PROVE  marks'[StoreOf[q]][s] > Deadline(s) \/ now > Deadline(s)
  BY DEF Known, Deadline
<1>1. marks[StoreOf[q]][s] > Deadline(s) \/ now > Deadline(s)
  BY DEF Known
<1>2. marks[StoreOf[q]][s] \in Nat /\ now \in Nat /\ Deadline(s) \in Nat
  <2>1. iat[s] \in Nat
    BY NatConstants DEF TypeOK
  <2> QED
    BY <2>1, NatConstants, ShapeAssumption DEF Deadline, TypeOK
<1>3. marks'[StoreOf[q]][s] = marks[StoreOf[q]][s] \/ marks[StoreOf[q]][s] <= now
  BY SweepKeeps
<1> QED
  BY <1>1, <1>2, <1>3

Rest == Waiting /\ NotFuture /\ Known /\ Alone /\ FirstTime /\ OnceUnlessOverlap

LEMMA NextIInv ==
    ASSUME OneStore, Durable, WindowCovered, IInv, [Next]_vars
    PROVE  IInv'
<1>0. TypeOK'
  BY NextTypeOK DEF IInv
<1> USE ShapeAssumption, NatConstants DEF IInv
<1>1. ASSUME NEW p \in Pods, NEW s \in Sets, ReceiveSet(p, s) PROVE Rest'
  <2>1. Waiting'
    BY <1>1, <1>0 DEF Waiting, ReceiveSet, threads, TypeOK, Steps
  <2>2. NotFuture'
    BY <1>1, <1>0 DEF NotFuture, ReceiveSet, threads, TypeOK, Steps
  <2>3. Known'
    BY <1>1, <1>0 DEF Known, Deadline, ReceiveSet, threads, TypeOK, Steps
  <2>4. Alone'
    BY <1>1, <1>0 DEF Alone, Past, ReceiveSet, threads, TypeOK, Steps
  <2>5. FirstTime'
    BY <1>1, <1>0 DEF FirstTime, Past, ReceiveSet, threads, TypeOK, Steps
  <2>6. OnceUnlessOverlap'
    BY <1>1, <1>0 DEF OnceUnlessOverlap, ReceiveSet, threads, TypeOK, Steps
  <2> QED
    BY <2>1, <2>2, <2>3, <2>4, <2>5, <2>6 DEF Rest
<1>2. ASSUME NEW w \in Workers, NEW s \in Sets, StartTask(w, s) PROVE Rest'
  <2>1. Waiting'
    BY <1>2, <1>0 DEF Waiting, StartTask, Goto, TypeOK, Steps
  <2>2. NotFuture'
    BY <1>2, <1>0 DEF NotFuture, StartTask, Goto, TypeOK, Steps
  <2>3. Known'
    BY <1>2, <1>0 DEF Known, Deadline, StartTask, Goto, TypeOK, Steps
  <2>4. Alone'
    BY <1>2, <1>0 DEF Alone, Past, StartTask, Goto, TypeOK, Steps
  <2>5. FirstTime'
    BY <1>2, <1>0 DEF FirstTime, Past, StartTask, Goto, TypeOK, Steps
  <2>6. OnceUnlessOverlap'
    BY <1>2, <1>0 DEF OnceUnlessOverlap, StartTask, Goto, TypeOK, Steps
  <2> QED
    BY <2>1, <2>2, <2>3, <2>4, <2>5, <2>6 DEF Rest
<1>3. ASSUME NEW w \in Workers, VerifySet(w) PROVE Rest'
  <2>1. Waiting'
    BY <1>3, <1>0 DEF Waiting, VerifySet, Goto, Fresh, TypeOK, Steps
  <2>2. NotFuture'
    BY <1>3, <1>0 DEF NotFuture, VerifySet, Goto, Fresh, TypeOK, Steps
  <2>3. Known'
    BY <1>3, <1>0 DEF Known, Deadline, VerifySet, Goto, Fresh, TypeOK, Steps
  <2>4. Alone'
    BY <1>3, <1>0 DEF Alone, Past, VerifySet, Goto, Fresh, TypeOK, Steps
  <2>5. FirstTime'
    BY <1>3, <1>0 DEF FirstTime, Past, VerifySet, Goto, Fresh, TypeOK, Steps
  <2>6. OnceUnlessOverlap'
    BY <1>3, <1>0 DEF OnceUnlessOverlap, VerifySet, Goto, Fresh, TypeOK, Steps
  <2> QED
    BY <2>1, <2>2, <2>3, <2>4, <2>5, <2>6 DEF Rest
<1>4. ASSUME NEW w \in Workers, RejectSet(w) PROVE Rest'
  <2>1. Waiting'
    BY <1>4, <1>0 DEF Waiting, RejectSet, Goto, Finish, TypeOK, Steps
  <2>2. NotFuture'
    BY <1>4, <1>0 DEF NotFuture, RejectSet, Goto, Finish, TypeOK, Steps
  <2>3. Known'
    BY <1>4, <1>0 DEF Known, Deadline, RejectSet, Goto, Finish, TypeOK, Steps
  <2>4. Alone'
    BY <1>4, <1>0 DEF Alone, Past, RejectSet, Goto, Finish, TypeOK, Steps
  <2>5. FirstTime'
    BY <1>4, <1>0 DEF FirstTime, Past, RejectSet, Goto, Finish, TypeOK, Steps
  <2>6. OnceUnlessOverlap'
    BY <1>4, <1>0 DEF OnceUnlessOverlap, RejectSet, Goto, Finish, TypeOK, Steps
  <2> QED
    BY <2>1, <2>2, <2>3, <2>4, <2>5, <2>6 DEF Rest
<1>5. ASSUME NEW w \in Workers, Admit(w) PROVE Rest'
  <2>1. Waiting'
    BY <1>5, <1>0 DEF Waiting, Admit, Goto, Swept, MyStore, TypeOK, Steps
  <2>2. NotFuture'
    <3>1. iat[job[w]] <= now + Skew
      BY <1>5 DEF Admit, Waiting, TypeOK
    <3>2. /\ pc' = [pc EXCEPT ![w] = "mark"]
          /\ UNCHANGED <<now, iat, job>>
      BY <1>5 DEF Admit, Goto
    <3> QED
      BY <3>1, <3>2 DEF NotFuture, TypeOK
  <2>3. Known'
    <3>1. MyStore(w) \in Stores /\ marks' = [marks EXCEPT ![MyStore(w)] = Swept(MyStore(w))] /\ UNCHANGED <<now, iat, dispatched>>
      BY <1>5 DEF Admit, MyStore
    <3>2. \A v \in Workers : pc'[v] = "dispatch" => pc[v] = "dispatch" /\ job'[v] = job[v]
      BY <1>5 DEF Admit, Goto, TypeOK
    <3> QED
      BY <3>1, <3>2, KnownAfterSweep
  <2>4. Alone'
    <3>1. \A v \in Workers : job[v] = job[w] => pc[v] # "dispatch"
      BY <1>5, AdmittedIsNew
    <3>2. /\ pc' = [pc EXCEPT ![w] = "mark"]
          /\ overlap \subseteq overlap'
          /\ \A v \in Workers \ {w} : job[v] = job[w] /\ pc[v] = "mark" => job[w] \in overlap'
          /\ UNCHANGED job
      BY <1>5 DEF Admit, Goto
    <3>3. ASSUME NEW u \in Workers, NEW v \in Workers, u # v, job[u] = job[v], Past(u)', Past(v)'
          PROVE  job[v] \in overlap'
      <4>1. CASE u = w
        BY <3>1, <3>2, <3>3, <4>1 DEF Past, TypeOK
      <4>2. CASE v = w
        BY <3>1, <3>2, <3>3, <4>2 DEF Past, TypeOK
      <4>3. CASE u # w /\ v # w
        BY <3>2, <3>3, <4>3 DEF Past, TypeOK, Alone
      <4> QED
        BY <4>1, <4>2, <4>3
    <3> QED
      BY <3>2, <3>3 DEF Alone
  <2>5. FirstTime'
    <3>1. dispatched[job[w]] = 0
      BY <1>5, AdmittedIsNew
    <3>2. /\ pc' = [pc EXCEPT ![w] = "mark"]
          /\ overlap \subseteq overlap'
          /\ UNCHANGED <<job, dispatched>>
      BY <1>5 DEF Admit, Goto
    <3> QED
      BY <3>1, <3>2 DEF FirstTime, Past, TypeOK
  <2>6. OnceUnlessOverlap'
    BY <1>5, <1>0 DEF OnceUnlessOverlap, Admit, Goto, Swept, MyStore, TypeOK, Steps
  <2> QED
    BY <2>1, <2>2, <2>3, <2>4, <2>5, <2>6 DEF Rest
<1>6. ASSUME NEW w \in Workers, DropReplay(w) PROVE Rest'
  <2>1. Waiting'
    BY <1>6, <1>0 DEF Waiting, DropReplay, Goto, Finish, Swept, MyStore, TypeOK, Steps
  <2>2. NotFuture'
    BY <1>6, <1>0 DEF NotFuture, DropReplay, Goto, Finish, Swept, MyStore, TypeOK, Steps
  <2>3. Known'
    <3>1. MyStore(w) \in Stores /\ marks' = [marks EXCEPT ![MyStore(w)] = Swept(MyStore(w))] /\ UNCHANGED <<now, iat, dispatched>>
      BY <1>6 DEF DropReplay, MyStore
    <3>2. \A v \in Workers : pc'[v] = "dispatch" => pc[v] = "dispatch" /\ job'[v] = job[v]
      BY <1>6 DEF DropReplay, Goto, Finish, TypeOK
    <3> QED
      BY <3>1, <3>2, KnownAfterSweep
  <2>4. Alone'
    BY <1>6, <1>0 DEF Alone, Past, DropReplay, Goto, Finish, Swept, MyStore, TypeOK, Steps
  <2>5. FirstTime'
    BY <1>6, <1>0 DEF FirstTime, Past, DropReplay, Goto, Finish, Swept, MyStore, TypeOK, Steps
  <2>6. OnceUnlessOverlap'
    BY <1>6, <1>0 DEF OnceUnlessOverlap, DropReplay, Goto, Finish, Swept, MyStore, TypeOK, Steps
  <2> QED
    BY <2>1, <2>2, <2>3, <2>4, <2>5, <2>6 DEF Rest
<1>7. ASSUME NEW w \in Workers, Mark(w) PROVE Rest'
  <2>1. Waiting'
    BY <1>7, <1>0 DEF Waiting, Mark, Goto, MyStore, Expiry, TypeOK, Steps
  <2>2. NotFuture'
    BY <1>7, <1>0 DEF NotFuture, Mark, Goto, MyStore, Expiry, TypeOK, Steps
  <2>3. Known'
    <3>1. ASSUME NEW s \in Sets, NEW q \in Pods, s = job[w],
                 marks' = [marks EXCEPT ![MyStore(w)][job[w]] = Expiry]
          PROVE  marks'[StoreOf[q]][s] > Deadline(s)
      <4>1. marks'[StoreOf[q]][s] = now + ReplayTtl
        BY <3>1, OneStore DEF MyStore, Expiry, TypeOK, OneStore
      <4>2. iat[s] <= now + Skew
        BY <1>7, <3>1 DEF NotFuture, Mark
      <4>3. iat[s] \in Nat /\ now \in Nat
        BY DEF TypeOK
      <4> QED
        BY <4>1, <4>2, <4>3, WindowCovered DEF WindowCovered, Deadline
    <3>2. /\ marks' = [marks EXCEPT ![MyStore(w)][job[w]] = Expiry]
          /\ pc' = [pc EXCEPT ![w] = "dispatch"]
          /\ job[w] \in Sets
          /\ UNCHANGED <<now, iat, job, dispatched>>
      BY <1>7 DEF Mark, Goto, TypeOK
    <3>3. ASSUME NEW s \in Sets, NEW q \in Pods, s # job[w],
                 dispatched'[s] > 0 \/ \E v \in Workers : job'[v] = s /\ pc'[v] = "dispatch"
          PROVE  marks'[StoreOf[q]][s] > Deadline(s) \/ now > Deadline(s)
      <4>1. dispatched[s] > 0 \/ \E v \in Workers : job[v] = s /\ pc[v] = "dispatch"
        BY <3>2, <3>3 DEF TypeOK
      <4>2. marks'[StoreOf[q]][s] = marks[StoreOf[q]][s]
        BY <3>2, <3>3 DEF TypeOK
      <4> QED
        BY <4>1, <4>2 DEF Known
    <3>4. Deadline(job[w])' = Deadline(job[w])
      BY <3>2 DEF Deadline
    <3> QED
      BY <3>1, <3>2, <3>3 DEF Known, Deadline
  <2>4. Alone'
    BY <1>7, <1>0 DEF Alone, Past, Mark, Goto, MyStore, Expiry, TypeOK, Steps
  <2>5. FirstTime'
    BY <1>7, <1>0 DEF FirstTime, Past, Mark, Goto, MyStore, Expiry, TypeOK, Steps
  <2>6. OnceUnlessOverlap'
    BY <1>7, <1>0 DEF OnceUnlessOverlap, Mark, Goto, MyStore, Expiry, TypeOK, Steps
  <2> QED
    BY <2>1, <2>2, <2>3, <2>4, <2>5, <2>6 DEF Rest
<1>8. ASSUME NEW w \in Workers, Dispatch(w) PROVE Rest'
  <2>1. Waiting'
    BY <1>8, <1>0 DEF Waiting, Dispatch, Goto, Finish, TypeOK, Steps
  <2>2. NotFuture'
    BY <1>8, <1>0 DEF NotFuture, Dispatch, Goto, Finish, TypeOK, Steps
  <2>3. Known'
    BY <1>8, <1>0 DEF Known, Deadline, Dispatch, Goto, Finish, TypeOK, Steps
  <2>4. Alone'
    BY <1>8, <1>0 DEF Alone, Past, Dispatch, Goto, Finish, TypeOK, Steps
  <2>5. FirstTime'
    <3>1. /\ dispatched' = [dispatched EXCEPT ![job[w]] = @ + 1]
          /\ pc' = [pc EXCEPT ![w] = "idle"]
          /\ job' = [job EXCEPT ![w] = NoSet]
          /\ Past(w)
          /\ UNCHANGED overlap
      BY <1>8 DEF Dispatch, Goto, Finish, Past
    <3>2. ASSUME NEW v \in Workers, Past(v)', dispatched'[job'[v]] > 0
          PROVE  job'[v] \in overlap
      <4>1. v # w /\ Past(v) /\ job'[v] = job[v] /\ job[v] \in Sets
        BY <3>1, <3>2 DEF Past, TypeOK
      <4>2. CASE job[v] = job[w]
        BY <3>1, <4>1, <4>2 DEF Alone
      <4>3. CASE job[v] # job[w]
        BY <3>1, <3>2, <4>1, <4>3 DEF FirstTime, TypeOK
      <4> QED
        BY <4>2, <4>3
    <3> QED
      BY <3>1, <3>2 DEF FirstTime
  <2>6. OnceUnlessOverlap'
    <3>1. /\ dispatched' = [dispatched EXCEPT ![job[w]] = @ + 1]
          /\ Past(w) /\ job[w] \in Sets
          /\ UNCHANGED overlap
      BY <1>8 DEF Dispatch, Past, TypeOK
    <3>2. dispatched[job[w]] \in Nat /\ (job[w] \notin overlap => dispatched[job[w]] = 0)
      BY <3>1 DEF FirstTime, TypeOK
    <3> QED
      BY <3>1, <3>2 DEF OnceUnlessOverlap, TypeOK
  <2> QED
    BY <2>1, <2>2, <2>3, <2>4, <2>5, <2>6 DEF Rest
<1>9. ASSUME NEW w \in Workers, StoreFails(w) PROVE Rest'
  <2>1. Waiting'
    BY <1>9, <1>0 DEF Waiting, StoreFails, Goto, Finish, MyStore, Expiry, TypeOK, Steps
  <2>2. NotFuture'
    BY <1>9, <1>0 DEF NotFuture, StoreFails, Goto, Finish, MyStore, Expiry, TypeOK, Steps
  <2>3. Known'
    <3>1. ASSUME NEW s \in Sets, NEW q \in Pods, s = job[w], pc[w] = "mark",
                 marks' = [marks EXCEPT ![MyStore(w)][job[w]] = Expiry]
          PROVE  marks'[StoreOf[q]][s] > Deadline(s)
      <4>1. marks'[StoreOf[q]][s] = now + ReplayTtl
        BY <3>1, OneStore DEF MyStore, Expiry, TypeOK, OneStore
      <4>2. iat[s] <= now + Skew
        BY <3>1 DEF NotFuture
      <4>3. iat[s] \in Nat /\ now \in Nat
        BY DEF TypeOK
      <4> QED
        BY <4>1, <4>2, <4>3, WindowCovered DEF WindowCovered, Deadline
    <3>2. /\ pc' = [pc EXCEPT ![w] = "idle"]
          /\ job' = [job EXCEPT ![w] = NoSet]
          /\ UNCHANGED <<now, iat, dispatched>>
      BY <1>9 DEF StoreFails, Goto, Finish
    <3>3. CASE UNCHANGED marks
      BY <3>2, <3>3 DEF Known, Deadline, TypeOK
    <3>4. CASE pc[w] = "mark" /\ marks' = [marks EXCEPT ![MyStore(w)][job[w]] = Expiry]
      BY <3>1, <3>2, <3>4 DEF Known, Deadline, TypeOK
    <3> QED
      BY <1>9, <3>3, <3>4 DEF StoreFails
  <2>4. Alone'
    BY <1>9, <1>0 DEF Alone, Past, StoreFails, Goto, Finish, MyStore, Expiry, TypeOK, Steps
  <2>5. FirstTime'
    BY <1>9, <1>0 DEF FirstTime, Past, StoreFails, Goto, Finish, MyStore, Expiry, TypeOK, Steps
  <2>6. OnceUnlessOverlap'
    BY <1>9, <1>0 DEF OnceUnlessOverlap, StoreFails, Goto, Finish, MyStore, Expiry, TypeOK, Steps
  <2> QED
    BY <2>1, <2>2, <2>3, <2>4, <2>5, <2>6 DEF Rest
<1>10. ASSUME NEW p \in Pods, Crash(p) PROVE Rest'
  <2>1. Waiting'
    BY <1>10, <1>0 DEF Waiting, Crash, TypeOK, Steps
  <2>2. NotFuture'
    BY <1>10, <1>0 DEF NotFuture, Crash, TypeOK, Steps
  <2>3. Known'
    <3>1. \A q \in Pods : marks'[StoreOf[q]] = marks[StoreOf[q]]
      BY <1>10, Durable DEF Crash, Durable, TypeOK
    <3> QED
      BY <1>10, <3>1 DEF Crash, Known, Deadline, TypeOK
  <2>4. Alone'
    BY <1>10, <1>0 DEF Alone, Past, Crash, TypeOK, Steps
  <2>5. FirstTime'
    BY <1>10, <1>0 DEF FirstTime, Past, Crash, TypeOK, Steps
  <2>6. OnceUnlessOverlap'
    BY <1>10, <1>0 DEF OnceUnlessOverlap, Crash, TypeOK, Steps
  <2> QED
    BY <2>1, <2>2, <2>3, <2>4, <2>5, <2>6 DEF Rest
<1>11. ASSUME Tick PROVE Rest'
  <2>1. Waiting'
    BY <1>11, <1>0 DEF Waiting, Tick, threads, TypeOK, Steps
  <2>2. NotFuture'
    BY <1>11, <1>0 DEF NotFuture, Tick, threads, TypeOK, Steps
  <2>3. Known'
    BY <1>11, <1>0 DEF Known, Deadline, Tick, threads, TypeOK, Steps
  <2>4. Alone'
    BY <1>11, <1>0 DEF Alone, Past, Tick, threads, TypeOK, Steps
  <2>5. FirstTime'
    BY <1>11, <1>0 DEF FirstTime, Past, Tick, threads, TypeOK, Steps
  <2>6. OnceUnlessOverlap'
    BY <1>11, <1>0 DEF OnceUnlessOverlap, Tick, threads, TypeOK, Steps
  <2> QED
    BY <2>1, <2>2, <2>3, <2>4, <2>5, <2>6 DEF Rest
<1>12. ASSUME UNCHANGED vars PROVE Rest'
  <2>1. Waiting'
    BY <1>12, <1>0 DEF Waiting, vars, TypeOK, Steps
  <2>2. NotFuture'
    BY <1>12, <1>0 DEF NotFuture, vars, TypeOK, Steps
  <2>3. Known'
    BY <1>12, <1>0 DEF Known, Deadline, vars, TypeOK, Steps
  <2>4. Alone'
    BY <1>12, <1>0 DEF Alone, Past, vars, TypeOK, Steps
  <2>5. FirstTime'
    BY <1>12, <1>0 DEF FirstTime, Past, vars, TypeOK, Steps
  <2>6. OnceUnlessOverlap'
    BY <1>12, <1>0 DEF OnceUnlessOverlap, vars, TypeOK, Steps
  <2> QED
    BY <2>1, <2>2, <2>3, <2>4, <2>5, <2>6 DEF Rest
<1>13. ASSUME NEW w \in Workers, Hang(w) PROVE Rest'
  <2>1. Waiting'
    BY <1>13, <1>0 DEF Waiting, Hang, Goto, MyStore, Expiry, TypeOK, Steps
  <2>2. NotFuture'
    BY <1>13, <1>0 DEF NotFuture, Hang, Goto, MyStore, Expiry, TypeOK, Steps
  <2>3. Known'
    <3>1. ASSUME NEW s \in Sets, NEW q \in Pods, s = job[w], pc[w] = "mark",
                 marks' = [marks EXCEPT ![MyStore(w)][job[w]] = Expiry]
          PROVE  marks'[StoreOf[q]][s] > Deadline(s)
      <4>1. marks'[StoreOf[q]][s] = now + ReplayTtl
        BY <3>1, OneStore DEF MyStore, Expiry, TypeOK, OneStore
      <4>2. iat[s] <= now + Skew
        BY <3>1 DEF NotFuture
      <4>3. iat[s] \in Nat /\ now \in Nat
        BY DEF TypeOK
      <4> QED
        BY <4>1, <4>2, <4>3, WindowCovered DEF WindowCovered, Deadline
    <3>2. /\ pc' = [pc EXCEPT ![w] = "hung"]
          /\ UNCHANGED <<now, iat, job, dispatched>>
      BY <1>13 DEF Hang, Goto
    <3>3. CASE UNCHANGED marks
      BY <3>2, <3>3 DEF Known, Deadline, TypeOK
    <3>4. CASE pc[w] = "mark" /\ marks' = [marks EXCEPT ![MyStore(w)][job[w]] = Expiry]
      BY <3>1, <3>2, <3>4 DEF Known, Deadline, TypeOK
    <3> QED
      BY <1>13, <3>3, <3>4 DEF Hang
  <2>4. Alone'
    BY <1>13, <1>0 DEF Alone, Past, Hang, Goto, MyStore, Expiry, TypeOK, Steps
  <2>5. FirstTime'
    BY <1>13, <1>0 DEF FirstTime, Past, Hang, Goto, MyStore, Expiry, TypeOK, Steps
  <2>6. OnceUnlessOverlap'
    BY <1>13, <1>0 DEF OnceUnlessOverlap, Hang, Goto, MyStore, Expiry, TypeOK, Steps
  <2> QED
    BY <2>1, <2>2, <2>3, <2>4, <2>5, <2>6 DEF Rest
<1>14. ASSUME NEW w \in Workers, HangInHandler(w) PROVE Rest'
  <2>1. Waiting'
    BY <1>14, <1>0 DEF Waiting, HangInHandler, Goto, TypeOK, Steps
  <2>2. NotFuture'
    BY <1>14, <1>0 DEF NotFuture, HangInHandler, Goto, TypeOK, Steps
  <2>3. Known'
    BY <1>14, <1>0 DEF Known, Deadline, HangInHandler, Goto, TypeOK, Steps
  <2>4. Alone'
    BY <1>14, <1>0 DEF Alone, Past, HangInHandler, Goto, TypeOK, Steps
  <2>5. FirstTime'
    <3>1. /\ dispatched' = [dispatched EXCEPT ![job[w]] = @ + 1]
          /\ pc' = [pc EXCEPT ![w] = "hung"]
          /\ Past(w)
          /\ UNCHANGED <<job, overlap>>
      BY <1>14 DEF HangInHandler, Goto, Past
    <3>2. ASSUME NEW v \in Workers, Past(v)', dispatched'[job'[v]] > 0
          PROVE  job'[v] \in overlap
      <4>1. v # w /\ Past(v) /\ job'[v] = job[v] /\ job[v] \in Sets
        BY <3>1, <3>2 DEF Past, TypeOK
      <4>2. CASE job[v] = job[w]
        BY <3>1, <4>1, <4>2 DEF Alone
      <4>3. CASE job[v] # job[w]
        BY <3>1, <3>2, <4>1, <4>3 DEF FirstTime, TypeOK
      <4> QED
        BY <4>2, <4>3
    <3> QED
      BY <3>1, <3>2 DEF FirstTime
  <2>6. OnceUnlessOverlap'
    <3>1. /\ dispatched' = [dispatched EXCEPT ![job[w]] = @ + 1]
          /\ Past(w) /\ job[w] \in Sets
          /\ UNCHANGED overlap
      BY <1>14 DEF HangInHandler, Past, TypeOK
    <3>2. dispatched[job[w]] \in Nat /\ (job[w] \notin overlap => dispatched[job[w]] = 0)
      BY <3>1 DEF FirstTime, TypeOK
    <3> QED
      BY <3>1, <3>2 DEF OnceUnlessOverlap, TypeOK
  <2> QED
    BY <2>1, <2>2, <2>3, <2>4, <2>5, <2>6 DEF Rest
<1>15. ASSUME NEW w \in Workers, HangEnds(w) PROVE Rest'
  <2>1. Waiting'
    BY <1>15, <1>0 DEF Waiting, HangEnds, Goto, Finish, TypeOK, Steps
  <2>2. NotFuture'
    BY <1>15, <1>0 DEF NotFuture, HangEnds, Goto, Finish, TypeOK, Steps
  <2>3. Known'
    BY <1>15, <1>0 DEF Known, Deadline, HangEnds, Goto, Finish, TypeOK, Steps
  <2>4. Alone'
    BY <1>15, <1>0 DEF Alone, Past, HangEnds, Goto, Finish, TypeOK, Steps
  <2>5. FirstTime'
    BY <1>15, <1>0 DEF FirstTime, Past, HangEnds, Goto, Finish, TypeOK, Steps
  <2>6. OnceUnlessOverlap'
    BY <1>15, <1>0 DEF OnceUnlessOverlap, HangEnds, Goto, Finish, TypeOK, Steps
  <2> QED
    BY <2>1, <2>2, <2>3, <2>4, <2>5, <2>6 DEF Rest
<1> QED
  BY <1>0, <1>1, <1>2, <1>3, <1>4, <1>5, <1>6, <1>7, <1>8, <1>9, <1>10, <1>11, <1>12, <1>13,
     <1>14, <1>15 DEF Next, Task, Rest

LEMMA IInvStable ==
    ASSUME OneStore, Durable, WindowCovered
    PROVE  Spec => []IInv
<1>1. Init => IInv
  BY InitIInv
<1>2. IInv /\ [Next]_vars => IInv'
  BY NextIInv
<1> QED
  BY <1>1, <1>2, PTL DEF Spec

(* With one durable store whose marks outlive MaxAge + Skew + MaxStall, a  *)
(* jti that no two threads looked up at once is dispatched at most once,   *)
(* whatever is retried, delayed, failing or crashing: what                 *)
(* check_and_mark's two calls do guarantee.                                *)
THEOREM OnceUnlessOverlapHolds ==
    ASSUME OneStore, Durable, WindowCovered
    PROVE  Spec => []OnceUnlessOverlap
<1>1. IInv => OnceUnlessOverlap
  BY DEF IInv
<1> QED
  BY <1>1, IInvStable, PTL

(* Under the same assumptions a SET that was dispatched and is still fresh *)
(* is known to the store of every pod: the purpose of the rule on the      *)
(* replay TTL in the settings, with the slack that rule leaves out.        *)
THEOREM ProcessedStaysMarkedHolds ==
    ASSUME OneStore, Durable, WindowCovered
    PROVE  Spec => []ProcessedStaysMarked
<1>1. IInv => ProcessedStaysMarked
  <2> SUFFICES ASSUME IInv, NEW s \in Sets, NEW p \in Pods, dispatched[s] > 0, Fresh(s)
               PROVE  Marked(StoreOf[p], s)
    BY DEF ProcessedStaysMarked
  <2>1. marks[StoreOf[p]][s] > Deadline(s) \/ now > Deadline(s)
    BY DEF IInv, Known
  <2>2. now - iat[s] <= MaxAge
    BY DEF Fresh
  <2>3. iat[s] \in Nat /\ now \in Nat /\ marks[StoreOf[p]][s] \in Nat
    BY NatConstants, ShapeAssumption DEF IInv, TypeOK
  <2> QED
    BY <2>1, <2>2, <2>3, NatConstants DEF Deadline, Marked
<1> QED
  BY <1>1, IInvStable, PTL

-----------------------------------------------------------------------------
(* Where a mark comes from: a thread that went on to dispatch, unless a    *)
(* fault kept it from doing so.                                            *)
Explained(s) ==
    \/ dispatched[s] > 0
    \/ \E w \in Workers : job[w] = s /\ pc[w] = "dispatch"
    \/ s \in orphaned

MarkExplained == \A st \in Stores, s \in Sets : marks[st][s] > 0 => Explained(s)

(* Whatever fails and crashes, and whatever the deployment, the guard      *)
(* drops a SET as a replay only when it was dispatched, is about to be, or *)
(* lost its task to a fault after it was marked.                           *)
THEOREM ReplayDropIsHonestHolds == Spec => ReplayDropIsHonest
<1> USE ShapeAssumption, NatConstants
<1>1. Init => MarkExplained
  BY DEF Init, MarkExplained
<1>2. TypeOK /\ MarkExplained /\ [Next]_vars => MarkExplained'
  <2> SUFFICES ASSUME TypeOK, MarkExplained, [Next]_vars PROVE MarkExplained'
    OBVIOUS
  <2>1. CASE UNCHANGED <<marks, dispatched, job, pc, orphaned>>
    BY <2>1 DEF MarkExplained, Explained
  <2>2. ASSUME NEW w \in Workers, UNCHANGED <<dispatched, orphaned>>, pc[w] # "dispatch",
               \A st \in Stores, s \in Sets : marks'[st][s] > 0 => marks[st][s] > 0,
               \A v \in Workers \ {w} : pc'[v] = pc[v] /\ job'[v] = job[v]
        PROVE  MarkExplained'
    BY <2>2 DEF MarkExplained, Explained
  <2>3. ASSUME NEW w \in Workers, Admit(w) \/ DropReplay(w) PROVE MarkExplained'
    <3>1. \A st \in Stores, s \in Sets : marks'[st][s] > 0 => marks[st][s] > 0
      <4>1. /\ MyStore(w) \in Stores
            /\ marks' = [marks EXCEPT ![MyStore(w)] = Swept(MyStore(w))]
        BY <2>3 DEF Admit, DropReplay, MyStore
      <4>2. \A s \in Sets : Swept(MyStore(w))[s] > 0 => marks[MyStore(w)][s] > 0
        BY DEF Swept
      <4> QED
        BY <4>1, <4>2 DEF TypeOK
    <3>2. /\ pc[w] # "dispatch"
          /\ \A v \in Workers \ {w} : pc'[v] = pc[v] /\ job'[v] = job[v]
          /\ UNCHANGED <<dispatched, orphaned>>
      BY <2>3 DEF Admit, DropReplay, Goto, Finish, TypeOK
    <3> QED
      BY <2>2, <3>1, <3>2
  <2>4. ASSUME NEW w \in Workers, Mark(w) PROVE MarkExplained'
    <3>1. /\ job'[w] = job[w] /\ pc'[w] = "dispatch"
          /\ \A v \in Workers \ {w} : pc'[v] = pc[v] /\ job'[v] = job[v]
          /\ \A st \in Stores, s \in Sets : s # job[w] => marks'[st][s] = marks[st][s]
          /\ UNCHANGED <<dispatched, orphaned>>
      BY <2>4 DEF Mark, Goto, TypeOK
    <3> QED
      BY <3>1 DEF MarkExplained, Explained
  <2>5. ASSUME NEW w \in Workers, Dispatch(w) PROVE MarkExplained'
    <3>1. /\ job[w] \in Sets
          /\ dispatched' = [dispatched EXCEPT ![job[w]] = @ + 1]
          /\ \A v \in Workers \ {w} : pc'[v] = pc[v] /\ job'[v] = job[v]
          /\ UNCHANGED <<marks, orphaned>>
      BY <2>5 DEF Dispatch, Goto, Finish, TypeOK
    <3>2. /\ dispatched'[job[w]] > 0
          /\ \A s \in Sets : dispatched[s] > 0 => dispatched'[s] > 0
      BY <3>1 DEF TypeOK
    <3> QED
      BY <3>1, <3>2 DEF MarkExplained, Explained
  <2>6. ASSUME NEW w \in Workers, StoreFails(w) PROVE MarkExplained'
    <3>1. /\ pc[w] # "dispatch" /\ UNCHANGED dispatched
          /\ \A v \in Workers \ {w} : pc'[v] = pc[v] /\ job'[v] = job[v]
      BY <2>6 DEF StoreFails, Goto, Finish, TypeOK
    <3>2. CASE UNCHANGED <<marks, orphaned>>
      BY <2>2, <3>1, <3>2
    <3>3. CASE /\ marks' = [marks EXCEPT ![MyStore(w)][job[w]] = Expiry]
               /\ orphaned' = orphaned \cup {job[w]}
      <4>1. \A st \in Stores, s \in Sets : s # job[w] => marks'[st][s] = marks[st][s]
        BY <3>3 DEF TypeOK
      <4> QED
        BY <3>1, <3>3, <4>1 DEF MarkExplained, Explained
    <3> QED
      BY <2>6, <3>2, <3>3 DEF StoreFails
  <2>7. ASSUME NEW p \in Pods, Crash(p) PROVE MarkExplained'
    <3>1. \A st \in Stores, s \in Sets : marks'[st][s] > 0 => marks[st][s] > 0
      BY <2>7 DEF Crash, TypeOK
    <3>2. \A v \in Workers : \/ pc'[v] = pc[v] /\ job'[v] = job[v]
                             \/ pc[v] = "dispatch" => job[v] \in orphaned'
      <4> SUFFICES ASSUME NEW v \in Workers
                   PROVE  \/ pc'[v] = pc[v] /\ job'[v] = job[v]
                          \/ pc[v] = "dispatch" => job[v] \in orphaned'
        OBVIOUS
      <4>1. CASE PodOf[v] # p
        BY <2>7, <4>1 DEF Crash
      <4>2. CASE PodOf[v] = p /\ pc[v] = "dispatch"
        <5>1. v \in {u \in {w \in Workers : PodOf[w] = p} : pc[u] = "dispatch"}
          BY <4>2
        <5>2. orphaned' = orphaned \cup {job[w] : w \in {u \in {w \in Workers : PodOf[w] = p} :
                                                         pc[u] = "dispatch"}}
          BY <2>7 DEF Crash
        <5> QED
          BY <5>1, <5>2
      <4> QED
        BY <4>1, <4>2
    <3>3. UNCHANGED dispatched /\ orphaned \subseteq orphaned'
      BY <2>7 DEF Crash
    <3> QED
      BY <3>1, <3>2, <3>3 DEF MarkExplained, Explained
  <2>8. ASSUME NEW p \in Pods, NEW s \in Sets, ReceiveSet(p, s) PROVE MarkExplained'
    BY <2>1, <2>8 DEF ReceiveSet, threads
  <2>9. ASSUME NEW w \in Workers, (\E s \in Sets : StartTask(w, s)) \/ VerifySet(w) \/ RejectSet(w)
                              \/ HangEnds(w)
        PROVE  MarkExplained'
    BY <2>2, <2>9 DEF StartTask, VerifySet, RejectSet, HangEnds, Goto, Finish, TypeOK
  <2>10. CASE Tick \/ UNCHANGED vars
    BY <2>1, <2>10 DEF Tick, vars, threads
  <2>11. ASSUME NEW w \in Workers, Hang(w) PROVE MarkExplained'
    <3>1. /\ pc[w] # "dispatch" /\ UNCHANGED dispatched
          /\ \A v \in Workers \ {w} : pc'[v] = pc[v] /\ job'[v] = job[v]
      BY <2>11 DEF Hang, Goto, TypeOK
    <3>2. CASE UNCHANGED <<marks, orphaned>>
      BY <2>2, <3>1, <3>2
    <3>3. CASE /\ marks' = [marks EXCEPT ![MyStore(w)][job[w]] = Expiry]
               /\ orphaned' = orphaned \cup {job[w]}
      <4>1. \A st \in Stores, s \in Sets : s # job[w] => marks'[st][s] = marks[st][s]
        BY <3>3 DEF TypeOK
      <4> QED
        BY <3>1, <3>3, <4>1 DEF MarkExplained, Explained
    <3> QED
      BY <2>11, <3>2, <3>3 DEF Hang
  <2>12. ASSUME NEW w \in Workers, HangInHandler(w) PROVE MarkExplained'
    <3>1. /\ job[w] \in Sets
          /\ dispatched' = [dispatched EXCEPT ![job[w]] = @ + 1]
          /\ \A v \in Workers \ {w} : pc'[v] = pc[v] /\ job'[v] = job[v]
          /\ UNCHANGED <<marks, orphaned>>
      BY <2>12 DEF HangInHandler, Goto, TypeOK
    <3>2. /\ dispatched'[job[w]] > 0
          /\ \A s \in Sets : dispatched[s] > 0 => dispatched'[s] > 0
      BY <3>1 DEF TypeOK
    <3> QED
      BY <3>1, <3>2 DEF MarkExplained, Explained
  <2> QED
    BY <2>3, <2>4, <2>5, <2>6, <2>7, <2>8, <2>9, <2>10, <2>11, <2>12 DEF Next, Task
<1>3. TypeOK /\ MarkExplained =>
        \A w \in Workers : DropReplay(w) =>
            \/ dispatched[job[w]] > 0
            \/ \E v \in Workers : job[v] = job[w] /\ pc[v] = "dispatch"
            \/ job[w] \in orphaned
  BY DEF TypeOK, MarkExplained, Explained, DropReplay, Marked, MyStore
<1> QED
  BY <1>1, <1>2, <1>3, Typing, PTL DEF Spec, ReplayDropIsHonest
=============================================================================
