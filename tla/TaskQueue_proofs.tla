-------------------------- MODULE TaskQueue_proofs --------------------------
(***************************************************************************)
(* Proofs about TaskQueue for any set of workers, any number of tasks and  *)
(* any faults.  QInv is inductive: one lemma per action shows that the     *)
(* action preserves the types, the two safety properties and what QInv     *)
(* says of each worker.                                                    *)
(***************************************************************************)
EXTENDS TaskQueue, TLAPS

USE QueueAssumption DEF Offset, Goto, kafka, batch, fate, count, Settled

\* Where a worker's consumer can be.
LEMMA Positions ==
    ASSUME QInv, NEW w \in Worker
    PROVE  /\ position[w] \in Nat /\ fetched[w] \in Nat /\ end \in Nat
           /\ position[w] <= fetched[w] /\ fetched[w] <= end /\ end <= MaxTasks
           /\ position[w] < fetched[w] => position[w] \in Offset
           /\ Processing(w) \/ loop[w] = "commit" => Current(w) \in Offset
BY SMTT(60) DEF QInv, WorkerInv, TypeOK, Current

LEMMA QInvInit == Init => QInv
<1> SUFFICES ASSUME Init PROVE QInv
  OBVIOUS
<1>1. TypeOK
  BY DEF Init, TypeOK, Loop
<1>2. LossIsConfined /\ AtMostOncePerTenure
  BY DEF Init, LossIsConfined, AtMostOncePerTenure
<1>3. ASSUME NEW w \in Worker PROVE WorkerInv(w)
  BY DEF Init, WorkerInv, Processing, OwnerAccounts, TenureAhead
<1> QED
  BY <1>1, <1>2, <1>3 DEF QInv

-----------------------------------------------------------------------------
LEMMA JoinStep ==
    ASSUME QInv, NEW w \in Worker, Join(w)
    PROVE  QInv'
<1>1. TypeOK'
  <2>1. position' \in [Worker -> 0..end] /\ fetched' \in [Worker -> 0..end]
    BY DEF Join, QInv, TypeOK
  <2>2. tenures' \in [Worker -> Nat]
    BY DEF Join, QInv, TypeOK
  <2> QED  BY <2>1, <2>2 DEF Join, QInv, TypeOK
<1>2. LossIsConfined'
  BY DEF Join, QInv, LossIsConfined
<1>3. AtMostOncePerTenure'
  BY DEF Join, QInv, AtMostOncePerTenure, TypeOK
<1>4. ASSUME NEW v \in Worker PROVE WorkerInv(v)'
  BY SMTT(60) DEF Join, QInv, WorkerInv, TypeOK, Loop, OwnerAccounts, TenureAhead,
         Processing, Current, LossIsConfined, AtMostOncePerTenure
<1> QED
  BY <1>1, <1>2, <1>3, <1>4 DEF QInv

LEMMA FetchStep ==
    ASSUME QInv, NEW w \in Worker, Fetch(w)
    PROVE  QInv'
<1>1. TypeOK'
  BY SMTT(60) DEF Fetch, QInv, TypeOK, Loop
<1>2. LossIsConfined'
  BY DEF Fetch, QInv, LossIsConfined
<1>3. AtMostOncePerTenure'
  BY DEF Fetch, QInv, AtMostOncePerTenure
<1>4. ASSUME NEW v \in Worker PROVE WorkerInv(v)'
  BY SMTT(60) DEF Fetch, QInv, WorkerInv, TypeOK, Loop, OwnerAccounts, TenureAhead,
         Processing, Current
<1> QED
  BY <1>1, <1>2, <1>3, <1>4 DEF QInv

LEMMA YieldStep ==
    ASSUME QInv, NEW w \in Worker, Yield(w)
    PROVE  QInv'
<1> DEFINE o == position[w]
<1>0. /\ o \in Nat /\ o \in Offset /\ o + 1 <= fetched[w] /\ fetched[w] \in 0..end
      /\ position' = [position EXCEPT ![w] = o + 1]
      /\ position'[w] = o + 1 /\ fetched' = fetched
      /\ \A v \in Worker : v # w => position'[v] = position[v]
  BY Positions, SMTT(60) DEF Yield, QInv, TypeOK
<1>1. /\ runs' \in [Worker -> [Offset -> Nat]]
      /\ \A p \in Offset : runs'[w][p] = IF p = o THEN runs[w][p] + 1 ELSE runs[w][p]
      /\ \A v \in Worker : v # w => runs'[v] = runs[v]
  <2>1. runs \in [Worker -> [Offset -> Nat]]
    BY DEF QInv, TypeOK
  <2>2. runs' = [runs EXCEPT ![w] = [runs[w] EXCEPT ![o] = runs[w][o] + 1]]
    BY <2>1 DEF Yield
  <2>3. runs[w] \in [Offset -> Nat] /\ runs[w][o] + 1 \in Nat
    BY <2>1, <1>0
  <2> HIDE DEF Offset, o
  <2> QED  BY <2>1, <2>2, <2>3, <1>0
<1>2. /\ runs[w] \in [Offset -> Nat] /\ tenures[w] \in Nat /\ tenures[w] > 0
      /\ \A p \in Offset : p >= o => runs[w][p] < tenures[w]
  BY <1>0 DEF QInv, TypeOK, WorkerInv, TenureAhead
<1> HIDE DEF o
<1>3. TypeOK'
  <2>1. position' \in [Worker -> 0..end]
    BY <1>0 DEF QInv, TypeOK
  <2> QED  BY <1>1, <2>1 DEF Yield, QInv, TypeOK, Loop
<1>4. LossIsConfined'
  BY DEF Yield, QInv, LossIsConfined
<1>5. AtMostOncePerTenure'
  <2> SUFFICES ASSUME NEW v \in Worker, NEW p \in Offset
               PROVE  runs'[v][p] <= tenures[v]
    BY DEF Yield, AtMostOncePerTenure
  <2>1. CASE v = w
    <3>1. runs[w][p] \in Nat /\ runs[w][p] <= tenures[w]
      BY <1>2 DEF QInv, AtMostOncePerTenure
    <3>2. p = o => runs[w][p] < tenures[w]
      BY <1>0, <1>2
    <3>3. runs'[w][p] = IF p = o THEN runs[w][p] + 1 ELSE runs[w][p]
      BY <1>1
    <3> HIDE DEF Offset
    <3> QED  BY <2>1, <1>2, <3>1, <3>2, <3>3
  <2>2. CASE v # w
    BY <2>2, <1>1 DEF QInv, AtMostOncePerTenure
  <2> QED  BY <2>1, <2>2
<1>6. ASSUME NEW v \in Worker PROVE WorkerInv(v)'
  <2>1. WorkerInv(v) /\ position[v] \in Nat /\ loop \in [Worker -> Loop]
    BY DEF QInv, TypeOK
  <2>2. CASE v # w
    BY <2>1, <2>2, <1>0, <1>1
       DEF Yield, WorkerInv, OwnerAccounts, TenureAhead, Processing, Current
  <2>3. CASE v = w
    <3>1. loop'[w] = "working" /\ owner' = owner /\ tenures' = tenures
      BY <2>1 DEF Yield
    <3>2. OwnerAccounts(w)'
      BY <2>1, <2>3, <1>0, <3>1, SMTT(60)
         DEF Yield, QInv, TypeOK, WorkerInv, OwnerAccounts, Processing, Current
    <3>3. TenureAhead(w)'
      <4>1. ASSUME NEW p \in Offset, p >= o + 1
            PROVE  runs'[w][p] < tenures[w]
        <5>1. p >= o /\ p # o
          BY <4>1, <1>0
        <5> QED  BY <5>1, <1>1, <1>2
      <4> QED  BY <4>1, <1>0, <1>2, <3>1 DEF TenureAhead
    <3>4. /\ position'[w] <= fetched'[w] /\ position'[w] > 0
      BY <1>0
    <3> QED  BY <2>3, <3>2, <3>3, <3>4 DEF WorkerInv
  <2> QED  BY <2>2, <2>3
<1> QED
  BY <1>3, <1>4, <1>5, <1>6 DEF QInv

\* What the four outcomes of process_task have in common: fate only grows.
Publishes(w) ==
    \/ PublishReturns(w)
    \/ PublishRaises(w) /\ dropped' \in {dropped, dropped \cup {Current(w)}}

LEMMA FateGrows ==
    ASSUME QInv, NEW w \in Worker, Current(w) \in Offset, Publishes(w)
    PROVE  /\ stored' \subseteq Offset /\ stored \subseteq stored'
           /\ unsent' \subseteq Offset /\ unsent \subseteq unsent'
           /\ dropped' \subseteq Offset /\ dropped \subseteq dropped'
           /\ budget' \in Nat
<1>1. /\ stored \subseteq Offset /\ unsent \subseteq Offset /\ dropped \subseteq Offset
      /\ budget \in Nat
  BY DEF QInv, TypeOK
<1>2. budget' \in Nat
  BY <1>1 DEF Publishes, PublishReturns, PublishRaises, Fails
<1> HIDE DEF Offset
<1> QED
  BY <1>1, <1>2 DEF Publishes, PublishReturns, PublishRaises

\* A task the owner goes past after its publishes has an outcome to show.
LEMMA PublishAccounts ==
    ASSUME QInv, NEW w \in Worker, Processing(w), Current(w) \in Offset, Publishes(w),
           NEW where \in {"failing", "commit", "retry"},
           loop' = [loop EXCEPT ![w] = where],
           UNCHANGED <<end, committed, owner, position>>,
           where # "failing" => Current(w) \in stored' \cup unsent' \cup dropped',
           NEW v \in Worker
    PROVE  OwnerAccounts(v)'
<1> SUFFICES ASSUME owner = v PROVE OwnerAccounts(v)'
  BY DEF OwnerAccounts
<1>1. /\ \A o \in 0..(position[v] - 1) :
            Settled(o) \/ (Processing(v) /\ o = Current(v))
      /\ committed <= IF Processing(v) THEN Current(v) ELSE position[v]
  BY DEF QInv, WorkerInv, OwnerAccounts
<1>2. \A o : Settled(o) => o \in stored' \cup unsent' \cup dropped'
  BY FateGrows
<1>3. /\ position[v] \in Nat /\ committed \in Nat /\ Current(v) = position[v] - 1
      /\ loop \in [Worker -> Loop]
  BY DEF QInv, TypeOK, Current
<1>4. Current(v)' = Current(v)
  BY DEF Current
<1>5. Processing(v)' <=> IF v = w THEN where = "failing" ELSE Processing(v)
  BY <1>3 DEF Processing
<1>6. ASSUME NEW o \in 0..(position[v] - 1)
      PROVE  o \in stored' \cup unsent' \cup dropped' \/ (Processing(v)' /\ o = Current(v))
  BY <1>1, <1>2, <1>5
<1>7. committed <= IF Processing(v)' THEN Current(v) ELSE position[v]
  BY <1>1, <1>3, <1>5
<1> QED
  BY <1>4, <1>6, <1>7 DEF OwnerAccounts

LEMMA ReportStep ==
    ASSUME QInv, NEW w \in Worker, Report(w)
    PROVE  QInv'
<1>0. /\ Processing(w) /\ Current(w) \in Offset /\ Publishes(w)
      /\ loop' = [loop EXCEPT ![w] = "commit"]
      /\ UNCHANGED <<end, committed, owner, position, fetched, runs, tenures>>
  BY Positions DEF Report, Processing, Publishes, PublishReturns
<1>1. TypeOK'
  <2>1. loop' \in [Worker -> Loop]
    BY <1>0 DEF QInv, TypeOK, Loop
  <2> QED  BY <2>1, <1>0, FateGrows DEF QInv, TypeOK
<1>2. LossIsConfined'
  BY <1>0, FateGrows DEF QInv, LossIsConfined
<1>3. AtMostOncePerTenure'
  BY <1>0 DEF QInv, AtMostOncePerTenure
<1>4. ASSUME NEW v \in Worker PROVE WorkerInv(v)'
  <2>1. /\ WorkerInv(v) /\ loop \in [Worker -> Loop]
        /\ \A o : Settled(o) => Settled(o)'
    BY <1>0, FateGrows DEF QInv, TypeOK
  <2>2. Current(w) \in stored' \cup unsent' \cup dropped'
    BY DEF Report, PublishReturns
  <2>3. OwnerAccounts(v)'
    BY <1>0, <2>2, PublishAccounts
  <2>4. TenureAhead(v)'
    BY <1>0, <2>1 DEF WorkerInv, TenureAhead
  <2>5. Processing(v)' \/ loop'[v] = "commit" => Processing(v) \/ loop[v] = "commit"
    BY <1>0, <2>1 DEF Processing
  <2> QED  BY <1>0, <2>1, <2>3, <2>4, <2>5 DEF WorkerInv
<1> QED
  BY <1>1, <1>2, <1>3, <1>4 DEF QInv

LEMMA ReportRaisesStep ==
    ASSUME QInv, NEW w \in Worker, ReportRaises(w)
    PROVE  QInv'
<1>0. /\ Processing(w) /\ Current(w) \in Offset /\ Publishes(w)
      /\ loop' = [loop EXCEPT ![w] = "failing"]
      /\ UNCHANGED <<end, committed, owner, position, fetched, runs, tenures>>
  BY Positions DEF ReportRaises, Processing, Publishes
<1>1. TypeOK'
  <2>1. loop' \in [Worker -> Loop]
    BY <1>0 DEF QInv, TypeOK, Loop
  <2> QED  BY <2>1, <1>0, FateGrows DEF QInv, TypeOK
<1>2. LossIsConfined'
  BY <1>0, FateGrows DEF QInv, LossIsConfined
<1>3. AtMostOncePerTenure'
  BY <1>0 DEF QInv, AtMostOncePerTenure
<1>4. ASSUME NEW v \in Worker PROVE WorkerInv(v)'
  <2>1. /\ WorkerInv(v) /\ loop \in [Worker -> Loop]
        /\ \A o : Settled(o) => Settled(o)'
    BY <1>0, FateGrows DEF QInv, TypeOK
  <2>3. OwnerAccounts(v)'
    BY <1>0, PublishAccounts
  <2>4. TenureAhead(v)'
    BY <1>0, <2>1 DEF WorkerInv, TenureAhead
  <2>5. Processing(v)' \/ loop'[v] = "commit" => Processing(v) \/ loop[v] = "commit"
    BY <1>0, <2>1 DEF Processing
  <2> QED  BY <1>0, <2>1, <2>3, <2>4, <2>5 DEF WorkerInv
<1> QED
  BY <1>1, <1>2, <1>3, <1>4 DEF QInv

LEMMA ReportErrorStep ==
    ASSUME QInv, NEW w \in Worker, ReportError(w)
    PROVE  QInv'
<1>0. /\ Processing(w) /\ Current(w) \in Offset /\ Publishes(w)
      /\ loop' = [loop EXCEPT ![w] = "commit"]
      /\ UNCHANGED <<end, committed, owner, position, fetched, runs, tenures>>
  BY Positions DEF ReportError, Processing, Publishes, PublishReturns
<1>1. TypeOK'
  <2>1. loop' \in [Worker -> Loop]
    BY <1>0 DEF QInv, TypeOK, Loop
  <2> QED  BY <2>1, <1>0, FateGrows DEF QInv, TypeOK
<1>2. LossIsConfined'
  BY <1>0, FateGrows DEF QInv, LossIsConfined
<1>3. AtMostOncePerTenure'
  BY <1>0 DEF QInv, AtMostOncePerTenure
<1>4. ASSUME NEW v \in Worker PROVE WorkerInv(v)'
  <2>1. /\ WorkerInv(v) /\ loop \in [Worker -> Loop]
        /\ \A o : Settled(o) => Settled(o)'
    BY <1>0, FateGrows DEF QInv, TypeOK
  <2>2. Current(w) \in stored' \cup unsent' \cup dropped'
    BY DEF ReportError, PublishReturns
  <2>3. OwnerAccounts(v)'
    BY <1>0, <2>2, PublishAccounts
  <2>4. TenureAhead(v)'
    BY <1>0, <2>1 DEF WorkerInv, TenureAhead
  <2>5. Processing(v)' \/ loop'[v] = "commit" => Processing(v) \/ loop[v] = "commit"
    BY <1>0, <2>1 DEF Processing
  <2> QED  BY <1>0, <2>1, <2>3, <2>4, <2>5 DEF WorkerInv
<1> QED
  BY <1>1, <1>2, <1>3, <1>4 DEF QInv

LEMMA ReportErrorRaisesStep ==
    ASSUME QInv, NEW w \in Worker, ReportErrorRaises(w)
    PROVE  QInv'
<1>0. /\ Processing(w) /\ Current(w) \in Offset /\ Publishes(w)
      /\ loop' = [loop EXCEPT ![w] = "retry"]
      /\ UNCHANGED <<end, committed, owner, position, fetched, runs, tenures>>
  BY Positions DEF ReportErrorRaises, Processing, Publishes
<1>1. TypeOK'
  <2>1. loop' \in [Worker -> Loop]
    BY <1>0 DEF QInv, TypeOK, Loop
  <2> QED  BY <2>1, <1>0, FateGrows DEF QInv, TypeOK
<1>2. LossIsConfined'
  BY <1>0, FateGrows DEF QInv, LossIsConfined
<1>3. AtMostOncePerTenure'
  BY <1>0 DEF QInv, AtMostOncePerTenure
<1>4. ASSUME NEW v \in Worker PROVE WorkerInv(v)'
  <2>1. /\ WorkerInv(v) /\ loop \in [Worker -> Loop]
        /\ \A o : Settled(o) => Settled(o)'
    BY <1>0, FateGrows DEF QInv, TypeOK
  <2>2. Current(w) \in stored' \cup unsent' \cup dropped'
    BY DEF ReportErrorRaises
  <2>3. OwnerAccounts(v)'
    BY <1>0, <2>2, PublishAccounts
  <2>4. TenureAhead(v)'
    BY <1>0, <2>1 DEF WorkerInv, TenureAhead
  <2>5. Processing(v)' \/ loop'[v] = "commit" => Processing(v) \/ loop[v] = "commit"
    BY <1>0, <2>1 DEF Processing
  <2> QED  BY <1>0, <2>1, <2>3, <2>4, <2>5 DEF WorkerInv
<1> QED
  BY <1>1, <1>2, <1>3, <1>4 DEF QInv

LEMMA CommitStep ==
    ASSUME QInv, NEW w \in Worker, Commit(w)
    PROVE  QInv'
<1>1. TypeOK'
  BY DEF Commit, QInv, TypeOK, Loop
<1>2. LossIsConfined'
  BY DEF Commit, QInv, WorkerInv, TypeOK, LossIsConfined, OwnerAccounts,
         Processing, Current
<1>3. AtMostOncePerTenure'
  BY DEF Commit, QInv, AtMostOncePerTenure
<1>4. ASSUME NEW v \in Worker PROVE WorkerInv(v)'
  BY DEF Commit, QInv, WorkerInv, TypeOK, Loop, OwnerAccounts, TenureAhead,
         Processing, Current
<1> QED
  BY <1>1, <1>2, <1>3, <1>4 DEF QInv

LEMMA CommitRaisesStep ==
    ASSUME QInv, NEW w \in Worker, CommitRaises(w)
    PROVE  QInv'
<1>0. /\ loop[w] = "commit" /\ loop' = [loop EXCEPT ![w] = "retry"]
      /\ committed' = committed \/ (owner = w /\ committed' = position[w])
      /\ UNCHANGED <<end, owner, position, fetched, stored, unsent, dropped, runs,
                     tenures>>
  BY DEF CommitRaises
<1>1. TypeOK'
  <2>1. budget' \in Nat /\ loop' \in [Worker -> Loop]
    BY DEF CommitRaises, Fails, QInv, TypeOK, Loop
  <2>2. committed' \in 0..end
    BY <1>0 DEF QInv, TypeOK
  <2> QED  BY <1>0, <2>1, <2>2 DEF QInv, TypeOK
<1>2. LossIsConfined'
  BY <1>0 DEF QInv, WorkerInv, TypeOK, LossIsConfined, OwnerAccounts, Processing, Current
<1>3. AtMostOncePerTenure'
  BY <1>0 DEF QInv, AtMostOncePerTenure
<1>4. ASSUME NEW v \in Worker PROVE WorkerInv(v)'
  <2>1. WorkerInv(v) /\ loop \in [Worker -> Loop] /\ committed \in Nat
        /\ position[v] \in Nat
    BY DEF QInv, TypeOK
  <2>2. Processing(v)' <=> Processing(v)
    BY <1>0, <2>1 DEF Processing
  <2>3. OwnerAccounts(v)'
    BY <1>0, <2>1, <2>2, SMTT(60) DEF WorkerInv, OwnerAccounts, Processing, Current
  <2>4. TenureAhead(v)'
    BY <1>0, <2>1 DEF WorkerInv, TenureAhead
  <2>5. loop'[v] = "commit" => loop[v] = "commit"
    BY <1>0, <2>1
  <2> QED  BY <1>0, <2>1, <2>2, <2>3, <2>4, <2>5 DEF WorkerInv
<1> QED
  BY <1>1, <1>2, <1>3, <1>4 DEF QInv

LEMMA RetryStep ==
    ASSUME QInv, NEW w \in Worker, Retry(w)
    PROVE  QInv'
<1>1. TypeOK'
  BY DEF Retry, QInv, TypeOK, Loop
<1>2. LossIsConfined'
  BY DEF Retry, QInv, LossIsConfined
<1>3. AtMostOncePerTenure'
  BY DEF Retry, QInv, AtMostOncePerTenure
<1>4. ASSUME NEW v \in Worker PROVE WorkerInv(v)'
  BY DEF Retry, QInv, WorkerInv, TypeOK, Loop, OwnerAccounts, TenureAhead,
         Processing, Current
<1> QED
  BY <1>1, <1>2, <1>3, <1>4 DEF QInv

LEMMA SwapBrokerStep ==
    ASSUME QInv, NEW w \in Worker, SwapBroker(w)
    PROVE  QInv'
<1>1. TypeOK'
  <2>1. budget' \in Nat /\ loop' \in [Worker -> Loop]
    BY DEF SwapBroker, Fails, QInv, TypeOK, Loop
  <2>2. owner' \in Worker \cup {NoWorker}
    BY DEF SwapBroker, Release, QInv, TypeOK
  <2> QED  BY <2>1, <2>2 DEF SwapBroker, QInv, TypeOK
<1>2. LossIsConfined'
  BY DEF SwapBroker, QInv, LossIsConfined
<1>3. AtMostOncePerTenure'
  BY DEF SwapBroker, QInv, AtMostOncePerTenure
<1>4. ASSUME NEW v \in Worker PROVE WorkerInv(v)'
  BY DEF SwapBroker, Release, Fails, QInv, WorkerInv, TypeOK, Loop, OwnerAccounts, TenureAhead,
         Processing, Current
<1> QED
  BY <1>1, <1>2, <1>3, <1>4 DEF QInv

LEMMA DieStep ==
    ASSUME QInv, NEW w \in Worker, Die(w)
    PROVE  QInv'
<1>1. TypeOK'
  <2>1. budget' \in Nat /\ loop' \in [Worker -> Loop]
    BY DEF Die, Fails, QInv, TypeOK, Loop
  <2>2. owner' \in Worker \cup {NoWorker}
    BY DEF Die, Release, QInv, TypeOK
  <2>3. fetched' \in [Worker -> 0..end]
    BY DEF Die, QInv, TypeOK
  <2> QED  BY <2>1, <2>2, <2>3 DEF Die, QInv, TypeOK
<1>2. LossIsConfined'
  BY DEF Die, QInv, LossIsConfined
<1>3. AtMostOncePerTenure'
  BY DEF Die, QInv, AtMostOncePerTenure
<1>4. ASSUME NEW v \in Worker PROVE WorkerInv(v)'
  BY DEF Die, Release, Fails, QInv, WorkerInv, TypeOK, Loop, OwnerAccounts, TenureAhead,
         Processing, Current
<1> QED
  BY <1>1, <1>2, <1>3, <1>4 DEF QInv

LEMMA StartStep ==
    ASSUME QInv, NEW w \in Worker, Start(w)
    PROVE  QInv'
<1>1. TypeOK'
  BY DEF Start, QInv, TypeOK, Loop
<1>2. LossIsConfined'
  BY DEF Start, QInv, LossIsConfined
<1>3. AtMostOncePerTenure'
  BY DEF Start, QInv, AtMostOncePerTenure
<1>4. ASSUME NEW v \in Worker PROVE WorkerInv(v)'
  BY DEF Start, QInv, WorkerInv, TypeOK, Loop, OwnerAccounts, TenureAhead,
         Processing, Current
<1> QED
  BY <1>1, <1>2, <1>3, <1>4 DEF QInv

LEMMA AppendStep == QInv /\ Append => QInv'
BY DEF Append, QInv, WorkerInv, TypeOK, LossIsConfined, AtMostOncePerTenure,
       OwnerAccounts, TenureAhead, Processing, Current

LEMMA RevokeStep ==
    ASSUME QInv, Revoke
    PROVE  QInv'
<1>1. TypeOK'
  <2>1. budget' \in Nat
    BY DEF Revoke, Fails, QInv, TypeOK
  <2> QED  BY <2>1 DEF Revoke, QInv, TypeOK
<1>2. LossIsConfined' /\ AtMostOncePerTenure'
  BY DEF Revoke, QInv, LossIsConfined, AtMostOncePerTenure
<1>3. ASSUME NEW v \in Worker PROVE WorkerInv(v)'
  BY DEF Revoke, QInv, WorkerInv, OwnerAccounts, TenureAhead, Processing, Current
<1> QED
  BY <1>1, <1>2, <1>3 DEF QInv

LEMMA QInvNext == QInv /\ [Next]_vars => QInv'
<1> SUFFICES ASSUME QInv, [Next]_vars PROVE QInv'
  OBVIOUS
<1>1. CASE UNCHANGED vars
  BY <1>1 DEF vars, QInv, WorkerInv, TypeOK, LossIsConfined, AtMostOncePerTenure,
              OwnerAccounts, TenureAhead, Processing, Current
<1>2. ASSUME NEW w \in Worker, Main(w) PROVE QInv'
  BY <1>2, JoinStep, FetchStep, YieldStep, ReportStep, ReportRaisesStep,
     ReportErrorStep, ReportErrorRaisesStep, CommitStep, CommitRaisesStep,
     RetryStep DEF Main
<1>3. ASSUME NEW w \in Worker, SwapBroker(w) \/ Die(w) \/ Start(w) PROVE QInv'
  BY <1>3, SwapBrokerStep, DieStep, StartStep
<1> QED
  BY <1>1, <1>2, <1>3, AppendStep, RevokeStep DEF Next

-----------------------------------------------------------------------------
\* The inductive invariant holds in every reachable state.
THEOREM QueueInvariant == Spec => []QInv
<1> QED
  BY QInvInit, QInvNext, PTL DEF Spec

\* Every variable keeps its type: in particular no commit and no position runs
\* ahead of the log.
THEOREM QueueTypeCorrect == Spec => []TypeOK
<1>1. QInv => TypeOK
  BY DEF QInv
<1> QED
  BY QueueInvariant, <1>1, PTL

\* worker.py's promise: the task the owner is working on is not committed.
THEOREM CrashRedelivers == Spec => []InFlightStaysUncommitted
<1>1. QInv => InFlightStaysUncommitted
  BY DEF QInv, WorkerInv, OwnerAccounts, Processing, InFlightStaysUncommitted
<1> QED
  BY QueueInvariant, <1>1, PTL

\* A task is only ever committed without a result on completed-tasks if a
\* publish_result for it returned although its send had failed, or if both its
\* publish and its error publish raised.
THEOREM OnlyFailedPublishesLose == Spec => []LossIsConfined
<1>1. QInv => LossIsConfined
  BY DEF QInv
<1> QED
  BY QueueInvariant, <1>1, PTL

\* A worker runs a task at most once for each time it is given the partition.
THEOREM OneRunPerTenure == Spec => []AtMostOncePerTenure
<1>1. QInv => AtMostOncePerTenure
  BY DEF QInv
<1> QED
  BY QueueInvariant, <1>1, PTL
-----------------------------------------------------------------------------
(* The refinement of AtLeastOnce.  A stored result answers a task, a failed *)
(* publish gives one up, commits forget, and the rest of the model stutters. *)

promise == <<end, stored, unsent \cup dropped, committed>>

LEMMA StartsEmpty == Init => Queue!Init
BY DEF Init, Queue!Init

\* Only the owner commits, and what it commits moves the offset forward, over
\* tasks that all have an outcome.
LEMMA CommitForgets ==
    ASSUME QInv, NEW w \in Worker, owner = w, loop[w] = "commit",
           committed' = position[w], UNCHANGED <<end, stored, unsent, dropped>>
    PROVE  Queue!Next \/ UNCHANGED promise
<1>1. /\ committed \in Nat /\ position[w] \in Nat /\ end \in Nat
      /\ committed <= position[w] /\ position[w] <= end
  <2>1. committed <= position[w]
    BY DEF Processing, QInv, WorkerInv, OwnerAccounts
  <2> QED  BY <2>1, Positions DEF QInv, TypeOK
<1>2. \A o \in 0..(position[w] - 1) : o \in stored \cup unsent \cup dropped
  BY DEF QInv, WorkerInv, OwnerAccounts, Processing
<1>3. \A o \in committed..(position[w] - 1) : o \in stored \cup (unsent \cup dropped)
  BY <1>1, <1>2
<1>4. CASE committed' = committed
  BY <1>4 DEF promise
<1>5. CASE committed' # committed
  <2>1. Queue!Forget(committed')
    BY <1>1, <1>3, <1>5 DEF Queue!Forget, Queue!outcomes
  <2> QED  BY <1>1, <2>1 DEF Queue!Next
<1> QED
  BY <1>4, <1>5

\* Every outcome of a publish answers the task, gives it up, or changes nothing.
LEMMA PublishSettles ==
    ASSUME QInv, NEW w \in Worker, Current(w) \in 0..end, Current(w) < end,
           Publishes(w), UNCHANGED <<end, committed>>
    PROVE  Queue!Next \/ UNCHANGED promise
<1> DEFINE task == Current(w)
<1>1. task \in 0..end /\ task < end
  OBVIOUS
<1> HIDE DEF task
<1>2. CASE stored' = stored \cup {task} /\ UNCHANGED <<unsent, dropped>>
  BY <1>1, <1>2 DEF Queue!Next, Queue!Answer
<1>3. CASE /\ stored' \in {stored, stored \cup {task}}
           /\ (unsent \cup dropped)' = (unsent \cup dropped) \cup {task}
  BY <1>1, <1>3 DEF Queue!Next, Queue!GiveUp
<1>4. CASE UNCHANGED <<stored, unsent, dropped>>
  BY <1>4 DEF promise
<1>5. \/ stored' = stored \cup {task} /\ UNCHANGED <<unsent, dropped>>
      \/ /\ stored' \in {stored, stored \cup {task}}
         /\ (unsent \cup dropped)' = (unsent \cup dropped) \cup {task}
      \/ UNCHANGED <<stored, unsent, dropped>>
  BY DEF Publishes, PublishReturns, PublishRaises, task
<1> QED
  BY <1>2, <1>3, <1>4, <1>5

LEMMA StepIsQueueStep == QInv /\ [Next]_vars => [Queue!Next]_promise
<1> SUFFICES ASSUME QInv, [Next]_vars PROVE Queue!Next \/ UNCHANGED promise
  OBVIOUS
<1>0. end \in Nat /\ committed \in 0..end
  BY DEF QInv, TypeOK
<1>1. CASE UNCHANGED vars
  BY <1>1 DEF vars, promise
<1>2. CASE Append
  BY <1>2 DEF Append, Queue!Next, Queue!Accept, Queue!outcomes
<1>3. CASE Revoke
  BY <1>3 DEF Revoke, promise
<1>4. ASSUME NEW w \in Worker, Commit(w) \/ CommitRaises(w)
      PROVE  Queue!Next \/ UNCHANGED promise
  <2>1. CASE committed' = committed
    BY <1>4, <2>1 DEF Commit, CommitRaises, promise
  <2>2. CASE committed' # committed
    <3>1. /\ owner = w /\ loop[w] = "commit" /\ committed' = position[w]
          /\ UNCHANGED <<end, stored, unsent, dropped>>
      BY <1>4, <2>2 DEF Commit, CommitRaises
    <3> QED  BY <3>1, CommitForgets
  <2> QED  BY <2>1, <2>2
<1>5. ASSUME NEW w \in Worker,
             Report(w) \/ ReportRaises(w) \/ ReportError(w) \/ ReportErrorRaises(w)
      PROVE  Queue!Next \/ UNCHANGED promise
  <2>1. Processing(w) /\ Publishes(w) /\ UNCHANGED <<end, committed>>
    BY <1>5 DEF Report, ReportRaises, ReportError, ReportErrorRaises, Processing, Publishes
  <2>2. Current(w) \in 0..end /\ Current(w) < end
    BY <1>0, <2>1, Positions DEF Current, QInv, WorkerInv
  <2> QED  BY <2>1, <2>2, PublishSettles
<1>6. ASSUME NEW w \in Worker,
             \/ Join(w) \/ Fetch(w) \/ Yield(w)
             \/ Retry(w) \/ SwapBroker(w) \/ Die(w) \/ Start(w)
      PROVE  UNCHANGED promise
  BY <1>6 DEF Join, Fetch, Yield, Retry, SwapBroker, Die, Start, promise
<1> QED
  BY <1>1, <1>2, <1>3, <1>4, <1>5, <1>6 DEF Next, Main

\* The workers of a topic are an at-least-once queue: no commit goes back, and
\* none passes a task that was neither answered nor given up, whatever dies, is
\* taken away, or comes back late.
THEOREM QueueImplemented == Spec => ImplementsQueue
<1> QED
  BY StartsEmpty, StepIsQueueStep, QueueInvariant, PTL
     DEF Spec, ImplementsQueue, Queue!Spec, promise

-----------------------------------------------------------------------------
(* The claim of worker/kafka_client.py:122-125, which run TaskSkipped        *)
(* refutes, is true of a producer that neither raises nor returns with its   *)
(* record unsent.                                                            *)

LEMMA NothingUnsettled ==
    ASSUME "publish" \notin Faults, "unsent" \notin Faults
    PROVE  Spec => [](unsent = {} /\ dropped = {})
<1> DEFINE Clean == unsent = {} /\ dropped = {}
<1>1. Init => Clean
  BY DEF Init
<1>2. Clean /\ [Next]_vars => Clean'
  <2> SUFFICES ASSUME [Next]_vars PROVE UNCHANGED <<unsent, dropped>>
    OBVIOUS
  <2>1. ASSUME NEW w \in Worker PROVE ~ReportRaises(w) /\ ~ReportErrorRaises(w)
    BY DEF ReportRaises, ReportErrorRaises, PublishRaises, Fails
  <2>2. ASSUME NEW w \in Worker, PublishReturns(w) PROVE UNCHANGED <<unsent, dropped>>
    BY <2>2 DEF PublishReturns, Fails
  <2>3. ASSUME NEW w \in Worker, Main(w) \/ SwapBroker(w) \/ Die(w) \/ Start(w)
        PROVE  UNCHANGED <<unsent, dropped>>
    BY <2>1, <2>2, <2>3 DEF Main, Join, Fetch, Yield, Report, ReportError, Commit,
                      CommitRaises, Retry, SwapBroker, Die, Start
  <2> QED  BY <2>3 DEF Next, Append, Revoke, vars
<1> QED
  BY <1>1, <1>2, PTL DEF Spec

\* Failed publishes are the only reason a commit passes a task without a result:
\* crashes, rebalances, failed commits and swapped brokers are not.
THEOREM OnlyPublishLoses ==
    ASSUME "publish" \notin Faults, "unsent" \notin Faults
    PROVE  Spec => []CommittedWasStored
<1>1. LossIsConfined /\ unsent = {} /\ dropped = {} => CommittedWasStored
  BY DEF LossIsConfined, CommittedWasStored
<1> QED
  BY <1>1, OnlyFailedPublishesLose, NothingUnsettled, PTL
=============================================================================
