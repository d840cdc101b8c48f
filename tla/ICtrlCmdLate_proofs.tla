------------------------ MODULE ICtrlCmdLate_proofs ------------------------
(***************************************************************************)
(* What holds of the command layer whenever the answers arrive, and        *)
(* whether or not assert() is compiled in: a command may return another    *)
(* one's answer, but answers are read in the order of the commands they    *)
(* answer, and an answer is late by at most the failures before it.        *)
(***************************************************************************)
EXTENDS ICtrlCmd_proofs, FiniteSetTheorems

\* The newest answer the receiver has taken off the wire.
Newest == IF rx_pc = "copy" THEN rx_ans ELSE g_crsp

\* The commands that have returned are 1..Returned.
Returned == IF pc = "idle" THEN cmd ELSE cmd - 1

\* Has the call in progress been notified?
Notified == pc = "read" \/ (pc \in {"subscribe", "tx", "wait"} /\ evt = "ready")

\* The commands that have failed.
Failed == {j \in Cmds : rc[j] = "failed"}

\* A condition, counted.
One(p) == IF p THEN 1 ELSE 0

\* A queue in which the later was sent later.
Rising(q) == \A i, j \in 1..Len(q) : i < j => q[i] < q[j]

\* The microcontroller and the wire keep the order of the commands, and what
\* the receiver has taken is older than what is still to come.
QueuesInOrder ==
    /\ Rising(wire)
    /\ Rising(dev)
    /\ \A i \in 1..Len(wire), j \in 1..Len(dev) : wire[i] < dev[j]
    /\ \A i \in 1..Len(wire) : Newest < wire[i]
    /\ \A j \in 1..Len(dev) : Newest < dev[j]

\* Nothing is answered before it is sent.
NothingEarly ==
    /\ Newest <= cmd
    /\ \A i \in 1..Len(wire) : wire[i] <= cmd
    /\ \A j \in 1..Len(dev) : dev[j] <= cmd
    /\ pc \in {"subscribe", "tx"} =>
          /\ Newest < cmd
          /\ \A i \in 1..Len(wire) : wire[i] < cmd
          /\ \A j \in 1..Len(dev) : dev[j] < cmd

\* What has been read was no newer than what has been received.
ReadInOrder ==
    /\ rx_pc = "copy" => g_crsp = 0
    /\ \A k \in Cmds : ans[k] <= Newest
    /\ \A k \in Cmds : k > Returned => rc[k] = "none" /\ ans[k] = 0
    /\ AnswersInOrder

\* A call that succeeds was notified, each notification is of an answer, and the
\* answers rise: the newest is no older than the calls that did not fail.
FailuresCovered ==
    Returned + One(Notified) + One(rx_pc # "idle") <= Newest + Cardinality(Failed)

\* The inductive invariant of the regime in which answers may be late.
LateInv ==
    /\ TypeInv
    /\ QueuesInOrder
    /\ NothingEarly
    /\ ReadInOrder
    /\ FailuresCovered
    /\ BoundedLag

-----------------------------------------------------------------------------
(* Queues. *)

\* Taking the first of a queue leaves the others in their order.
LEMMA TailOf ==
    ASSUME NEW q \in Seq(Cmds), q # <<>>
    PROVE  /\ Head(q) = q[1] /\ Head(q) \in Cmds
           /\ Tail(q) \in Seq(Cmds)
           /\ Len(Tail(q)) = Len(q) - 1
           /\ \A i \in 1..Len(Tail(q)) : Tail(q)[i] = q[i + 1] /\ i + 1 \in 1..Len(q)
           /\ 1 \in 1..Len(q)
OBVIOUS

\* What is put behind a queue is its last.
LEMMA AppendTo ==
    ASSUME NEW q \in Seq(Cmds), NEW a \in Cmds
    PROVE  /\ Append(q, a) \in Seq(Cmds)
           /\ Len(Append(q, a)) = Len(q) + 1
           /\ \A i \in 1..Len(Append(q, a)) :
                 Append(q, a)[i] = IF i = Len(q) + 1 THEN a ELSE q[i]
OBVIOUS

\* A rising queue without its first still rises, and its first is its least.
LEMMA RisingTail ==
    ASSUME NEW q \in Seq(Cmds), q # <<>>, Rising(q)
    PROVE  Rising(Tail(q)) /\ \A i \in 1..Len(Tail(q)) : Head(q) < Tail(q)[i]
BY TailOf DEF Rising, Cmds

\* A rising queue with something greater behind it still rises.
LEMMA RisingAppend ==
    ASSUME NEW q \in Seq(Cmds), NEW a \in Cmds, Rising(q),
           \A i \in 1..Len(q) : q[i] < a
    PROVE  Rising(Append(q, a))
BY AppendTo DEF Rising, Cmds

-----------------------------------------------------------------------------
(* Counting failures. *)

\* The commands that have failed can be counted.
LEMMA FailedFinite == IsFiniteSet(Failed) /\ Cardinality(Failed) \in Nat
<1>1. IsFiniteSet(Cmds)
  BY NumCmdsAssumption, FS_Interval DEF Cmds
<1> QED
  BY <1>1, FS_Subset, FS_CardinalityType DEF Failed

\* A call that fails is one more.
LEMMA OneMoreFailed ==
    ASSUME TypeOK, cmd \in Cmds, rc[cmd] = "none",
           rc' = [rc EXCEPT ![cmd] = "failed"]
    PROVE  Cardinality(Failed') = Cardinality(Failed) + 1
<1>1. Failed' = Failed \cup {cmd} /\ cmd \notin Failed
  BY DEF Failed, TypeOK
<1> QED
  BY <1>1, FailedFinite, FS_AddElement

\* One that succeeds is none more.
LEMMA NoMoreFailed ==
    ASSUME TypeOK, cmd \in Cmds, rc[cmd] = "none",
           rc' = [rc EXCEPT ![cmd] = "ok"]
    PROVE  Failed' = Failed
BY DEF Failed, TypeOK

\* The failures before a call that has just returned are all there are.
LEMMA AllFailedBefore ==
    ASSUME TypeOK, NEW k \in Cmds, \A j \in Cmds : j >= k => rc[j] = "none"
    PROVE  FailedBefore(k) = Cardinality(Failed)
<1>1. {j \in Cmds : j < k /\ rc[j] = "failed"} = Failed
  BY DEF Failed, Cmds
<1> QED
  BY <1>1 DEF FailedBefore

\* The failures before a call stay what they are once it has been made.
LEMMA FailedBeforeStays ==
    ASSUME NEW k \in Cmds, \A j \in Cmds : j < k => rc'[j] = rc[j]
    PROVE  FailedBefore(k)' = FailedBefore(k)
<1>1. {j \in Cmds : j < k /\ rc'[j] = "failed"} = {j \in Cmds : j < k /\ rc[j] = "failed"}
  OBVIOUS
<1> QED
  BY <1>1 DEF FailedBefore

-----------------------------------------------------------------------------
(* The invariant. *)

\* At the start nothing is sent, received or read.
LEMMA LateInit == Init => LateInv
<1> SUFFICES ASSUME Init PROVE LateInv
  OBVIOUS
<1>1. TypeInv
  BY TypeInit
<1>2. QueuesInOrder /\ NothingEarly /\ ReadInOrder /\ BoundedLag
  BY DEF Init, QueuesInOrder, NothingEarly, ReadInOrder, BoundedLag, AnswersInOrder,
     Rising, Newest, Cmds
<1>3. FailuresCovered
  BY FailedFinite DEF Init, FailuresCovered, Newest, Returned, Notified, One
<1> QED
  BY <1>1, <1>2, <1>3 DEF LateInv

\* What a step that leaves the results of calls alone has to show.
LEMMA ResultsStay ==
    ASSUME LateInv, UNCHANGED <<rc, ans>>, Newest' \in Int, Newest <= Newest',
           Returned' = Returned, rx_pc' = "copy" => g_crsp' = 0
    PROVE  ReadInOrder' /\ BoundedLag' /\ Failed' = Failed
<1>1. Failed' = Failed
  BY DEF Failed
<1>2. BoundedLag'
  BY DEF LateInv, BoundedLag, FailedBefore
<1>3. ReadInOrder'
  BY DEF LateInv, TypeInv, TypeOK, ReadInOrder, AnswersInOrder, Newest, Cmds
<1> QED
  BY <1>1, <1>2, <1>3

\* A call that fails leaves the order of what was read, and counts as a failure.
LEMMA FailKeeps ==
    ASSUME LateInv, cmd \in Cmds, pc \in {"tx", "wait", "read"}, pc' = "idle",
           rc' = [rc EXCEPT ![cmd] = "failed"],
           UNCHANGED <<cmd, ans, rx_pc, rx_ans, g_crsp, evt>>
    PROVE  ReadInOrder' /\ BoundedLag' /\ FailuresCovered'
<1>1. rc[cmd] = "none" /\ ans[cmd] = 0
  BY DEF LateInv, ReadInOrder, Returned, Cmds
<1>2. Cardinality(Failed') = Cardinality(Failed) + 1
  BY <1>1, OneMoreFailed DEF LateInv, TypeInv
<1>3. Returned' = Returned + 1 /\ Newest' = Newest /\ ~Notified'
  BY DEF Returned, Newest, Notified, Cmds
<1>4. FailuresCovered'
  BY <1>2, <1>3, FailedFinite DEF LateInv, TypeInv, TypeOK, FailuresCovered, One, Newest, Returned, Cmds
<1>5. ReadInOrder'
  BY <1>1, <1>3 DEF LateInv, TypeInv, TypeOK, ReadInOrder, AnswersInOrder, Returned, Cmds
<1>6. BoundedLag'
  <2> SUFFICES ASSUME NEW k \in Cmds, rc'[k] = "ok", ans'[k] # 0
               PROVE  ans'[k] <= k /\ k - ans'[k] <= FailedBefore(k)'
    BY DEF BoundedLag
  <2>1. k # cmd /\ rc[k] = "ok" /\ ans[k] # 0
    BY <1>1 DEF LateInv, TypeInv, TypeOK
  <2>2. k < cmd
    BY <2>1 DEF LateInv, ReadInOrder, Returned, Cmds
  <2>3. FailedBefore(k)' = FailedBefore(k)
    BY <2>2, FailedBeforeStays DEF LateInv, TypeInv, TypeOK, Cmds
  <2> QED
    BY <2>1, <2>3 DEF LateInv, BoundedLag
<1> QED
  BY <1>4, <1>5, <1>6

\* Every step keeps the invariant, whenever answers arrive.
LEMMA LateStep == LateInv /\ [Next]_vars => LateInv'
<1> SUFFICES ASSUME LateInv, [Next]_vars PROVE LateInv'
  OBVIOUS
<1> USE DEF mainVars, rxVars, devVars
<1>0. TypeInv' /\ TypeInv /\ TypeOK
  BY TypeStep DEF LateInv, TypeInv
<1>1. CASE CmdEventfd
  <2>1. Returned' = Returned /\ Newest' = Newest /\ cmd' = cmd + 1
    BY <1>0, <1>1 DEF CmdEventfd, Returned, Newest, TypeOK
  <2>2. Newest \in Int
    BY <1>0 DEF Newest, TypeOK
  <2>3. ReadInOrder' /\ BoundedLag' /\ Failed' = Failed
    BY <1>1, <2>1, <2>2, ResultsStay DEF CmdEventfd, LateInv, ReadInOrder
  <2>4. QueuesInOrder'
    BY <1>1, <2>1 DEF CmdEventfd, LateInv, QueuesInOrder
  <2>5. NothingEarly'
    <3>1. /\ cmd \in Int
          /\ \A i \in 1..Len(wire) : wire[i] \in Int
          /\ \A j \in 1..Len(dev) : dev[j] \in Int
      <4>1. /\ \A i \in 1..Len(wire) : wire[i] \in Cmds
            /\ \A j \in 1..Len(dev) : dev[j] \in Cmds
        BY <1>0 DEF TypeOK
      <4> QED
        BY <1>0, <4>1 DEF TypeOK, Cmds
    <3> QED
      BY <1>1, <2>1, <2>2, <3>1 DEF CmdEventfd, LateInv, NothingEarly
  <2>6. FailuresCovered'
    BY <1>1, <2>1, <2>3 DEF CmdEventfd, LateInv, FailuresCovered, Notified, One
  <2> QED
    BY <1>0, <2>3, <2>4, <2>5, <2>6 DEF LateInv
<1>2. CASE Subscribe
  <2>1. Returned' = Returned /\ Newest' = Newest /\ (Notified' => Notified)
    BY <1>2 DEF Subscribe, Returned, Newest, Notified
  <2>2. Newest \in Int
    BY <1>0 DEF Newest, TypeOK
  <2>3. ReadInOrder' /\ BoundedLag' /\ Failed' = Failed
    BY <1>2, <2>1, <2>2, ResultsStay DEF Subscribe, LateInv, ReadInOrder
  <2>4. QueuesInOrder'
    BY <1>2, <2>1 DEF Subscribe, LateInv, QueuesInOrder
  <2>5. NothingEarly'
    BY <1>2, <2>1 DEF Subscribe, LateInv, NothingEarly
  <2>6. FailuresCovered'
    BY <1>0, <1>2, <2>1, <2>2, <2>3, FailedFinite
       DEF Subscribe, LateInv, FailuresCovered, One, Returned, TypeOK
  <2> QED
    BY <1>0, <2>3, <2>4, <2>5, <2>6 DEF LateInv
<1>3. CASE TxSend
  <2>1. Returned' = Returned /\ Newest' = Newest /\ (Notified' <=> Notified)
    BY <1>3 DEF TxSend, Returned, Newest, Notified
  <2>2. Newest \in Int /\ cmd \in Cmds
    BY <1>0, <1>3 DEF Newest, TypeInv, TypeOK, TxSend
  <2>3. ReadInOrder' /\ BoundedLag' /\ Failed' = Failed
    BY <1>3, <2>1, <2>2, ResultsStay DEF TxSend, LateInv, ReadInOrder
  <2>4. QueuesInOrder'
    <3>1. Newest < cmd
      BY <1>3 DEF TxSend, LateInv, NothingEarly
    <3> QED
      BY <1>0, <1>3, <2>1, <2>2, <3>1, AppendTo, RisingAppend
         DEF TxSend, LateInv, QueuesInOrder, NothingEarly, TypeOK
  <2>5. NothingEarly'
    BY <1>0, <1>3, <2>1, <2>2, AppendTo DEF TxSend, LateInv, NothingEarly, TypeOK, Cmds
  <2>6. FailuresCovered'
    BY <1>3, <2>1, <2>3 DEF TxSend, LateInv, FailuresCovered
  <2> QED
    BY <1>0, <2>3, <2>4, <2>5, <2>6 DEF LateInv
<1>4. CASE TxFail
  <2>1. cmd \in Cmds /\ Newest' = Newest
    BY <1>0, <1>4 DEF TxFail, ReturnFailed, TypeInv, Newest
  <2>2. ReadInOrder' /\ BoundedLag' /\ FailuresCovered'
    BY <1>4, <2>1, FailKeeps DEF TxFail, ReturnFailed
  <2>3. QueuesInOrder' /\ NothingEarly'
    BY <1>4, <2>1 DEF TxFail, ReturnFailed, LateInv, QueuesInOrder, NothingEarly
  <2> QED
    BY <1>0, <2>2, <2>3 DEF LateInv
<1>5. CASE Woken
  <2>1. Returned' = Returned /\ Newest' = Newest /\ (Notified' <=> Notified)
    BY <1>5 DEF Woken, Returned, Newest, Notified
  <2>2. Newest \in Int
    BY <1>0 DEF Newest, TypeOK
  <2>3. ReadInOrder' /\ BoundedLag' /\ Failed' = Failed
    BY <1>5, <2>1, <2>2, ResultsStay DEF Woken, LateInv, ReadInOrder
  <2>4. QueuesInOrder' /\ NothingEarly'
    BY <1>5, <2>1 DEF Woken, LateInv, QueuesInOrder, NothingEarly
  <2>5. FailuresCovered'
    BY <1>5, <2>1, <2>3 DEF Woken, LateInv, FailuresCovered
  <2> QED
    BY <1>0, <2>3, <2>4, <2>5 DEF LateInv
<1>6. CASE Timeout
  <2>1. cmd \in Cmds /\ Newest' = Newest
    BY <1>0, <1>6 DEF Timeout, ReturnFailed, TypeInv, Newest
  <2>2. ReadInOrder' /\ BoundedLag' /\ FailuresCovered'
    BY <1>6, <2>1, FailKeeps DEF Timeout, ReturnFailed
  <2>3. QueuesInOrder' /\ NothingEarly'
    BY <1>6, <2>1 DEF Timeout, ReturnFailed, LateInv, QueuesInOrder, NothingEarly
  <2> QED
    BY <1>0, <2>2, <2>3 DEF LateInv
<1>7. CASE ReadCrsp /\ rc' = [rc EXCEPT ![cmd] = "failed"] /\ UNCHANGED ans
  <2>1. cmd \in Cmds /\ pc = "read" /\ Newest' = Newest
    BY <1>0, <1>7 DEF ReadCrsp, TypeInv, Newest
  <2>2. ReadInOrder' /\ BoundedLag' /\ FailuresCovered'
    BY <1>7, <2>1, FailKeeps DEF ReadCrsp
  <2>3. QueuesInOrder' /\ NothingEarly'
    BY <1>7, <2>1 DEF ReadCrsp, LateInv, QueuesInOrder, NothingEarly
  <2> QED
    BY <1>0, <2>2, <2>3 DEF LateInv
<1>15. CASE ReadCrsp /\ ans' = [ans EXCEPT ![cmd] = g_crsp]
                    /\ rc' = [rc EXCEPT ![cmd] = "ok"]
  <2>1. /\ cmd \in Cmds /\ rc[cmd] = "none" /\ Newest' = Newest
        /\ Returned' = Returned + 1 /\ Returned = cmd - 1 /\ Notified /\ ~Notified'
    BY <1>0, <1>15 DEF ReadCrsp, TypeInv, Newest, Returned, Notified, LateInv, ReadInOrder,
       Cmds
  <2>2. Newest \in Int /\ g_crsp \in Int /\ g_crsp <= Newest /\ (g_crsp # 0 => g_crsp = Newest)
    BY <1>0 DEF Newest, TypeOK, LateInv, ReadInOrder
  <2>3. Failed' = Failed
    BY <1>0, <1>15, <2>1, NoMoreFailed DEF ReadCrsp
  <2>4. QueuesInOrder' /\ NothingEarly'
    BY <1>15, <2>1 DEF ReadCrsp, LateInv, QueuesInOrder, NothingEarly
  <2>5. FailuresCovered'
    BY <1>15, <2>1, <2>3 DEF ReadCrsp, LateInv, FailuresCovered, One, Cmds
  <2>6. ReadInOrder'
    BY <1>0, <1>15, <2>1, <2>2
       DEF ReadCrsp, LateInv, TypeOK, ReadInOrder, AnswersInOrder, Returned, Cmds
  <2>7. BoundedLag'
    <3> SUFFICES ASSUME NEW k \in Cmds, rc'[k] = "ok", ans'[k] # 0
                 PROVE  ans'[k] <= k /\ k - ans'[k] <= FailedBefore(k)'
      BY DEF BoundedLag
    <3>1. k <= cmd
      BY <1>0, <1>15, <2>1 DEF ReadCrsp, TypeOK, LateInv, ReadInOrder, Cmds
    <3>2. FailedBefore(k)' = FailedBefore(k)
      BY <1>0, <1>15, <3>1, FailedBeforeStays DEF ReadCrsp, TypeOK, Cmds
    <3>3. CASE k = cmd
      <4>1. ans'[k] = g_crsp /\ g_crsp = Newest
        BY <1>0, <1>15, <2>2, <3>3 DEF ReadCrsp, TypeOK
      <4>2. FailedBefore(k) = Cardinality(Failed)
        BY <1>0, <2>1, <3>3, AllFailedBefore DEF LateInv, ReadInOrder, Cmds
      <4>3. k - Newest <= Cardinality(Failed) /\ Newest <= k
        BY <1>15, <2>1, <2>2, <3>3, FailedFinite
           DEF LateInv, FailuresCovered, NothingEarly, One, Cmds
      <4> QED
        BY <3>2, <4>1, <4>2, <4>3
    <3>4. CASE k # cmd
      BY <1>0, <1>15, <3>2, <3>4 DEF ReadCrsp, TypeOK, LateInv, BoundedLag
    <3> QED
      BY <3>3, <3>4
  <2> QED
    BY <1>0, <2>4, <2>5, <2>6, <2>7 DEF LateInv
<1>8. CASE OpenFile \/ CloseFile
  <2>1. UNCHANGED <<pc, cmd, rc, ans, rx_pc, rx_ans, g_crsp, evt, dev, wire>>
    BY <1>8 DEF OpenFile, CloseFile
  <2> QED
    BY <1>0, <2>1 DEF LateInv, QueuesInOrder, NothingEarly, ReadInOrder, AnswersInOrder,
       FailuresCovered, BoundedLag, FailedBefore, Failed, Newest, Returned, Notified
<1>9. CASE RxTake
  <2>1. /\ Returned' = Returned /\ Newest' = Head(wire) /\ (Notified' <=> Notified)
        /\ Newest \in Int /\ Newest < Head(wire) /\ wire \in Seq(Cmds) /\ wire # <<>>
    BY <1>0, <1>9, TailOf DEF RxTake, Returned, Newest, Notified, LateInv, QueuesInOrder,
       TypeOK
  <2>2. Head(wire) \in Int
    BY <2>1, TailOf DEF Cmds
  <2>3. ReadInOrder' /\ BoundedLag' /\ Failed' = Failed
    BY <1>9, <2>1, <2>2, ResultsStay DEF RxTake
  <2>4. QueuesInOrder'
    BY <1>9, <2>1, TailOf, RisingTail DEF RxTake, LateInv, QueuesInOrder
  <2>5. NothingEarly'
    BY <1>9, <2>1, TailOf DEF RxTake, LateInv, NothingEarly
  <2>6. FailuresCovered'
    BY <1>0, <1>9, <2>1, <2>2, <2>3, FailedFinite
       DEF RxTake, LateInv, FailuresCovered, One, Returned, TypeOK
  <2> QED
    BY <1>0, <2>3, <2>4, <2>5, <2>6 DEF LateInv
<1>10. CASE RxCopied
  <2>1. Returned' = Returned /\ Newest' = Newest /\ (Notified' <=> Notified)
    BY <1>10 DEF RxCopied, Returned, Newest, Notified
  <2>2. Newest \in Int
    BY <1>0 DEF Newest, TypeOK
  <2>3. ReadInOrder' /\ BoundedLag' /\ Failed' = Failed
    BY <1>10, <2>1, <2>2, ResultsStay DEF RxCopied
  <2>4. QueuesInOrder' /\ NothingEarly'
    BY <1>10, <2>1 DEF RxCopied, LateInv, QueuesInOrder, NothingEarly
  <2>5. FailuresCovered'
    BY <1>10, <2>1, <2>3 DEF RxCopied, LateInv, FailuresCovered
  <2> QED
    BY <1>0, <2>3, <2>4, <2>5 DEF LateInv
<1>11. CASE RxNotify
  <2>1. Returned' = Returned /\ Newest' = Newest
    BY <1>11 DEF RxNotify, Returned, Newest
  <2>2. Newest \in Int
    BY <1>0 DEF Newest, TypeOK
  <2>3. ReadInOrder' /\ BoundedLag' /\ Failed' = Failed
    BY <1>11, <2>1, <2>2, ResultsStay DEF RxNotify
  <2>4. QueuesInOrder' /\ NothingEarly'
    BY <1>11, <2>1 DEF RxNotify, LateInv, QueuesInOrder, NothingEarly
  <2>5. FailuresCovered'
    BY <1>0, <1>11, <2>1, <2>2, <2>3, FailedFinite
       DEF RxNotify, LateInv, FailuresCovered, One, Returned, TypeOK
  <2> QED
    BY <1>0, <2>3, <2>4, <2>5 DEF LateInv
<1>12. CASE RxTtyError
  <2>1. /\ Returned' = Returned /\ Newest' = Newest /\ (Notified' <=> Notified)
        /\ wire' = <<>> /\ Len(wire') = 0
    BY <1>12 DEF RxTtyError, Returned, Newest, Notified
  <2>2. Newest \in Int
    BY <1>0 DEF Newest, TypeOK
  <2>3. ReadInOrder' /\ BoundedLag' /\ Failed' = Failed
    BY <1>12, <2>1, <2>2, ResultsStay DEF RxTtyError, LateInv, ReadInOrder
  <2>4. QueuesInOrder' /\ NothingEarly'
    BY <1>12, <2>1 DEF RxTtyError, LateInv, QueuesInOrder, NothingEarly, Rising
  <2>5. FailuresCovered'
    BY <1>12, <2>1, <2>3 DEF RxTtyError, LateInv, FailuresCovered
  <2> QED
    BY <1>0, <2>3, <2>4, <2>5 DEF LateInv
<1>13. CASE DevStep
  <2>1. /\ Returned' = Returned /\ Newest' = Newest /\ (Notified' <=> Notified)
        /\ dev \in Seq(Cmds) /\ dev # <<>> /\ wire \in Seq(Cmds)
    BY <1>0, <1>13 DEF DevStep, DevAnswer, DevLose, Returned, Newest, Notified, TypeOK
  <2>2. Newest \in Int
    BY <1>0 DEF Newest, TypeOK
  <2>3. ReadInOrder' /\ BoundedLag' /\ Failed' = Failed
    BY <1>13, <2>1, <2>2, ResultsStay DEF DevStep, DevAnswer, DevLose, LateInv, ReadInOrder
  <2>4. FailuresCovered'
    BY <1>13, <2>1, <2>3 DEF DevStep, DevAnswer, DevLose, LateInv, FailuresCovered, One
  <2>5. CASE DevAnswer
    <3>1. wire' = Append(wire, Head(dev)) /\ dev' = Tail(dev) /\ UNCHANGED <<pc, cmd>>
      BY <2>5 DEF DevAnswer
    <3>2. \A i \in 1..Len(wire) : wire[i] < Head(dev)
      BY <2>1, TailOf DEF LateInv, QueuesInOrder
    <3>3. Rising(wire') /\ Rising(dev')
      BY <2>1, <3>1, <3>2, TailOf, RisingTail, RisingAppend DEF LateInv, QueuesInOrder
    <3>4. /\ \A i \in 1..Len(wire') :
                (i \in 1..Len(wire) /\ wire'[i] = wire[i]) \/ wire'[i] = dev[1]
          /\ \A j \in 1..Len(dev') : dev'[j] = dev[j + 1] /\ j + 1 \in 1..Len(dev)
          /\ \A j \in 1..Len(dev') : dev[1] < dev'[j]
          /\ 1 \in 1..Len(dev)
      BY <2>1, <3>1, TailOf, AppendTo, RisingTail DEF LateInv, QueuesInOrder
    <3>5. QueuesInOrder'
      BY <2>1, <3>3, <3>4 DEF LateInv, QueuesInOrder
    <3>6. NothingEarly'
      BY <2>1, <3>1, <3>4 DEF LateInv, NothingEarly
    <3> QED
      BY <1>0, <2>3, <2>4, <3>5, <3>6 DEF LateInv
  <2>6. CASE DevLose
    <3>1. dev' = Tail(dev) /\ UNCHANGED <<wire, pc, cmd>>
      BY <2>6 DEF DevLose
    <3>2. QueuesInOrder'
      BY <2>1, <3>1, TailOf, RisingTail DEF LateInv, QueuesInOrder
    <3>3. NothingEarly'
      BY <2>1, <3>1, TailOf DEF LateInv, NothingEarly
    <3> QED
      BY <1>0, <2>3, <2>4, <3>2, <3>3 DEF LateInv
  <2> QED
    BY <1>13, <2>5, <2>6 DEF DevStep
<1>14. CASE UNCHANGED vars
  BY <1>0, <1>14 DEF vars, LateInv, QueuesInOrder, NothingEarly, ReadInOrder, AnswersInOrder,
     FailuresCovered, BoundedLag, FailedBefore, Failed, Newest, Returned, Notified
<1> QED
  BY <1>1, <1>2, <1>3, <1>4, <1>5, <1>6, <1>7, <1>8, <1>9, <1>10, <1>11, <1>12, <1>13,
     <1>14, <1>15 DEF Next, MainStep, CallStep, ReadCrsp, RxStep

\* The inductive invariant holds of every run.
THEOREM LateInvariant == Spec => []LateInv
BY LateInit, LateStep, PTL DEF Spec

\* What successful commands read comes in the order of the commands it answers,
\* however late the answers are and whatever is lost: never an older answer after
\* a newer one, though one may be read twice.
THEOREM LateInOrder == Spec => []AnswersInOrder
<1>1. LateInv => AnswersInOrder
  BY DEF LateInv, ReadInOrder
<1> QED
  BY <1>1, LateInvariant, PTL

\* No answer is read before its command is sent, and one that is out of step is
\* so by at most the number of the commands that failed before it.
THEOREM LateBoundedLag == Spec => []BoundedLag
<1>1. LateInv => BoundedLag
  BY DEF LateInv
<1> QED
  BY <1>1, LateInvariant, PTL

=============================================================================
