-------------------------- MODULE ICtrlCmd_proofs --------------------------
(***************************************************************************)
(* What holds of the command layer for every number of commands and every  *)
(* descriptor table when the microcontroller answers within the 50 ms of   *)
(* the caller's select(), or not at all.                                   *)
(***************************************************************************)
EXTENDS ICtrlCmd, TLAPS

\* The answer in flight is the one the waiting call is waiting for.
OneInFlight ==
    /\ dev \in {<<>>, <<cmd>>}
    /\ wire \in {<<>>, <<cmd>>}
    /\ rx_pc # "idle" => rx_ans = cmd /\ dev = <<>> /\ wire = <<>>
    /\ dev = <<>> \/ wire = <<>>
    /\ InFlight => pc = "wait" /\ evt = "quiet"

\* The descriptor of the call in progress is an eventfd, and registered.
OwnEvent ==
    /\ pc \in {"subscribe", "tx", "wait"}
           => fd_evt_crsp \in Fds /\ fdt[fd_evt_crsp] = "event"
    /\ pc \in {"tx", "wait"} => resp_fd_evt = fd_evt_crsp
    /\ pc \in {"subscribe", "tx"} => evt = "quiet"

\* Whoever has been notified finds his own answer in the buffer.
OwnBuffer ==
    /\ rx_pc = "notify" => g_crsp = cmd
    /\ pc = "wait" /\ evt = "ready" => g_crsp = cmd
    /\ pc = "read" => g_crsp = cmd

\* A call nobody will answer any more is one whose command or answer was lost.
WaitsInVain == pc = "wait" /\ evt = "quiet" /\ ~InFlight => cmd \in lost

\* Calls return in turn, successful ones with their own answer.
CallsInTurn ==
    /\ pc # "idle" => cmd \in Cmds
    /\ \A k \in Cmds : k > cmd => rc[k] = "none"
    /\ \A k \in Cmds : k < cmd => rc[k] # "none"
    /\ cmd \in Cmds => (rc[cmd] = "none" <=> pc # "idle")
    /\ \A k \in Cmds : ans[k] = IF rc[k] = "ok" THEN k ELSE 0

IInv == /\ TypeOK
        /\ OneInFlight
        /\ OwnEvent
        /\ OwnBuffer
        /\ WaitsInVain
        /\ CallsInTurn
        /\ FailsOnlyWhenLost

-----------------------------------------------------------------------------
(* Type correctness, whatever the microcontroller does. *)

USE NumCmdsAssumption, FdsAssumption, SwitchAssumption

\* A call is never in progress without the descriptor and the number it needs;
\* what the typing of its return path rests on.
TypeInv == /\ TypeOK
           /\ pc # "idle" => cmd \in Cmds
           /\ pc \in {"subscribe", "tx", "wait"} => fd_evt_crsp \in Fds

\* reedl_ictrl_serial_init() leaves every variable with its type.
LEMMA TypeInit == Init => TypeInv
BY DEF Init, TypeInv, TypeOK, Cmds, NoFd

\* Every step of either thread and of the microcontroller keeps the types.
LEMMA TypeStep == TypeInv /\ [Next]_vars => TypeInv'
<1> USE DEF mainVars, rxVars, devVars, NoFd
<1> SUFFICES ASSUME TypeInv, [Next]_vars PROVE TypeInv'
  OBVIOUS
<1>1. CASE CmdEventfd
  BY <1>1 DEF TypeInv, TypeOK, Cmds, CmdEventfd, Open, LowestFree
<1>2. CASE Subscribe
  BY <1>2 DEF TypeInv, TypeOK, Subscribe
<1>3. CASE TxSend
  BY <1>3 DEF TypeInv, TypeOK, TxSend
<1>4. CASE TxFail
  BY <1>4 DEF TypeInv, TypeOK, TxFail, ReturnFailed
<1>5. CASE Woken
  BY <1>5 DEF TypeInv, TypeOK, Woken
<1>6. CASE Timeout
  BY <1>6 DEF TypeInv, TypeOK, Timeout, ReturnFailed
<1>7. CASE ReadCrsp
  BY <1>7 DEF TypeInv, TypeOK, ReadCrsp
<1>8. CASE OpenFile
  BY <1>8 DEF TypeInv, TypeOK, OpenFile, Open, LowestFree
<1>9. CASE CloseFile
  BY <1>9 DEF TypeInv, TypeOK, CloseFile, Files
<1>10. CASE RxTake
  BY <1>10 DEF TypeInv, TypeOK, RxTake, Cmds
<1>11. CASE RxCopied
  BY <1>11 DEF TypeInv, TypeOK, RxCopied
<1>12. CASE RxNotify
  BY <1>12 DEF TypeInv, TypeOK, RxNotify
<1>13. CASE RxTtyError
  <2>1. Range(wire) \subseteq Cmds
    BY DEF TypeInv, TypeOK, Range
  <2>2. wire' \in Seq(Cmds) /\ lost' \subseteq Cmds
    BY <1>13, <2>1 DEF TypeInv, TypeOK, RxTtyError
  <2> QED
    BY <1>13, <2>2 DEF TypeInv, TypeOK, RxTtyError
<1>14. CASE DevAnswer
  BY <1>14 DEF TypeInv, TypeOK, DevAnswer
<1>15. CASE DevLose
  <2>1. Head(dev) \in Cmds /\ Tail(dev) \in Seq(Cmds)
    BY <1>15 DEF TypeInv, TypeOK, DevLose
  <2>2. lost' \subseteq Cmds
    BY <1>15, <2>1 DEF TypeInv, TypeOK, DevLose
  <2> QED
    BY <1>15, <2>1, <2>2 DEF TypeInv, TypeOK, DevLose
<1>16. CASE UNCHANGED vars
  BY <1>16 DEF TypeInv, TypeOK, vars
<1> QED
  BY <1>1, <1>2, <1>3, <1>4, <1>5, <1>6, <1>7, <1>8, <1>9, <1>10, <1>11,
     <1>12, <1>13, <1>14, <1>15, <1>16
     DEF Next, MainStep, CallStep, RxStep, DevStep

\* Every variable keeps its type, with any microcontroller and any build.
THEOREM TypeCorrect == Spec => []TypeOK
<1>1. Spec => []TypeInv
  BY TypeInit, TypeStep, PTL DEF Spec
<1>2. TypeInv => TypeOK
  BY DEF TypeInv
<1> QED
  BY <1>1, <1>2, PTL

-----------------------------------------------------------------------------
(* Answers that come in time. *)

Timely == LateAnswers = FALSE

\* A queue with one command in it.
LEMMA OneAnswer ==
    ASSUME NEW a \in Cmds
    PROVE  /\ Append(<<>>, a) = <<a>>
           /\ <<a>> # <<>>
           /\ Head(<<a>>) = a
           /\ Tail(<<a>>) = <<>>
           /\ Range(<<a>>) = {a}
BY DEF Range

\* At the start nothing is in flight.
LEMMA TimelyInit == Init => IInv
BY TypeInit DEF Init, IInv, TypeInv, OneInFlight, InFlight, OwnEvent, OwnBuffer,
   WaitsInVain, CallsInTurn, FailsOnlyWhenLost, Cmds

\* With timely answers every step keeps the answer in flight the caller's own.
LEMMA TimelyStep == Timely /\ IInv /\ [Next]_vars => IInv'
<1> SUFFICES ASSUME Timely, IInv, [Next]_vars PROVE IInv'
  OBVIOUS
<1> USE DEF mainVars, rxVars, devVars
<1>0. TypeOK'
  <2>1. TypeInv
    BY DEF IInv, TypeInv, OwnEvent, CallsInTurn
  <2> QED
    BY <2>1, TypeStep DEF TypeInv
<1>1. CASE CmdEventfd
  <2>1. OneInFlight'
    BY <1>1 DEF IInv, OneInFlight, InFlight, CmdEventfd
  <2>2. OwnEvent'
    BY <1>1 DEF IInv, TypeOK, OwnEvent, CmdEventfd, Open
  <2>3. OwnBuffer'
    BY <1>1 DEF IInv, OneInFlight, InFlight, OwnBuffer, CmdEventfd
  <2>4. WaitsInVain'
    BY <1>1 DEF WaitsInVain, CmdEventfd
  <2>5. CallsInTurn'
    BY <1>1 DEF IInv, TypeOK, CallsInTurn, CmdEventfd, Cmds
  <2>6. FailsOnlyWhenLost'
    BY <1>1 DEF IInv, FailsOnlyWhenLost, CmdEventfd
  <2> QED
    BY <1>0, <2>1, <2>2, <2>3, <2>4, <2>5, <2>6 DEF IInv
<1>2. CASE Subscribe
  <2>1. OneInFlight'
    BY <1>2 DEF IInv, OneInFlight, InFlight, Subscribe
  <2>2. OwnEvent'
    BY <1>2 DEF IInv, OwnEvent, Subscribe
  <2>3. OwnBuffer'
    BY <1>2 DEF IInv, OwnBuffer, Subscribe
  <2>4. WaitsInVain'
    BY <1>2 DEF WaitsInVain, Subscribe
  <2>5. CallsInTurn'
    BY <1>2 DEF IInv, CallsInTurn, Subscribe
  <2>6. FailsOnlyWhenLost'
    BY <1>2 DEF IInv, FailsOnlyWhenLost, Subscribe
  <2> QED
    BY <1>0, <2>1, <2>2, <2>3, <2>4, <2>5, <2>6 DEF IInv
<1>3. CASE TxSend
  <2>1. OneInFlight'
    BY <1>3, OneAnswer DEF IInv, OneInFlight, InFlight, OwnEvent, CallsInTurn,
       TxSend
  <2>2. OwnEvent'
    BY <1>3 DEF IInv, OwnEvent, TxSend
  <2>3. OwnBuffer'
    BY <1>3 DEF IInv, OwnEvent, OwnBuffer, TxSend
  <2>4. WaitsInVain'
    BY <1>3 DEF InFlight, WaitsInVain, TxSend
  <2>5. CallsInTurn'
    BY <1>3 DEF IInv, CallsInTurn, TxSend
  <2>6. FailsOnlyWhenLost'
    BY <1>3 DEF IInv, FailsOnlyWhenLost, TxSend
  <2> QED
    BY <1>0, <2>1, <2>2, <2>3, <2>4, <2>5, <2>6 DEF IInv
<1>4. CASE TxFail
  <2>1. OneInFlight'
    BY <1>4 DEF IInv, OneInFlight, InFlight, TxFail
  <2>2. OwnEvent'
    BY <1>4 DEF OwnEvent, TxFail, ReturnFailed
  <2>3. OwnBuffer'
    BY <1>4 DEF IInv, OwnBuffer, TxFail, ReturnFailed
  <2>4. WaitsInVain'
    BY <1>4 DEF WaitsInVain, TxFail
  <2>5. CallsInTurn'
    BY <1>4 DEF IInv, TypeOK, CallsInTurn, TxFail, ReturnFailed
  <2>6. FailsOnlyWhenLost'
    BY <1>4 DEF IInv, FailsOnlyWhenLost, TxFail, ReturnFailed
  <2> QED
    BY <1>0, <2>1, <2>2, <2>3, <2>4, <2>5, <2>6 DEF IInv
<1>5. CASE Woken
  <2>1. OneInFlight'
    BY <1>5 DEF IInv, OneInFlight, InFlight, Woken
  <2>2. OwnEvent'
    BY <1>5 DEF OwnEvent, Woken
  <2>3. OwnBuffer'
    BY <1>5 DEF IInv, OwnBuffer, Woken
  <2>4. WaitsInVain'
    BY <1>5 DEF WaitsInVain, Woken
  <2>5. CallsInTurn'
    BY <1>5 DEF IInv, CallsInTurn, Woken
  <2>6. FailsOnlyWhenLost'
    BY <1>5 DEF IInv, FailsOnlyWhenLost, Woken
  <2> QED
    BY <1>0, <2>1, <2>2, <2>3, <2>4, <2>5, <2>6 DEF IInv
<1>6. CASE Timeout
  <2>1. OneInFlight'
    BY <1>6 DEF OneInFlight, InFlight, Timeout, Timely
  <2>2. OwnEvent'
    BY <1>6 DEF OwnEvent, Timeout, ReturnFailed
  <2>3. OwnBuffer'
    BY <1>6 DEF InFlight, OwnBuffer, Timeout, ReturnFailed, Timely
  <2>4. WaitsInVain'
    BY <1>6 DEF WaitsInVain, Timeout, ReturnFailed
  <2>5. CallsInTurn'
    BY <1>6 DEF IInv, TypeOK, CallsInTurn, Timeout, ReturnFailed
  <2>6. FailsOnlyWhenLost'
    BY <1>6 DEF IInv, WaitsInVain, FailsOnlyWhenLost, Timeout, ReturnFailed,
       Timely
  <2> QED
    BY <1>0, <2>1, <2>2, <2>3, <2>4, <2>5, <2>6 DEF IInv
<1>7. CASE ReadCrsp
  <2>1. OneInFlight'
    BY <1>7 DEF IInv, OneInFlight, InFlight, ReadCrsp
  <2>2. OwnEvent'
    BY <1>7 DEF OwnEvent, ReadCrsp
  <2>3. OwnBuffer'
    BY <1>7 DEF IInv, OwnBuffer, ReadCrsp
  <2>4. WaitsInVain'
    BY <1>7 DEF WaitsInVain, ReadCrsp
  <2>5. CallsInTurn'
    BY <1>7 DEF IInv, TypeOK, OwnBuffer, CallsInTurn, ReadCrsp
  <2>6. FailsOnlyWhenLost'
    BY <1>7 DEF IInv, TypeOK, OwnBuffer, FailsOnlyWhenLost, ReadCrsp
  <2> QED
    BY <1>0, <2>1, <2>2, <2>3, <2>4, <2>5, <2>6 DEF IInv
<1>8. CASE OpenFile
  <2>1. OneInFlight'
    BY <1>8 DEF IInv, OneInFlight, InFlight, OpenFile
  <2>2. OwnEvent'
    BY <1>8 DEF OwnEvent, OpenFile
  <2>3. OwnBuffer'
    BY <1>8 DEF IInv, OwnBuffer, OpenFile
  <2>4. WaitsInVain'
    BY <1>8 DEF WaitsInVain, OpenFile
  <2>5. CallsInTurn'
    BY <1>8 DEF IInv, CallsInTurn, OpenFile
  <2>6. FailsOnlyWhenLost'
    BY <1>8 DEF IInv, FailsOnlyWhenLost, OpenFile
  <2> QED
    BY <1>0, <2>1, <2>2, <2>3, <2>4, <2>5, <2>6 DEF IInv
<1>9. CASE CloseFile
  <2>1. OneInFlight'
    BY <1>9 DEF IInv, OneInFlight, InFlight, CloseFile
  <2>2. OwnEvent'
    BY <1>9 DEF OwnEvent, CloseFile
  <2>3. OwnBuffer'
    BY <1>9 DEF IInv, OwnBuffer, CloseFile
  <2>4. WaitsInVain'
    BY <1>9 DEF WaitsInVain, CloseFile
  <2>5. CallsInTurn'
    BY <1>9 DEF IInv, CallsInTurn, CloseFile
  <2>6. FailsOnlyWhenLost'
    BY <1>9 DEF IInv, FailsOnlyWhenLost, CloseFile
  <2> QED
    BY <1>0, <2>1, <2>2, <2>3, <2>4, <2>5, <2>6 DEF IInv
<1>10. CASE RxTake
  <2>1. OneInFlight'
    BY <1>10, OneAnswer DEF IInv, OneInFlight, InFlight, CallsInTurn, RxTake
  <2>2. OwnEvent'
    BY <1>10 DEF IInv, OwnEvent, RxTake
  <2>3. OwnBuffer'
    BY <1>10 DEF IInv, OneInFlight, InFlight, OwnBuffer, RxTake
  <2>4. WaitsInVain'
    BY <1>10 DEF InFlight, WaitsInVain, RxTake
  <2>5. CallsInTurn'
    BY <1>10 DEF IInv, CallsInTurn, RxTake
  <2>6. FailsOnlyWhenLost'
    BY <1>10 DEF IInv, FailsOnlyWhenLost, RxTake
  <2> QED
    BY <1>0, <2>1, <2>2, <2>3, <2>4, <2>5, <2>6 DEF IInv
<1>11. CASE RxCopied
  <2>1. OneInFlight'
    BY <1>11 DEF IInv, OneInFlight, InFlight, RxCopied
  <2>2. OwnEvent'
    BY <1>11 DEF IInv, OwnEvent, RxCopied
  <2>3. OwnBuffer'
    BY <1>11 DEF IInv, OneInFlight, OwnBuffer, RxCopied
  <2>4. WaitsInVain'
    BY <1>11 DEF InFlight, WaitsInVain, RxCopied
  <2>5. CallsInTurn'
    BY <1>11 DEF IInv, CallsInTurn, RxCopied
  <2>6. FailsOnlyWhenLost'
    BY <1>11 DEF IInv, FailsOnlyWhenLost, RxCopied
  <2> QED
    BY <1>0, <2>1, <2>2, <2>3, <2>4, <2>5, <2>6 DEF IInv
<1>12. CASE RxNotify
  <2>1. OneInFlight'
    BY <1>12 DEF IInv, OneInFlight, InFlight, RxNotify
  <2>2. OwnEvent'
    BY <1>12 DEF IInv, OneInFlight, InFlight, OwnEvent, RxNotify
  <2>3. OwnBuffer'
    BY <1>12 DEF IInv, OwnBuffer, RxNotify
  <2>4. WaitsInVain'
    BY <1>12 DEF IInv, OwnEvent, WaitsInVain, RxNotify
  <2>5. CallsInTurn'
    BY <1>12 DEF IInv, CallsInTurn, RxNotify
  <2>6. FailsOnlyWhenLost'
    BY <1>12 DEF IInv, FailsOnlyWhenLost, RxNotify
  <2> QED
    BY <1>0, <2>1, <2>2, <2>3, <2>4, <2>5, <2>6 DEF IInv
<1>13. CASE RxTtyError
  <2>1. OneInFlight'
    BY <1>13, OneAnswer DEF IInv, OneInFlight, InFlight, RxTtyError
  <2>2. OwnEvent'
    BY <1>13 DEF IInv, OwnEvent, RxTtyError
  <2>3. OwnBuffer'
    BY <1>13 DEF IInv, OwnBuffer, RxTtyError
  <2>4. WaitsInVain'
    BY <1>13, OneAnswer DEF IInv, OneInFlight, InFlight, WaitsInVain, CallsInTurn,
       RxTtyError
  <2>5. CallsInTurn'
    BY <1>13 DEF IInv, CallsInTurn, RxTtyError
  <2>6. FailsOnlyWhenLost'
    BY <1>13 DEF IInv, FailsOnlyWhenLost, RxTtyError
  <2> QED
    BY <1>0, <2>1, <2>2, <2>3, <2>4, <2>5, <2>6 DEF IInv
<1>14. CASE DevAnswer
  <2>1. OneInFlight'
    BY <1>14, OneAnswer DEF IInv, OneInFlight, InFlight, CallsInTurn, DevAnswer
  <2>2. OwnEvent'
    BY <1>14 DEF IInv, OwnEvent, DevAnswer
  <2>3. OwnBuffer'
    BY <1>14 DEF IInv, OwnBuffer, DevAnswer
  <2>4. WaitsInVain'
    BY <1>14 DEF InFlight, WaitsInVain, DevAnswer
  <2>5. CallsInTurn'
    BY <1>14 DEF IInv, CallsInTurn, DevAnswer
  <2>6. FailsOnlyWhenLost'
    BY <1>14 DEF IInv, FailsOnlyWhenLost, DevAnswer
  <2> QED
    BY <1>0, <2>1, <2>2, <2>3, <2>4, <2>5, <2>6 DEF IInv
<1>15. CASE DevLose
  <2>1. OneInFlight'
    BY <1>15, OneAnswer DEF IInv, OneInFlight, InFlight, CallsInTurn, DevLose
  <2>2. OwnEvent'
    BY <1>15 DEF IInv, OwnEvent, DevLose
  <2>3. OwnBuffer'
    BY <1>15 DEF IInv, OwnBuffer, DevLose
  <2>4. WaitsInVain'
    BY <1>15 DEF IInv, OneInFlight, WaitsInVain, DevLose
  <2>5. CallsInTurn'
    BY <1>15 DEF IInv, CallsInTurn, DevLose
  <2>6. FailsOnlyWhenLost'
    BY <1>15 DEF IInv, FailsOnlyWhenLost, DevLose
  <2> QED
    BY <1>0, <2>1, <2>2, <2>3, <2>4, <2>5, <2>6 DEF IInv
<1>16. CASE UNCHANGED vars
  BY <1>16 DEF IInv, TypeOK, OneInFlight, InFlight, OwnEvent, OwnBuffer,
     WaitsInVain, CallsInTurn, FailsOnlyWhenLost, vars
<1> QED
  BY <1>1, <1>2, <1>3, <1>4, <1>5, <1>6, <1>7, <1>8, <1>9, <1>10, <1>11,
     <1>12, <1>13, <1>14, <1>15, <1>16
     DEF Next, MainStep, CallStep, RxStep, DevStep

\* The inductive invariant holds of every run with timely answers.
THEOREM TimelyInvariant == ASSUME Timely PROVE Spec => []IInv
<1>1. IInv /\ [Next]_vars => IInv'
  BY TimelyStep
<1> QED
  BY <1>1, TimelyInit, PTL DEF Spec

\* With timely answers a command fails only when its answer will never come.
THEOREM NoSpuriousFailure == ASSUME Timely PROVE Spec => []FailsOnlyWhenLost
<1>1. IInv => FailsOnlyWhenLost
  BY DEF IInv
<1> QED
  BY <1>1, TimelyInvariant, PTL

\* With timely answers the receiver writes the response buffer only for a call
\* that waits for it, though it never unsubscribes one that has returned.
THEOREM NoCopyUnderReader == ASSUME Timely PROVE Spec => []CopyOnlyWhileSubscribed
<1>1. IInv => CopyOnlyWhileSubscribed
  BY DEF IInv, OneInFlight, InFlight, CopyOnlyWhileSubscribed
<1> QED
  BY <1>1, TimelyInvariant, PTL

\* With timely answers a reused descriptor number is never notified as a file.
THEOREM NoForeignNotify == ASSUME Timely PROVE Spec => []NeverNotifiesFile
<1>1. IInv => NeverNotifiesFile
  BY DEF IInv, OneInFlight, InFlight, OwnEvent, NeverNotifiesFile
<1> QED
  BY <1>1, TimelyInvariant, PTL

-----------------------------------------------------------------------------
(* The command layer implements calls. *)

\* The command layer starts with no call made.
LEMMA CallsInit == Init => Abstract!Init
BY DEF Init, Abstract!Init, CallOutcome, Cmds, Abstract!Cmds

\* A step that neither issues a command nor returns from one is a stutter.
LEMMA SameOutcome ==
    ASSUME UNCHANGED <<cmd, rc, ans>>, pc' # "idle" <=> pc # "idle"
    PROVE  UNCHANGED Abstract!vars
BY DEF Abstract!vars, CallOutcome, Cmds

\* Every step of the command layer is a step of the calls, or a stutter.
LEMMA CallsStep ==
    ASSUME IInv, IInv', [Next]_vars
    PROVE  [Abstract!Next]_Abstract!vars
<1> USE DEF mainVars, rxVars, devVars
<1>1. CASE CmdEventfd
  <2>1. cmd + 1 \in Cmds /\ cmd' = cmd + 1
    BY <1>1 DEF CmdEventfd, IInv, TypeOK, Cmds
  <2>2. CallOutcome[cmd + 1] = "new"
    BY <1>1, <2>1 DEF CmdEventfd, CallOutcome, IInv, TypeOK, CallsInTurn
  <2>3. ASSUME NEW j \in Cmds, j < cmd + 1
        PROVE  CallOutcome[j] \in {"ok", "failed"}
    BY <1>1, <2>1, <2>3 DEF CmdEventfd, CallOutcome, IInv, TypeOK, CallsInTurn,
       Cmds
  <2>4. CallOutcome' = [CallOutcome EXCEPT ![cmd + 1] = "open"]
    <3>1. ASSUME NEW j \in Cmds
          PROVE  CallOutcome'[j] = IF j = cmd + 1 THEN "open" ELSE CallOutcome[j]
      BY <1>1, <2>1, <2>2 DEF CmdEventfd, CallOutcome, Cmds
    <3> QED
      BY <3>1 DEF CallOutcome
  <2>5. Abstract!Issue(cmd + 1)
    BY <1>1, <2>2, <2>3, <2>4 DEF CmdEventfd, Abstract!Issue, Cmds,
       Abstract!Cmds
  <2> QED
    BY <2>1, <2>5 DEF Abstract!Next, Cmds, Abstract!Cmds
<1>2. CASE TxFail \/ Timeout
  <2>1. cmd \in Cmds /\ pc # "idle"
    BY <1>2 DEF TxFail, Timeout, IInv, CallsInTurn
  <2>2. Abstract!Fail(cmd)
    BY <1>2, <2>1 DEF TxFail, Timeout, ReturnFailed, Abstract!Fail, CallOutcome,
       IInv, TypeOK, Cmds
  <2> QED
    BY <2>1, <2>2 DEF Abstract!Next, Cmds, Abstract!Cmds
<1>3. CASE ReadCrsp
  <2>1. cmd \in Cmds /\ g_crsp = cmd
    BY <1>3 DEF ReadCrsp, IInv, CallsInTurn, OwnBuffer
  <2>2. Abstract!Succeed(cmd)
    BY <1>3, <2>1 DEF ReadCrsp, Abstract!Succeed, CallOutcome, IInv, TypeOK,
       Cmds
  <2> QED
    BY <2>1, <2>2 DEF Abstract!Next, Cmds, Abstract!Cmds
<1>4. CASE Subscribe
  BY <1>4, SameOutcome DEF Subscribe
<1>5. CASE TxSend
  BY <1>5, SameOutcome DEF TxSend
<1>6. CASE Woken
  BY <1>6, SameOutcome DEF Woken
<1>7. CASE OpenFile \/ CloseFile
  BY <1>7, SameOutcome DEF OpenFile, CloseFile
<1>8. CASE RxStep \/ RxTtyError
  BY <1>8, SameOutcome DEF RxStep, RxTake, RxCopied, RxNotify, RxTtyError
<1>9. CASE DevStep
  BY <1>9, SameOutcome DEF DevStep, DevAnswer, DevLose
<1>10. CASE UNCHANGED vars
  BY <1>10, SameOutcome DEF vars
<1> QED
  BY <1>1, <1>2, <1>3, <1>4, <1>5, <1>6, <1>7, <1>8, <1>9, <1>10
     DEF Next, MainStep, CallStep

\* With timely answers every successful command returns its own answer and
\* commands are made and answered one at a time: the safety half of
\* ImplementsCalls, for any number of commands and any descriptor table.
THEOREM TimelyCalls == ASSUME Timely PROVE Spec => Abstract!Spec
<1>1. IInv /\ IInv' /\ [Next]_vars => [Abstract!Next]_Abstract!vars
  BY CallsStep
<1> QED
  BY <1>1, CallsInit, TimelyInvariant, PTL DEF Spec, Abstract!Spec

=============================================================================
