------------------------------ MODULE CmdCall ------------------------------
(***************************************************************************)
(* What reedl-ictrl-cmd.h offers the rest of the program: commands to the  *)
(* microcontroller are calls.  One call is made at a time, it returns, and *)
(* a call that returns success hands its caller the microcontroller's      *)
(* answer to that very command.                                            *)
(***************************************************************************)
EXTENDS Integers

CONSTANT NumCmds        \* the number of commands the program issues

Cmds == 1..NumCmds

VARIABLES
    call,               \* the outcome of every call
    got                 \* the command whose answer the caller of k read; 0: none

vars == <<call, got>>

Init == /\ call = [k \in Cmds |-> "new"]
        /\ got = [k \in Cmds |-> 0]

Issue(k) == /\ call[k] = "new"
            /\ \A j \in Cmds : j < k => call[j] \in {"ok", "failed"}
            /\ call' = [call EXCEPT ![k] = "open"]
            /\ UNCHANGED got

Succeed(k) == /\ call[k] = "open"
              /\ call' = [call EXCEPT ![k] = "ok"]
              /\ got' = [got EXCEPT ![k] = k]

Fail(k) == /\ call[k] = "open"
           /\ call' = [call EXCEPT ![k] = "failed"]
           /\ UNCHANGED got

Next == \E k \in Cmds : Issue(k) \/ Succeed(k) \/ Fail(k)

\* Only the return of a call is owed: the program need not issue another one.
Fairness == \A k \in Cmds : WF_vars(Succeed(k) \/ Fail(k))

Spec == Init /\ [][Next]_vars

FairSpec == Spec /\ Fairness
=============================================================================
