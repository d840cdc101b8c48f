------------------------------ MODULE ICtrlCmd ------------------------------
(***************************************************************************)
(* The command / response layer between the program and the ICTRL          *)
(* microcontroller: reedl_ictrl_cmd() of reedl-ictrl-cmd.c on the main     *)
(* thread, the command-response handler of reedl-ictrl.c on the receiver   *)
(* thread, the eventfd and the response buffer they share, the tty between *)
(* them and the microcontroller, and the microcontroller itself, known     *)
(* from how the program uses it: it executes commands in order and gives   *)
(* each at most one answer.                                                *)
(*                                                                         *)
(* An answer is named by the number of the command it answers; 0 stands    *)
(* for a response buffer that is being overwritten.                        *)
(***************************************************************************)
EXTENDS Integers, Sequences, FiniteSets, Functions

CONSTANTS
    NumCmds,        \* the number of commands the main thread issues
    Fds,            \* descriptor numbers eventfd() and fopen() can return
    MaxFiles,       \* bound: files open at a time (the algorithm and data files)
    NDEBUG,         \* is assert() compiled out?
    LateAnswers     \* may an answer arrive after the 50 ms of its select()?

ASSUME NumCmdsAssumption == NumCmds \in Nat
ASSUME FdsAssumption == Fds \subseteq Nat
ASSUME SwitchAssumption == NDEBUG \in BOOLEAN /\ LateAnswers \in BOOLEAN

Cmds == 1..NumCmds
NoFd == -1

VARIABLES
    \* the main thread
    pc,             \* where it is in reedl_ictrl_cmd() and its callers
    cmd,            \* the command being executed, or the last one
    fd_evt_crsp,    \* the local variable
    rc,             \* what the call of each command has returned
    ans,            \* the answer the caller of each command has read
    \* the receiver thread
    rx_pc,          \* where it is in the handler of a command response
    rx_ans,         \* the answer it is handling
    \* shared by the two
    resp_fd_evt,    \* resp->fd_evt of the command-response stream
    g_crsp,         \* the response buffer
    fd_tty,         \* the serial port
    fdt,            \* the process's descriptor table
    evt,            \* is the counter of the open eventfd above zero?
    \* outside the process
    dev,            \* commands the microcontroller has yet to answer
    wire,           \* answers the receiver thread has yet to read
    lost            \* history: commands whose answer will never come

mainVars == <<pc, cmd, fd_evt_crsp, rc, ans>>
rxVars == <<rx_pc, rx_ans>>
devVars == <<dev, wire, lost>>
vars == <<mainVars, rxVars, resp_fd_evt, g_crsp, fd_tty, fdt, evt, devVars>>

TypeOK ==
    /\ pc \in {"idle", "subscribe", "tx", "wait", "read", "aborted"}
    /\ cmd \in 0..NumCmds
    /\ fd_evt_crsp \in Fds \cup {NoFd}
    /\ rc \in [Cmds -> {"none", "ok", "failed"}]
    /\ ans \in [Cmds -> 0..NumCmds]
    /\ rx_pc \in {"idle", "copy", "notify"}
    /\ rx_ans \in 0..NumCmds
    /\ resp_fd_evt \in Fds \cup {NoFd}
    /\ g_crsp \in 0..NumCmds
    /\ fd_tty \in {"open", "closed"}
    /\ fdt \in [Fds -> {"free", "event", "file"}]
    /\ evt \in {"quiet", "ready"}
    /\ dev \in Seq(Cmds)
    /\ wire \in Seq(Cmds)
    /\ lost \subseteq Cmds

-----------------------------------------------------------------------------
(* The main thread. *)

\* POSIX gives out the lowest free number: a closed descriptor's is used again.
LowestFree(fd) == /\ fdt[fd] = "free"
                  /\ \A f \in Fds : fdt[f] = "free" => fd <= f

Open(fd, what) == /\ LowestFree(fd)
                  /\ fdt' = [fdt EXCEPT ![fd] = what]

CmdEventfd ==
    /\ pc = "idle"
    /\ cmd < NumCmds
    /\ cmd' = cmd + 1
    /\ \E fd \in Fds : Open(fd, "event") /\ fd_evt_crsp' = fd
    /\ evt' = "quiet"
    /\ pc' = "subscribe"
    /\ UNCHANGED <<rc, ans, rxVars, resp_fd_evt, g_crsp, fd_tty, devVars>>

\* Mutant of Subscribe: the first descriptor registered stays registered.
SubscribeOnce ==
    /\ pc = "subscribe"
    /\ resp_fd_evt' = IF resp_fd_evt = NoFd THEN fd_evt_crsp ELSE resp_fd_evt
    /\ pc' = "tx"
    /\ UNCHANGED <<cmd, fd_evt_crsp, rc, ans, rxVars, g_crsp, fd_tty, fdt,
                   evt, devVars>>

\* reedl_ictrl_serial_subscribe_crsp(): the assertion, then the registration.
Subscribe ==
    /\ pc = "subscribe"
    /\ IF NDEBUG \/ resp_fd_evt = NoFd
       THEN resp_fd_evt' = fd_evt_crsp /\ pc' = "tx"
       ELSE pc' = "aborted" /\ UNCHANGED resp_fd_evt
    /\ UNCHANGED <<cmd, fd_evt_crsp, rc, ans, rxVars, g_crsp, fd_tty, fdt,
                   evt, devVars>>

TxSend ==
    /\ pc = "tx"
    /\ fd_tty = "open"
    /\ dev' = Append(dev, cmd)
    /\ pc' = "wait"
    /\ UNCHANGED <<cmd, fd_evt_crsp, rc, ans, rxVars, resp_fd_evt, g_crsp,
                   fd_tty, fdt, evt, wire, lost>>

\* The call returns -1: close(fd_evt_crsp), and nothing else is undone.
ReturnFailed ==
    /\ rc' = [rc EXCEPT ![cmd] = "failed"]
    /\ fdt' = [fdt EXCEPT ![fd_evt_crsp] = "free"]
    /\ fd_evt_crsp' = NoFd
    /\ pc' = "idle"

\* The port is closed, or its buffer is full and write() is short.
TxFail ==
    /\ pc = "tx"
    /\ ReturnFailed
    /\ lost' = lost \cup {cmd}
    /\ UNCHANGED <<cmd, ans, rxVars, resp_fd_evt, g_crsp, fd_tty, evt,
                   dev, wire>>

\* Mutant of Woken: the result of select() is not looked at.
WokenUnchecked ==
    /\ pc = "wait"
    /\ fdt' = [fdt EXCEPT ![fd_evt_crsp] = "free"]
    /\ fd_evt_crsp' = NoFd
    /\ pc' = "read"
    /\ UNCHANGED <<cmd, rc, ans, rxVars, resp_fd_evt, g_crsp, fd_tty,
                   evt, devVars>>

\* select() reports the eventfd readable, and the call closes it.
Woken ==
    /\ pc = "wait"
    /\ evt = "ready"
    /\ fdt' = [fdt EXCEPT ![fd_evt_crsp] = "free"]
    /\ fd_evt_crsp' = NoFd
    /\ pc' = "read"
    /\ UNCHANGED <<cmd, rc, ans, rxVars, resp_fd_evt, g_crsp, fd_tty,
                   evt, devVars>>

InFlight == dev # <<>> \/ wire # <<>> \/ rx_pc # "idle"

\* Mutant of Timeout: select() is called without one.
NoTimeout == FALSE

\* select() times out.  A microcontroller that answers in time has by then
\* either answered, and been heard, or never will.
Timeout ==
    /\ pc = "wait"
    /\ evt = "quiet"
    /\ LateAnswers \/ ~InFlight
    /\ ReturnFailed
    /\ UNCHANGED <<cmd, ans, rxVars, resp_fd_evt, g_crsp, fd_tty, evt,
                   devVars>>

\* The caller of reedl_ictrl_cmd() takes its result out of g_crsp.  That of a read
\* refuses an answer that has not the size it asked for, which only another
\* command's, or one not yet copied, has.
ReadCrsp ==
    /\ pc = "read"
    /\ \/ /\ ans' = [ans EXCEPT ![cmd] = g_crsp]
          /\ rc' = [rc EXCEPT ![cmd] = "ok"]
       \/ /\ g_crsp # cmd
          /\ rc' = [rc EXCEPT ![cmd] = "failed"]
          /\ UNCHANGED ans
    /\ pc' = "idle"
    /\ UNCHANGED <<cmd, fd_evt_crsp, rxVars, resp_fd_evt, g_crsp, fd_tty, fdt,
                   evt, devVars>>

Files == {fd \in Fds : fdt[fd] = "file"}

\* algoInit() and dataInit() open their files between two commands ...
OpenFile ==
    /\ pc = "idle"
    /\ Cardinality(Files) < MaxFiles
    /\ \E fd \in Fds : Open(fd, "file")
    /\ UNCHANGED <<mainVars, rxVars, resp_fd_evt, g_crsp, fd_tty, evt,
                   devVars>>

\* ... and algoFinal() and dataFinal() close them.
CloseFile ==
    /\ pc = "idle"
    /\ \E fd \in Files : fdt' = [fdt EXCEPT ![fd] = "free"]
    /\ UNCHANGED <<mainVars, rxVars, resp_fd_evt, g_crsp, fd_tty, evt,
                   devVars>>

-----------------------------------------------------------------------------
(* The receiver thread: ictrl_serial_upstream_on_rx_crsp(). *)

\* Mutant of RxTake: the caller is notified before the answer is copied.
RxTakeAndNotify ==
    /\ rx_pc = "idle"
    /\ wire # <<>>
    /\ rx_ans' = Head(wire)
    /\ wire' = Tail(wire)
    /\ g_crsp' = 0
    /\ evt' = "ready"
    /\ rx_pc' = "copy"
    /\ UNCHANGED <<mainVars, resp_fd_evt, fd_tty, fdt, dev, lost>>

\* Mutant of RxTake: of the answers received the last is handled first.
RxTakeNewest ==
    /\ rx_pc = "idle"
    /\ wire # <<>>
    /\ rx_ans' = wire[Len(wire)]
    /\ wire' = SubSeq(wire, 1, Len(wire) - 1)
    /\ g_crsp' = 0
    /\ rx_pc' = "copy"
    /\ UNCHANGED <<mainVars, resp_fd_evt, fd_tty, fdt, evt, dev, lost>>

\* A complete answer has been received; memcpy() into g_crsp begins.
RxTake ==
    /\ rx_pc = "idle"
    /\ wire # <<>>
    /\ rx_ans' = Head(wire)
    /\ wire' = Tail(wire)
    /\ g_crsp' = 0
    /\ rx_pc' = "copy"
    /\ UNCHANGED <<mainVars, resp_fd_evt, fd_tty, fdt, evt, dev, lost>>

RxCopied ==
    /\ rx_pc = "copy"
    /\ g_crsp' = rx_ans
    /\ rx_pc' = "notify"
    /\ UNCHANGED <<mainVars, rx_ans, resp_fd_evt, fd_tty, fdt, evt, devVars>>

\* write(resp->fd_evt): on a closed number and on a file opened for reading
\* it fails, unnoticed.  The subscription is left as it is.
RxNotify ==
    /\ rx_pc = "notify"
    /\ evt' = IF resp_fd_evt \in Fds /\ fdt[resp_fd_evt] = "event"
              THEN "ready" ELSE evt
    /\ rx_pc' = "idle"
    /\ UNCHANGED <<mainVars, rx_ans, resp_fd_evt, g_crsp, fd_tty, fdt, devVars>>

\* read() on the port fails and the receiver closes it; it is never reopened.
RxTtyError ==
    /\ rx_pc = "idle"
    /\ fd_tty = "open"
    /\ fd_tty' = "closed"
    /\ wire' = <<>>
    /\ lost' = lost \cup Range(wire)
    /\ UNCHANGED <<mainVars, rxVars, resp_fd_evt, g_crsp, fdt, evt, dev>>

-----------------------------------------------------------------------------
(* The microcontroller. *)

DevAnswer ==
    /\ dev # <<>>
    /\ fd_tty = "open"
    /\ dev' = Tail(dev)
    /\ wire' = Append(wire, Head(dev))
    /\ UNCHANGED <<mainVars, rxVars, resp_fd_evt, g_crsp, fd_tty, fdt,
                   evt, lost>>

\* It does not answer, or the line eats the command or the answer.
DevLose ==
    /\ dev # <<>>
    /\ dev' = Tail(dev)
    /\ lost' = lost \cup {Head(dev)}
    /\ UNCHANGED <<mainVars, rxVars, resp_fd_evt, g_crsp, fd_tty, fdt,
                   evt, wire>>

-----------------------------------------------------------------------------
\* Mutant of Init: the stream's resp is zeroed but its fd_evt is not set to -1.
InitZeroFd ==
    /\ pc = "idle"
    /\ cmd = 0
    /\ fd_evt_crsp = NoFd
    /\ rc = [k \in Cmds |-> "none"]
    /\ ans = [k \in Cmds |-> 0]
    /\ rx_pc = "idle"
    /\ rx_ans = 0
    /\ resp_fd_evt = 0
    /\ g_crsp = 0
    /\ fd_tty = "open"
    /\ fdt = [fd \in Fds |-> "free"]
    /\ evt = "quiet"
    /\ dev = <<>>
    /\ wire = <<>>
    /\ lost = {}

Init ==
    /\ pc = "idle"
    /\ cmd = 0
    /\ fd_evt_crsp = NoFd
    /\ rc = [k \in Cmds |-> "none"]
    /\ ans = [k \in Cmds |-> 0]
    /\ rx_pc = "idle"
    /\ rx_ans = 0
    /\ resp_fd_evt = NoFd
    /\ g_crsp = 0
    /\ fd_tty = "open"
    /\ fdt = [fd \in Fds |-> "free"]
    /\ evt = "quiet"
    /\ dev = <<>>
    /\ wire = <<>>
    /\ lost = {}

\* The steps a call in progress takes by itself.
CallStep == Subscribe \/ TxSend \/ TxFail \/ Woken \/ Timeout \/ ReadCrsp

MainStep == CmdEventfd \/ CallStep \/ OpenFile \/ CloseFile

RxStep == RxTake \/ RxCopied \/ RxNotify

DevStep == DevAnswer \/ DevLose

Next == MainStep \/ RxStep \/ RxTtyError \/ DevStep

\* Both threads are scheduled and select() has a timeout; of the
\* microcontroller, that it gets to each command (to answer it or to ignore it).
Fairness == WF_vars(CallStep) /\ WF_vars(RxStep) /\ WF_vars(DevStep)

Spec == Init /\ [][Next]_vars

FairSpec == Spec /\ Fairness

-----------------------------------------------------------------------------
(* Properties. *)

\* Every successful command returns the microcontroller's answer to itself,
\* every call returns, and calls are made one at a time: what the callers of
\* reedl_ictrl_cmd() take for granted when they read g_crsp after it.
CallOutcome == [k \in Cmds |-> IF k = cmd /\ pc # "idle" THEN "open"
                               ELSE IF rc[k] = "none" THEN "new" ELSE rc[k]]

Abstract == INSTANCE CmdCall WITH call <- CallOutcome, got <- ans

ImplementsCalls == Abstract!FairSpec

\* A command fails only when its answer will never come: no answer that arrived
\* is dropped because it was notified on a descriptor nobody waits on.
FailsOnlyWhenLost == \A k \in Cmds : rc[k] = "failed" => k \in lost

\* The response buffer is written only for a call that is waiting for it
\* (reedl-ictrl.c:203-205: the handler is not called again until the next
\* subscription), so it is never written under a caller that reads it.
CopyOnlyWhileSubscribed == rx_pc # "idle" => pc = "wait"

\* The receiver never notifies on a descriptor number that belongs to one of
\* the program's files (reedl-ictrl-cmd.c:54: "will fd number be reused?").
NeverNotifiesFile ==
    rx_pc = "notify" /\ resp_fd_evt \in Fds => fdt[resp_fd_evt] # "file"

\* When a response has been registered the previous registration is over
\* (the assertion of reedl-ictrl.c:457).
SubscriptionCleared == pc = "subscribe" => resp_fd_evt = NoFd

\* Even when answers arrive late, the answers that successful commands read
\* come in the order of the commands they answer; one may be read twice.
AnswersInOrder ==
    \A j, k \in Cmds :
        j < k /\ rc[j] = "ok" /\ rc[k] = "ok" /\ ans[j] # 0 /\ ans[k] # 0
            => ans[j] <= ans[k]

\* A successful command reads no answer from the future, and one that is out of
\* step is so by at most the number of commands that failed before it.
FailedBefore(k) == Cardinality({j \in Cmds : j < k /\ rc[j] = "failed"})

BoundedLag ==
    \A k \in Cmds : rc[k] = "ok" /\ ans[k] # 0
        => ans[k] <= k /\ k - ans[k] <= FailedBefore(k)

\* Every call that is made returns.
CallsReturn == \A k \in Cmds : cmd = k /\ pc # "idle" ~> rc[k] # "none"

=============================================================================
