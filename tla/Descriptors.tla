---------------------------- MODULE Descriptors ----------------------------
(***************************************************************************)
(* include/ioutils/file_descriptor_base.hpp, socket_base.hpp, file.hpp and *)
(* udp.hpp: C++ objects that own descriptor numbers, and the process's     *)
(* descriptor table behind them.                                           *)
(*                                                                         *)
(* An asynchronous operation is three steps: the coroutine fills the entry *)
(* (await_suspend), the kernel executes it, and the loop resumes the       *)
(* coroutine (await_resume).  Between them every other object may change   *)
(* the table.  One coroutine uses an object at a time, so an object with   *)
(* an operation in flight is left alone until it is resumed.               *)
(***************************************************************************)
EXTENDS Integers

CONSTANTS Objects, MaxFd

ASSUME DescriptorAssumption == MaxFd \in Nat /\ -1 \notin Objects

Numbers == 0 .. MaxFd
Free == -1
None == -1                      \* the value of fd in an object that owns nothing
Error == -1                     \* a negative result
Pending == -2                   \* the kernel has not answered yet

VARIABLES
    table,      \* the kernel's table: the object a number was opened for, or Free
    fd,         \* the member fd of each object
    alive,      \* objects within their lifetime
    op, res,    \* the operation each object is awaited on, and its result
    faults      \* which of the three known slips happened, see NoLeak below

dvars == <<table, fd, alive, op, res, faults>>

DInit ==
    /\ table = [n \in Numbers |-> Free]
    /\ fd = [o \in Objects |-> None]
    /\ alive = {} /\ faults = {}
    /\ op = [o \in Objects |-> "none"]
    /\ res = [o \in Objects |-> Pending]

Idle(o) == o \in alive /\ op[o] = "none"
Raw(o) == o \notin alive /\ op[o] = "none"

\* the number the kernel gives to the next thing opened
Lowest(n) == n \in Numbers /\ table[n] = Free /\ \A k \in 0 .. n - 1 : table[k] # Free

\* ::close(fd[o]); close(-1) is EBADF and changes nothing
Closed(o) == [n \in Numbers |-> IF n = fd[o] THEN Free ELSE table[n]]

\* what o owned belongs to p now
HandedOver(t, o, p) == [n \in Numbers |-> IF n = fd[o] THEN p ELSE t[n]]

-----------------------------------------------------------------------------
(* Synchronous members.  A constructor or init() whose socket() call fails  *)
(* throws and changes nothing.                                              *)

\* socket_base(): init() on a new object
SocketCtor(o) ==
    /\ Raw(o)
    /\ \E n \in Numbers :
          /\ Lowest(n)
          /\ table' = [table EXCEPT ![n] = o]
          /\ fd' = [fd EXCEPT ![o] = n]
    /\ alive' = alive \cup {o}
    /\ UNCHANGED <<op, res, faults>>

\* init() on a live object returns at once if fd > 0: an object that owns
\* number 0 gets a second one, and 0 is forgotten
InitAgain(o) ==
    /\ Idle(o) /\ fd[o] <= 0
    /\ \E n \in Numbers :
          /\ Lowest(n)
          /\ table' = [table EXCEPT ![n] = o]
          /\ fd' = [fd EXCEPT ![o] = n]
    /\ faults' = IF fd[o] = 0 THEN faults \cup {"init"} ELSE faults
    /\ UNCHANGED <<alive, op, res>>

\* file_descriptor_base(file_descriptor_base &&other)
MoveCtor(o, p) ==
    /\ Raw(o) /\ Idle(p)
    /\ fd' = [fd EXCEPT ![o] = fd[p], ![p] = None]
    /\ table' = HandedOver(table, p, o)
    /\ alive' = alive \cup {o}
    /\ UNCHANGED <<op, res, faults>>

\* mutant: the old number is not closed
MoveAssignDrops(o, p) ==
    /\ Idle(o) /\ Idle(p)
    /\ table' = HandedOver(table, p, o)
    /\ fd' = [fd EXCEPT ![o] = fd[p], ![p] = None]
    /\ faults' = IF o = p /\ fd[o] >= 0 THEN faults \cup {"move"} ELSE faults
    /\ UNCHANGED <<alive, op, res>>

\* operator=: closes the old number unless both hold the same one, as they do
\* when an object is moved to itself
MoveAssign(o, p) ==
    /\ Idle(o) /\ Idle(p)
    /\ table' = HandedOver(IF fd[p] # fd[o] THEN Closed(o) ELSE table, p, o)
    /\ fd' = [fd EXCEPT ![o] = fd[p], ![p] = None]
    /\ faults' = IF o = p /\ fd[o] >= 0 THEN faults \cup {"move"} ELSE faults
    /\ UNCHANGED <<alive, op, res>>

Destroy(o) ==
    /\ Idle(o)
    /\ table' = Closed(o)
    /\ fd' = [fd EXCEPT ![o] = None]
    /\ alive' = alive \ {o}
    /\ UNCHANGED <<op, res, faults>>

Close(o) ==
    /\ Idle(o)
    /\ table' = Closed(o)
    /\ fd' = [fd EXCEPT ![o] = None]
    /\ UNCHANGED <<alive, op, res, faults>>

-----------------------------------------------------------------------------
(* Asynchronous members *)

Awaits(o, kind) ==
    /\ op' = [op EXCEPT ![o] = kind]
    /\ res' = [res EXCEPT ![o] = Pending]
    /\ UNCHANGED <<table, fd, alive, faults>>

OpenAt(o) == Raw(o) /\ Awaits(o, "open")

AsyncClose(o) == Idle(o) /\ Awaits(o, "close")

\* file::read, readv, write, writev
FileTransfer(o) == Idle(o) /\ Awaits(o, "io")

\* udp_sock::recvfrom and sendto, through recvmsg_impl and sendmsg_impl
MessageTransfer(o) == Idle(o) /\ Awaits(o, "io")

Answer(o, r) == res' = [res EXCEPT ![o] = r]

KernelOpen(o) ==
    /\ op[o] = "open" /\ res[o] = Pending
    /\ \/ \E n \in Numbers :
             Lowest(n) /\ table' = [table EXCEPT ![n] = o] /\ Answer(o, n)
       \/ Answer(o, Error) /\ UNCHANGED table
    /\ UNCHANGED <<fd, alive, op, faults>>

\* the number is released even when close reports an error, except EBADF
KernelClose(o) ==
    /\ op[o] = "close" /\ res[o] = Pending
    /\ LET open == fd[o] \in Numbers /\ table[fd[o]] # Free IN
       /\ \E r \in {0, Error} : (r = 0 => open) /\ Answer(o, r)
       /\ table' = Closed(o)
       /\ faults' = IF open /\ res'[o] = Error THEN faults \cup {"close"} ELSE faults
    /\ UNCHANGED <<fd, alive, op>>

\* any other operation needs an open number and changes no descriptor
KernelTransfer(o) ==
    /\ op[o] = "io" /\ res[o] = Pending
    /\ \E r \in {0, Error} :
          (r = 0 => fd[o] \in Numbers /\ table[fd[o]] # Free) /\ Answer(o, r)
    /\ UNCHANGED <<table, fd, alive, op, faults>>

\* the loop stored the result and resumed the coroutine
Resumed(o) ==
    /\ op' = [op EXCEPT ![o] = "none"]
    /\ res' = [res EXCEPT ![o] = Pending]

\* await_resume of openat: throws, or makes the file
OpenResume(o) ==
    /\ op[o] = "open" /\ res[o] # Pending
    /\ IF res[o] = Error THEN UNCHANGED <<fd, alive>>
       ELSE fd' = [fd EXCEPT ![o] = res[o]] /\ alive' = alive \cup {o}
    /\ Resumed(o)
    /\ UNCHANGED <<table, faults>>

\* mutant: fd is kept when the close succeeded
CloseResumeKeeps(o) ==
    /\ op[o] = "close" /\ res[o] # Pending
    /\ Resumed(o)
    /\ UNCHANGED <<table, fd, alive, faults>>

\* await_resume of async_close: throws and keeps fd, or forgets it
CloseResume(o) ==
    /\ op[o] = "close" /\ res[o] # Pending
    /\ fd' = IF res[o] = Error THEN fd ELSE [fd EXCEPT ![o] = None]
    /\ Resumed(o)
    /\ UNCHANGED <<table, alive, faults>>

\* await_resume of a transfer: throws, or returns the count
TransferResume(o) ==
    /\ op[o] = "io" /\ res[o] # Pending
    /\ Resumed(o)
    /\ UNCHANGED <<table, fd, alive, faults>>

Asynchronous(o) ==
    \/ OpenAt(o) \/ KernelOpen(o) \/ OpenResume(o)
    \/ AsyncClose(o) \/ KernelClose(o) \/ CloseResume(o)
    \/ FileTransfer(o) \/ MessageTransfer(o) \/ KernelTransfer(o) \/ TransferResume(o)

DNext ==
    \E o \in Objects :
       \/ SocketCtor(o) \/ InitAgain(o) \/ Destroy(o) \/ Close(o) \/ Asynchronous(o)
       \/ \E p \in Objects : MoveCtor(o, p) \/ MoveAssign(o, p)

DSpec == DInit /\ [][DNext]_dvars

-----------------------------------------------------------------------------

\* The number the object stands for: its member fd, or the result that
\* await_resume will put there.
Holds(o) == IF op[o] = "open" THEN res[o] ELSE fd[o]

\* The number an object holds is its own in the kernel's table, unless an
\* async_close is between the kernel's close and await_resume: so the destructor,
\* operator= and close() never close a descriptor of another object, and no
\* transfer runs on one.  The one way out: an async_close that reported an error
\* after the kernel released the number leaves fd as it was
\* (file_descriptor_base.hpp:57), and the destructor closes it once more.
NoForeignClose ==
    "close" \notin faults =>
       \A o \in Objects :
          Holds(o) >= 0 => \/ table[Holds(o)] = o
                           \/ op[o] = "close" /\ res[o] = 0

\* Every open number is held by the object it was opened for, so its destructor
\* will close it.  It is lost when an object that owns one is moved to itself
\* (operator= clears the member it has just set), when init() finds fd 0 and
\* opens a second socket, and when a failed close made two objects close one number.
NoLeak ==
    faults = {} =>
       \A n \in Numbers : table[n] # Free => Holds(table[n]) = n
=============================================================================
