------------------------- MODULE DescriptorsProofs -------------------------
(***************************************************************************)
(* NoForeignClose and NoLeak for any number of objects and any size of the *)
(* descriptor table.                                                       *)
(***************************************************************************)
EXTENDS Descriptors, TLAPS

DTypeOK ==
    /\ table \in [Numbers -> Objects \cup {Free}]
    /\ fd \in [Objects -> Numbers \cup {None}]
    /\ alive \subseteq Objects
    /\ op \in [Objects -> {"none", "open", "close", "io"}]
    /\ res \in [Objects -> Numbers \cup {Error, Pending}]

\* an object that is not alive owns nothing; one that is being opened is not
\* alive yet, one that is closed or used is; a result is there only for as long
\* as the operation; a number that the kernel has closed for an object is not
\* its own until await_resume forgets it
Lifetimes ==
    \A o \in Objects :
        /\ o \notin alive => fd[o] = None
        /\ op[o] = "open" => o \notin alive
        /\ op[o] \in {"close", "io"} => o \in alive
        /\ op[o] = "none" => res[o] = Pending
        /\ op[o] = "close" => res[o] \in {0, Error, Pending}
        /\ op[o] = "close" /\ res[o] = 0 => \A n \in Numbers : n = fd[o] => table[n] # o

DInv == DTypeOK /\ Lifetimes /\ NoForeignClose /\ NoLeak

\* at the start no number is open and no object is alive
LEMMA DInitInv == DInit => DInv
BY DescriptorAssumption
   DEF DInit, DInv, DTypeOK, Lifetimes, NoForeignClose, NoLeak, Holds, Free, None,
       Error, Pending, Numbers

\* constructing, initialising, destroying and closing keep the invariant
LEMMA KeepsSynchronous ==
    ASSUME DInv, NEW o \in Objects,
           SocketCtor(o) \/ InitAgain(o) \/ Destroy(o) \/ Close(o)
    PROVE  DInv'
<1> USE DescriptorAssumption DEF DInv, DTypeOK, Free, None, Error, Pending, Numbers
<1>1. CASE SocketCtor(o)
  <2> PICK n \in Numbers : /\ Lowest(n) /\ table' = [table EXCEPT ![n] = o]
                           /\ fd' = [fd EXCEPT ![o] = n]
    BY <1>1 DEF SocketCtor
  <2>1. Raw(o) /\ alive' = alive \cup {o} /\ UNCHANGED <<op, res, faults>>
    BY <1>1 DEF SocketCtor
  <2>2. table[n] = Free
    BY DEF Lowest
  <2>3. DTypeOK' /\ Lifetimes'
    BY <2>1 DEF Lifetimes, Raw
  <2>4. NoForeignClose'
    BY <2>1, <2>2 DEF NoForeignClose, Holds, Raw, Lifetimes
  <2>5. NoLeak'
    BY <2>1, <2>2 DEF NoLeak, Holds, Raw, Lifetimes
  <2> QED
    BY <2>3, <2>4, <2>5
<1>2. CASE InitAgain(o)
  <2> PICK n \in Numbers : /\ Lowest(n) /\ table' = [table EXCEPT ![n] = o]
                           /\ fd' = [fd EXCEPT ![o] = n]
    BY <1>2 DEF InitAgain
  <2>1. /\ Idle(o) /\ fd[o] <= 0 /\ UNCHANGED <<alive, op, res>>
        /\ faults' = IF fd[o] = 0 THEN faults \cup {"init"} ELSE faults
    BY <1>2 DEF InitAgain
  <2>2. table[n] = Free
    BY DEF Lowest
  <2>3. DTypeOK' /\ Lifetimes'
    BY <2>1 DEF Lifetimes, Idle
  <2>4. NoForeignClose'
    BY <2>1, <2>2 DEF NoForeignClose, Holds, Idle, Lifetimes
  <2>5. NoLeak'
    <3>1. fd[o] = 0 => "init" \in faults'
      BY <2>1
    <3>2. fd[o] # 0 => faults' = faults /\ fd[o] = -1
      BY <2>1
    <3>3. faults' = {} => faults = {} /\ fd[o] = -1
      BY <3>1, <3>2
    <3> QED
      BY <2>1, <2>2, <3>3 DEF NoLeak, Holds, Idle
  <2> QED
    BY <2>3, <2>4, <2>5
<1>3. CASE Destroy(o) \/ Close(o)
  <2>1. /\ Idle(o) /\ table' = Closed(o) /\ fd' = [fd EXCEPT ![o] = None]
        /\ alive' \in {alive, alive \ {o}} /\ UNCHANGED <<op, res, faults>>
    BY <1>3 DEF Destroy, Close
  <2>2. DTypeOK' /\ Lifetimes'
    BY <2>1 DEF Lifetimes, Idle, Closed
  <2>3. NoForeignClose'
    BY <2>1 DEF NoForeignClose, Holds, Idle, Closed, Lifetimes
  <2>4. NoLeak'
    BY <2>1 DEF NoLeak, Holds, Idle, Closed, Lifetimes
  <2> QED
    BY <2>2, <2>3, <2>4
<1> QED
  BY <1>1, <1>2, <1>3

\* the move constructor and operator= keep it
LEMMA KeepsMoves ==
    ASSUME DInv, NEW o \in Objects, NEW p \in Objects, MoveCtor(o, p) \/ MoveAssign(o, p)
    PROVE  DInv'
<1> USE DescriptorAssumption DEF DInv, DTypeOK, Free, None, Error, Pending, Numbers
<1>1. CASE MoveCtor(o, p)
  <2>1. /\ Raw(o) /\ Idle(p) /\ o # p
        /\ fd' = [fd EXCEPT ![o] = fd[p], ![p] = None]
        /\ table' = HandedOver(table, p, o)
        /\ alive' = alive \cup {o} /\ UNCHANGED <<op, res, faults>>
    BY <1>1 DEF MoveCtor, Raw, Idle
  <2>2. DTypeOK' /\ Lifetimes'
    BY <2>1 DEF Lifetimes, Idle, Raw, HandedOver
  <2>3. NoForeignClose'
    BY <2>1 DEF NoForeignClose, Holds, Idle, Raw, HandedOver, Lifetimes
  <2>4. NoLeak'
    BY <2>1 DEF NoLeak, Holds, Idle, Raw, HandedOver, Lifetimes
  <2> QED
    BY <2>2, <2>3, <2>4
<1>2. CASE MoveAssign(o, p)
  <2>1. /\ Idle(o) /\ Idle(p)
        /\ fd' = [fd EXCEPT ![o] = fd[p], ![p] = None]
        /\ table' = HandedOver(IF fd[p] # fd[o] THEN Closed(o) ELSE table, p, o)
        /\ UNCHANGED <<alive, op, res>>
        /\ faults' = IF o = p /\ fd[o] >= 0 THEN faults \cup {"move"} ELSE faults
    BY <1>2 DEF MoveAssign
  <2>2. DTypeOK' /\ Lifetimes'
    BY <2>1 DEF Lifetimes, Idle, HandedOver, Closed
  <2>3. NoForeignClose'
    BY <2>1 DEF NoForeignClose, Holds, Idle, HandedOver, Closed, Lifetimes
  <2>4. NoLeak'
    <3>0. o = p /\ fd[o] >= 0 => "move" \in faults'
      BY <2>1
    <3>1. faults' = {} => faults = {} /\ (o = p => fd[o] = -1)
      BY <2>1, <3>0 DEF Idle
    <3>2. faults = {} /\ fd[o] = fd[p] /\ o # p => fd[o] = -1
      BY <2>1 DEF NoForeignClose, Holds, Idle
    <3>3. /\ op[o] = "none" /\ op[p] = "none" /\ op' = op /\ res' = res
      BY <2>1 DEF Idle
    <3>4. SUFFICES ASSUME faults' = {}, NEW n \in Numbers, table'[n] # Free
                   PROVE  (Holds(table[n]))' = n
      BY DEF NoLeak
    <3>5. CASE n = fd[p]
      BY <2>1, <3>1, <3>3, <3>4, <3>5 DEF HandedOver, Holds
    <3>6. CASE n # fd[p]
      <4>1. table'[n] = table[n] /\ table[n] \in Objects /\ (fd[p] # fd[o] => n # fd[o])
        BY <2>1, <3>4, <3>6 DEF HandedOver, Closed
      <4>2. Holds(table[n]) = n
        BY <3>1, <3>4, <4>1 DEF NoLeak
      <4>3. table[n] # o /\ table[n] # p
        BY <3>1, <3>2, <3>3, <3>4, <3>6, <4>1, <4>2 DEF Holds
      <4> QED
        BY <2>1, <3>3, <4>1, <4>2, <4>3 DEF Holds
    <3> QED
      BY <3>5, <3>6
  <2> QED
    BY <2>2, <2>3, <2>4
<1> QED
  BY <1>1, <1>2

\* so do an asynchronous operation's three steps
LEMMA KeepsAsynchronous ==
    ASSUME DInv, NEW o \in Objects, Asynchronous(o)
    PROVE  DInv'
<1> USE DescriptorAssumption DEF DInv, DTypeOK, Free, None, Error, Pending, Numbers
<1>1. CASE OpenAt(o) \/ AsyncClose(o) \/ FileTransfer(o) \/ MessageTransfer(o)
  <2>1. PICK kind \in {"open", "close", "io"} :
            Awaits(o, kind) /\ IF kind = "open" THEN Raw(o) ELSE Idle(o)
    BY <1>1 DEF OpenAt, AsyncClose, FileTransfer, MessageTransfer
  <2>2. DTypeOK' /\ Lifetimes'
    BY <2>1 DEF Awaits, Lifetimes, Raw, Idle
  <2>3. NoForeignClose' /\ NoLeak'
    BY <2>1 DEF Awaits, Lifetimes, Raw, Idle, NoForeignClose, NoLeak, Holds
  <2> QED
    BY <2>2, <2>3
<1>2. CASE KernelOpen(o)
  <2>1. op[o] = "open" /\ res[o] = Pending /\ UNCHANGED <<fd, alive, op, faults>>
    BY <1>2 DEF KernelOpen
  <2>2. CASE \E n \in Numbers :
                Lowest(n) /\ table' = [table EXCEPT ![n] = o] /\ Answer(o, n)
    <3> PICK n \in Numbers :
                Lowest(n) /\ table' = [table EXCEPT ![n] = o] /\ Answer(o, n)
      BY <2>2
    <3>1. table[n] = Free /\ res' = [res EXCEPT ![o] = n]
      BY DEF Lowest, Answer
    <3>2. DTypeOK' /\ Lifetimes'
      BY <2>1, <3>1 DEF Lifetimes
    <3>3. NoForeignClose' /\ NoLeak'
      BY <2>1, <3>1 DEF NoForeignClose, NoLeak, Holds
    <3> QED
      BY <3>2, <3>3
  <2>3. CASE Answer(o, Error) /\ UNCHANGED table
    <3>1. DTypeOK' /\ Lifetimes'
      BY <2>1, <2>3 DEF Answer, Lifetimes
    <3>2. NoForeignClose' /\ NoLeak'
      BY <2>1, <2>3 DEF Answer, NoForeignClose, NoLeak, Holds
    <3> QED
      BY <3>1, <3>2
  <2> QED
    BY <1>2, <2>2, <2>3 DEF KernelOpen
<1>3. CASE KernelClose(o)
  <2> DEFINE open == fd[o] \in Numbers /\ table[fd[o]] # Free
  <2>1. /\ op[o] = "close" /\ res[o] = Pending /\ UNCHANGED <<fd, alive, op>>
        /\ table' = Closed(o)
        /\ faults' = IF open /\ res'[o] = Error THEN faults \cup {"close"} ELSE faults
    BY <1>3 DEF KernelClose
  <2>2. PICK r \in {0, Error} : (r = 0 => open) /\ res' = [res EXCEPT ![o] = r]
    BY <1>3 DEF KernelClose, Answer
  <2>3. DTypeOK' /\ Lifetimes'
    BY <2>1, <2>2 DEF Closed, Lifetimes
  <2>4. "close" \notin faults' => "close" \notin faults /\ (fd[o] = -1 \/ res'[o] = 0)
    BY <2>1, <2>2 DEF NoForeignClose, Holds
  <2>5. faults' = {} => faults = {}
    BY <2>1
  <2>6. NoForeignClose'
    BY <2>1, <2>2, <2>4 DEF Closed, NoForeignClose, Holds
  <2>7. NoLeak'
    BY <2>1, <2>2, <2>5 DEF Closed, NoLeak, Holds
  <2> QED
    BY <2>3, <2>6, <2>7
<1>4. CASE KernelTransfer(o)
  <2>1. PICK r \in {0, Error} : res' = [res EXCEPT ![o] = r]
    BY <1>4 DEF KernelTransfer, Answer
  <2>2. op[o] = "io" /\ UNCHANGED <<table, fd, alive, op, faults>>
    BY <1>4 DEF KernelTransfer
  <2> QED
    BY <2>1, <2>2 DEF Lifetimes, NoForeignClose, NoLeak, Holds
<1>5. CASE OpenResume(o)
  <2>1. /\ op[o] = "open" /\ res[o] # Pending /\ UNCHANGED <<table, faults>>
        /\ op' = [op EXCEPT ![o] = "none"] /\ res' = [res EXCEPT ![o] = Pending]
        /\ IF res[o] = Error THEN UNCHANGED <<fd, alive>>
           ELSE fd' = [fd EXCEPT ![o] = res[o]] /\ alive' = alive \cup {o}
    BY <1>5 DEF OpenResume, Resumed
  <2>2. DTypeOK' /\ Lifetimes'
    BY <2>1 DEF Lifetimes
  <2>3. NoForeignClose' /\ NoLeak'
    BY <2>1 DEF Lifetimes, NoForeignClose, NoLeak, Holds
  <2> QED
    BY <2>2, <2>3
<1>6. CASE CloseResume(o)
  <2>1. /\ op[o] = "close" /\ res[o] # Pending /\ UNCHANGED <<table, alive, faults>>
        /\ op' = [op EXCEPT ![o] = "none"] /\ res' = [res EXCEPT ![o] = Pending]
        /\ fd' = IF res[o] = Error THEN fd ELSE [fd EXCEPT ![o] = None]
    BY <1>6 DEF CloseResume, Resumed
  <2>2. DTypeOK' /\ Lifetimes'
    BY <2>1 DEF Lifetimes
  <2>3. NoForeignClose'
    BY <2>1 DEF Lifetimes, NoForeignClose, Holds
  <2>4. NoLeak'
    <3>1. faults = {} /\ res[o] # Error => \A n \in Numbers : table[n] # o
      BY <2>1 DEF Lifetimes, NoLeak, Holds
    <3> QED
      BY <2>1, <3>1 DEF NoLeak, Holds
  <2> QED
    BY <2>2, <2>3, <2>4
<1>7. CASE TransferResume(o)
  BY <1>7 DEF TransferResume, Resumed, Lifetimes, NoForeignClose, NoLeak, Holds
<1> QED
  BY <1>1, <1>2, <1>3, <1>4, <1>5, <1>6, <1>7 DEF Asynchronous

\* every step of the table keeps the invariant
THEOREM DescriptorInvariant == DSpec => []DInv
<1>1. DInit => DInv
  BY DInitInv
<1>2. DInv /\ [DNext]_dvars => DInv'
  <2>1. SUFFICES ASSUME DInv, [DNext]_dvars PROVE DInv'
    OBVIOUS
  <2>2. CASE DNext
    BY <2>1, <2>2, KeepsSynchronous, KeepsMoves, KeepsAsynchronous DEF DNext
  <2>3. CASE UNCHANGED dvars
    BY <2>1, <2>3 DEF dvars, DInv, DTypeOK, Lifetimes, NoForeignClose, NoLeak, Holds
  <2> QED
    BY <2>1, <2>2, <2>3
<1> QED
  BY <1>1, <1>2, PTL DEF DSpec

\* The destructor, operator= and close() of file_descriptor_base close only the
\* object's own number, for any number of objects and any size of the table.
THEOREM OwnNumberClosed == DSpec => []NoForeignClose
BY DescriptorInvariant, PTL DEF DInv

\* Every open number has an object whose destructor will close it, as long as
\* none of the three slips happened.
THEOREM NothingLeaks == DSpec => []NoLeak
BY DescriptorInvariant, PTL DEF DInv
=============================================================================
