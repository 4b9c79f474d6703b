------------------------------- MODULE VcomIo -------------------------------
(***************************************************************************)
(* Waiting and moving data in vcl-ldpreload: select and pselect of vcom.c  *)
(* over descriptors of the library and of the kernel at once, and the      *)
(* reads and writes of vcom_socket.c.                                      *)
(*                                                                         *)
(* One thread of the application runs a call at a time, in steps; between  *)
(* them data and time arrive.  vppcom and the kernel are external: they    *)
(* hold what waits at a descriptor and what still fits.  A bit is a        *)
(* descriptor in the set of readers or of writers; those of the kernel are *)
(* watched for reading only.                                               *)
(***************************************************************************)
EXTENDS Integers, FiniteSets, Sequences

CONSTANTS
    VFds,   \* sockets of the library
    LFds,   \* descriptors of the kernel
    Iovs,   \* vectors of buffer lengths
    MaxIn,  \* bound: bytes that wait at a descriptor
    MaxOut, \* bound: bytes that fit into it
    MaxNow, \* bound of the clock
    NoTime, \* a null timeout
    NoFd

ASSUME VcomIoConstants ==
    /\ MaxIn \in Nat /\ MaxOut \in Nat /\ MaxNow \in Nat
    /\ NoTime \notin Int /\ VFds \cap LFds = {}
    /\ IsFiniteSet(VFds) /\ IsFiniteSet(LFds)
    /\ Iovs \subseteq Seq(Nat \ {0}) \ {<<>>}

VARIABLES
    inbox,    \* bytes that wait at a descriptor
    room,     \* bytes that still fit into a socket
    dead,     \* sockets whose peer is gone
    nonblock, \* O_NONBLOCK of the kernel's descriptor
    now,      \* the clock
    pc,       \* where the thread is
    op,       \* the call it is in or was in last
    ret,      \* what that call returned
    asked,    \* the sets select was called with
    sets,     \* the application's sets
    vsets,    \* vcom_readfds, vcom_writefds
    lsets,    \* libc_readfds, libc_writefds
    vn, ln,   \* vcom_nfd, libc_nfd
    end,      \* end_time
    left,     \* the timeout parameter
    seen,     \* history: bits found ready in this round
    steady,   \* history: bits ready since this round began
    first,    \* history: this is the first round
    fd, iov,  \* arguments of a read or write
    at,       \* the buffer it is at
    total,    \* its count of bytes
    taken     \* history: bytes that went through the session

peer == <<inbox, room, dead>>
select == <<asked, sets, vsets, lsets, vn, ln, end, left, seen, steady, first>>
data == <<fd, iov, at, total, taken>>
vars == <<peer, nonblock, now, pc, op, ret, select, data>>

AllFds == VFds \cup LFds
VBits == {"r", "w"} \X VFds
LBits == {"r"} \X LFds
Bits == VBits \cup LBits
EAGAIN == -11
EINVAL == -22
EBADFD == -77
ECONNRESET == -104
EINTR == 4
Least(a, b) == IF a < b THEN a ELSE b

Ready == {b \in Bits : \/ b[2] \in dead
                       \/ b[1] = "r" /\ inbox[b[2]] > 0
                       \/ b[1] = "w" /\ room[b[2]] > 0}

Init ==
    /\ inbox = [f \in AllFds |-> 0] /\ room = [f \in VFds |-> 0]
    /\ dead = {} /\ nonblock = {} /\ now = 0
    /\ pc = "idle" /\ op = "none" /\ ret = 0
    /\ asked = {} /\ sets = {} /\ vsets = {} /\ lsets = {} /\ vn = -1 /\ ln = -1
    /\ end = NoTime /\ left = NoTime
    /\ seen = {} /\ steady = {} /\ first = TRUE
    /\ fd = NoFd /\ iov = <<>> /\ at = 1 /\ total = 0 /\ taken = 0

-----------------------------------------------------------------------------
(***************************************************************************)
(* The other side and the clock.                                           *)
(***************************************************************************)
Elsewhere ==
    /\ steady' = steady \cap Ready'
    /\ UNCHANGED <<nonblock, pc, op, ret, asked, sets, vsets, lsets, vn, ln, end,
                   left, seen, first, data>>

Arrives(f) ==
    /\ f \notin dead /\ inbox[f] < MaxIn
    /\ inbox' = [inbox EXCEPT ![f] = @ + 1]
    /\ UNCHANGED <<room, dead, now>> /\ Elsewhere

Drains(f) ==
    /\ f \notin dead /\ room[f] < MaxOut
    /\ room' = [room EXCEPT ![f] = @ + 1]
    /\ UNCHANGED <<inbox, dead, now>> /\ Elsewhere

Hangup(f) ==
    /\ f \notin dead
    /\ dead' = dead \cup {f}
    /\ UNCHANGED <<inbox, room, now>> /\ Elsewhere

\* A descriptor of the kernel may be read by another process.
SharedRead(f) ==
    /\ inbox[f] > 0
    /\ inbox' = [inbox EXCEPT ![f] = @ - 1]
    /\ UNCHANGED <<room, dead, now>> /\ Elsewhere

Tick ==
    /\ now < MaxNow
    /\ now' = now + 1
    /\ UNCHANGED peer /\ Elsewhere

-----------------------------------------------------------------------------
(***************************************************************************)
(* select.                                                                 *)
(***************************************************************************)
\* vcom_select up to its loop: the sets are split once.
vcom_fd_set_split(S) ==
    /\ vsets' = S \cap VBits
    /\ lsets' = S \cap LBits

\* Empty sets are a sleep, which only a timeout may end.
SelectStart(S, t) ==
    /\ pc = "idle"
    /\ op' = "select" /\ asked' = S /\ sets' = S /\ left' = t
    /\ vcom_fd_set_split(S)
    /\ end' = IF t \in Nat THEN now + t ELSE NoTime
    /\ UNCHANGED <<vn, ln, seen, steady, first>>
    /\ IF t = -1 \/ (S = {} /\ t = NoTime) THEN pc' = "return" /\ ret' = EINVAL
       ELSE pc' = (IF S = {} THEN "sleep" ELSE "vcom") /\ ret' = 0
    /\ UNCHANGED <<peer, nonblock, now, data>>

\* select_done: what is left of the time.
Remains == IF end = NoTime THEN NoTime ELSE end - now

Sleep ==
    /\ pc = "sleep" /\ now >= end
    /\ pc' = "return" /\ left' = Remains
    /\ UNCHANGED <<peer, nonblock, now, op, ret, asked, sets, vsets, lsets, vn, ln,
                   end, seen, steady, first, data>>

\* Mutant: the bits that are not ready stay in the set.
SidFdsKeepAll(n) ==
    /\ vn' = n
    /\ UNCHANGED vsets

\* What vppcom_select left of the sessions is carried over to the descriptors,
\* but only when it left any.
vcom_socket_sid_fds_2_fds(n) ==
    /\ vn' = n
    /\ vsets' = IF n > 0 THEN vsets \cap Ready ELSE vsets

\* Mutant: the descriptors of the library are polled in the first round only.
PollVcomOnce ==
    /\ pc = "vcom" /\ pc' = "libc"
    /\ steady' = asked \cap Ready
    /\ IF vsets # {} /\ first
         THEN /\ vcom_socket_sid_fds_2_fds(Cardinality(vsets \cap Ready))
              /\ seen' = vsets \cap Ready
         ELSE UNCHANGED vsets /\ vn' = -1 /\ seen' = {}
    /\ ln' = -1
    /\ UNCHANGED <<peer, nonblock, now, op, ret, asked, sets, lsets, end, left,
                   first, data>>

\* One turn of the loop polls the library, then the kernel.
PollVcom ==
    /\ pc = "vcom"
    /\ steady' = asked \cap Ready
    /\ ln' = -1
    /\ \/ /\ vsets = {}
          /\ pc' = "libc" /\ vn' = -1 /\ seen' = {}
          /\ UNCHANGED <<vsets, op, ret, left>>
       \/ /\ vsets # {}
          /\ vcom_socket_sid_fds_2_fds(Cardinality(vsets \cap Ready))
          /\ pc' = "libc" /\ seen' = vsets \cap Ready
          /\ UNCHANGED <<op, ret, left>>
       \/ /\ vsets # {}
          /\ pc' = "return" /\ op' = "error" /\ ret' = EBADFD /\ left' = Remains
          /\ UNCHANGED <<vsets, vn, seen>>
    /\ UNCHANGED <<peer, nonblock, now, asked, sets, lsets, end, first, data>>

\* The kernel overwrites its sets, also with nothing.  Its failure is returned
\* as a positive number.
PollLibc ==
    /\ pc = "libc"
    /\ \/ /\ asked \cap LBits = {}
          /\ pc' = "check"
          /\ UNCHANGED <<lsets, ln, seen, op, ret, left>>
       \/ /\ asked \cap LBits # {}
          /\ lsets' = lsets \cap Ready
          /\ ln' = Cardinality(lsets \cap Ready)
          /\ seen' = seen \cup (lsets \cap Ready)
          /\ pc' = "check"
          /\ UNCHANGED <<op, ret, left>>
       \/ /\ asked \cap LBits # {}
          /\ pc' = "return" /\ op' = "error" /\ ret' = EINTR /\ left' = Remains
          /\ UNCHANGED <<lsets, ln, seen>>
    /\ UNCHANGED <<peer, nonblock, now, asked, sets, vsets, vn, end, steady, first, data>>

vcom_fd_set_merge ==
    /\ sets' = vsets \cup lsets
    /\ ret' = Cardinality(vsets \cup lsets)

\* Mutant: the loop ends although something is ready but the time is up.
CheckTimeFirst ==
    /\ pc = "check"
    /\ pc' = IF end # NoTime /\ now >= end THEN "return"
             ELSE IF vn > 0 \/ ln > 0 THEN "return" ELSE "vcom"
    /\ IF (end # NoTime /\ now >= end) \/ ~(vn > 0 \/ ln > 0)
         THEN ret' = 0 /\ UNCHANGED sets ELSE vcom_fd_set_merge
    /\ left' = IF pc' = "return" THEN Remains ELSE left
    /\ first' = FALSE
    /\ UNCHANGED <<peer, nonblock, now, op, asked, vsets, lsets, vn, ln, end, seen,
                   steady, data>>

Check ==
    /\ pc = "check"
    /\ \/ /\ vn > 0 \/ ln > 0
          /\ vcom_fd_set_merge
          /\ pc' = "return" /\ left' = Remains
          /\ UNCHANGED first
       \/ /\ ~(vn > 0 \/ ln > 0)
          /\ end # NoTime => now < end
          /\ pc' = "vcom" /\ first' = FALSE
          /\ UNCHANGED <<sets, ret, left>>
       \/ /\ ~(vn > 0 \/ ln > 0)
          /\ end # NoTime /\ now >= end
          /\ pc' = "return" /\ ret' = 0 /\ left' = 0
          /\ UNCHANGED <<sets, first>>
    /\ UNCHANGED <<peer, nonblock, now, op, asked, vsets, lsets, vn, ln, end, seen,
                   steady, data>>

-----------------------------------------------------------------------------
(***************************************************************************)
(* pselect waits for the kernel's descriptors alone, if there are any, and *)
(* then reports those of the library, asked for reading or writing, as     *)
(* ready.                                                                  *)
(***************************************************************************)
vcom_fd_clear(S) == S \cap LBits
vcom_fd_set(saved, S) == S \cup (saved \cap VBits)

PselectStart(S, t) ==
    /\ pc = "idle"
    /\ op' = "pselect" /\ asked' = S /\ sets' = S /\ left' = t
    /\ lsets' = vcom_fd_clear(S)
    /\ end' = IF t \in Nat THEN now + t ELSE NoTime
    /\ IF t = -1 THEN pc' = "return" /\ ret' = -1 ELSE pc' = "pselect" /\ ret' = 0
    /\ UNCHANGED <<peer, nonblock, now, vsets, vn, ln, seen, steady, first, data>>

\* When the kernel's call fails the sets are put back.
Pselect ==
    /\ pc = "pselect" /\ pc' = "return"
    /\ \/ /\ \/ lsets = {} \/ lsets \cap Ready # {}
             \/ end # NoTime /\ now >= end
          /\ sets' = vcom_fd_set(asked, lsets \cap Ready)
          /\ ret' = Cardinality(sets')
       \/ lsets # {} /\ ret' = -1 /\ UNCHANGED sets
    /\ UNCHANGED <<peer, nonblock, now, op, asked, vsets, lsets, vn, ln, end, left,
                   seen, steady, first, data>>

-----------------------------------------------------------------------------
(***************************************************************************)
(* Reading and writing.                                                    *)
(***************************************************************************)
\* fcntl (F_SETFL): the kernel's descriptor only, not the session.
fcntl(f) ==
    /\ pc = "idle"
    /\ \/ nonblock' = nonblock \cup {f}
       \/ nonblock' = nonblock \ {f}
    /\ UNCHANGED <<peer, now, pc, op, ret, select, data>>

\* read and recv have one buffer, as write and send do; recv never waits.
DataStart(o, f, v) ==
    /\ pc = "idle"
    /\ o \in {"read", "recv", "write"} => Len(v) = 1
    /\ pc' = "data" /\ op' = o /\ fd' = f /\ iov' = v
    /\ UNCHANGED <<peer, nonblock, now, ret, select, at, total, taken>>

Blocking == op \in {"read", "readv"} /\ fd \notin nonblock

\* vppcom_session_read and vppcom_session_write of one buffer.
session_read(n) ==
    IF inbox[fd] > 0 THEN Least(n, inbox[fd])
    ELSE IF fd \in dead THEN ECONNRESET ELSE EAGAIN
session_write(n) ==
    IF fd \in dead THEN ECONNRESET
    ELSE IF room[fd] > 0 THEN Least(n, room[fd]) ELSE EAGAIN

Return(r) == pc' = "return" /\ ret' = r /\ UNCHANGED at
GoOn(i) == at' = i /\ UNCHANGED <<pc, ret>>

Moved(rv) == IF rv > 0 THEN rv ELSE 0

\* Mutant: an error is returned whatever was read before.
ReadReturnsError(rv) ==
    \/ rv = iov[at] /\ at < Len(iov) /\ GoOn(at + 1)
    \/ rv >= 0 /\ (rv < iov[at] \/ at = Len(iov)) /\ Return(total + rv)
    \/ rv = EAGAIN /\ Blocking /\ total = 0 /\ GoOn(1)
    \/ rv < 0 /\ ~(rv = EAGAIN /\ Blocking /\ total = 0) /\ Return(rv)

\* The next buffer after a full one; a blocking call starts over until there
\* is something; a blocking readv returns its count whatever happened.
ReadOutcome(rv) ==
    \/ rv = iov[at] /\ at < Len(iov) /\ GoOn(at + 1)
    \/ rv >= 0 /\ (rv < iov[at] \/ at = Len(iov)) /\ Return(total + rv)
    \/ rv = EAGAIN /\ Blocking /\ total = 0 /\ GoOn(1)
    \/ /\ rv < 0 /\ ~(rv = EAGAIN /\ Blocking /\ total = 0)
       /\ Return(IF total > 0 \/ (op = "readv" /\ Blocking) THEN total ELSE rv)

Read ==
    /\ pc = "data" /\ op \in {"read", "recv", "readv"}
    /\ LET rv == session_read(iov[at]) IN
         /\ inbox' = [inbox EXCEPT ![fd] = @ - Moved(rv)]
         /\ total' = total + Moved(rv) /\ taken' = taken + Moved(rv)
         /\ ReadOutcome(rv)
    /\ UNCHANGED <<room, dead, nonblock, now, op, select, fd, iov>>

\* A short write does not end the loop.
WriteOutcome(rv) ==
    \/ rv >= 0 /\ at < Len(iov) /\ GoOn(at + 1)
    \/ rv >= 0 /\ at = Len(iov) /\ Return(total + rv)
    \/ rv < 0 /\ Return(IF total > 0 THEN total ELSE rv)

Write ==
    /\ pc = "data" /\ op \in {"write", "writev"}
    /\ LET rv == session_write(iov[at]) IN
         /\ room' = [room EXCEPT ![fd] = @ - Moved(rv)]
         /\ total' = total + Moved(rv) /\ taken' = taken + Moved(rv)
         /\ WriteOutcome(rv)
    /\ UNCHANGED <<inbox, dead, nonblock, now, op, select, fd, iov>>

-----------------------------------------------------------------------------
Call ==
    \/ \E S \in SUBSET Bits, t \in {NoTime} \cup -1 .. MaxNow :
          /\ t # NoTime => now + t <= MaxNow
          /\ SelectStart(S, t) \/ PselectStart(S, t)
    \/ \E o \in {"read", "recv", "readv", "write", "writev"}, f \in VFds, v \in Iovs :
          DataStart(o, f, v)
    \/ \E f \in VFds : fcntl(f)

\* The application has what was returned; the variables go out of scope.
Take ==
    /\ pc = "return" /\ pc' = "idle"
    /\ op' = "none" /\ ret' = 0
    /\ asked' = {} /\ sets' = {} /\ vsets' = {} /\ lsets' = {} /\ vn' = -1 /\ ln' = -1
    /\ end' = NoTime /\ left' = NoTime
    /\ seen' = {} /\ steady' = {} /\ first' = TRUE
    /\ fd' = NoFd /\ iov' = <<>> /\ at' = 1 /\ total' = 0 /\ taken' = 0
    /\ UNCHANGED <<peer, nonblock, now>>

Step == Take \/ Sleep \/ PollVcom \/ PollLibc \/ Check \/ Pselect \/ Read \/ Write

Other ==
    /\ pc # "return"
    /\ \/ Tick
       \/ \E f \in AllFds : Arrives(f)
       \/ \E f \in VFds : Drains(f) \/ Hangup(f)
       \/ \E f \in LFds : SharedRead(f)

Next == Call \/ Step \/ Other

Spec == Init /\ [][Next]_vars

\* The thread runs and time passes.
LiveSpec == Spec /\ WF_vars(Step) /\ WF_vars(Tick)

-----------------------------------------------------------------------------
TypeOK ==
    /\ inbox \in [AllFds -> 0 .. MaxIn] /\ room \in [VFds -> 0 .. MaxOut]
    /\ dead \subseteq VFds /\ nonblock \subseteq VFds /\ now \in 0 .. MaxNow
    /\ pc \in {"idle", "vcom", "libc", "check", "sleep", "pselect", "data", "return"}
    /\ op \in {"none", "error", "select", "pselect", "read", "recv",
              "readv", "write", "writev"}
    /\ ret \in Int
    /\ asked \subseteq Bits /\ sets \subseteq Bits
    /\ vsets \subseteq VBits /\ lsets \subseteq LBits
    /\ vn \in -1 .. Cardinality(VBits) /\ ln \in -1 .. Cardinality(LBits)
    /\ end \in Nat \cup {NoTime} /\ left \in Int \cup {NoTime}
    /\ seen \subseteq Bits /\ steady \subseteq Bits /\ first \in BOOLEAN
    /\ fd \in VFds \cup {NoFd} /\ iov \in Iovs \cup {<<>>} /\ at \in Nat
    /\ total \in Nat /\ taken \in Nat

Selected == pc = "return" /\ op = "select" /\ ret >= 0
Result == IF ret > 0 THEN sets ELSE {}

(***************************************************************************)
(* "return the number of file descriptors contained in the three returned  *)
(* sets": the count is that of the bits, and the bits are those found      *)
(* ready in the last round, whatever the loop and the kernel did to the    *)
(* working sets in the rounds before.  There is one exception: when the    *)
(* kernel's descriptors end the loop and none of the library's is ready,   *)
(* all of the library's that were asked for are returned and counted.      *)
(***************************************************************************)
NoneOfOurs == seen # {} /\ seen \cap VBits = {}
ResultExact ==
    Selected => /\ ret > 0 => ret = Cardinality(sets)
                /\ Result = IF NoneOfOurs THEN seen \cup (asked \cap VBits) ELSE seen

(***************************************************************************)
(* What the comment in vcom_select says of that merge: "on exit, sets are  *)
(* modified in place to indicate which file descriptors actually changed   *)
(* status".  The exception above violates it.                              *)
(***************************************************************************)
OnlyChangedReturned == Selected => Result \subseteq seen

(***************************************************************************)
(* A select that returns leaves out no descriptor of the library that was  *)
(* ready throughout its last round, and does not time out on one; nor one  *)
(* of the kernel if there was one round only.                              *)
(***************************************************************************)
SteadyReported ==
    Selected /\ asked # {} =>
        steady \cap (IF first THEN Bits ELSE VBits) \subseteq Result

(***************************************************************************)
(* A read or write returns as many bytes as went through the session, over *)
(* all its buffers, and an error only when there were none; a blocking     *)
(* read never says EAGAIN.                                                 *)
(***************************************************************************)
BytesAccounted ==
    pc = "return" /\ op \in {"read", "recv", "readv", "write", "writev"} =>
        /\ taken = IF ret > 0 THEN ret ELSE 0
        /\ ret = EAGAIN => ~Blocking

(***************************************************************************)
(* A select returns when a descriptor of the library it waits for gets and *)
(* stays ready, or, with a timeout, in any case: "ensure fairness among    *)
(* file descriptors watched".                                              *)
(***************************************************************************)
InSelect == pc \in {"vcom", "libc", "check"}
SelectReturns ==
    /\ \A b \in VBits : (InSelect /\ b \in asked /\ [](b \in Ready)) ~> ~InSelect
    /\ (InSelect /\ end # NoTime) ~> ~InSelect
=============================================================================
