----------------------------- MODULE WaitClock ------------------------------
(***************************************************************************)
(* The clock in port_wait of wepoll.c.  WepollPort lets a finite timeout   *)
(* pass whenever the code looks at the clock; here one wait is followed    *)
(* through time, with packets that bring nothing its caller asked for.     *)
(* Time passes in the wait itself and while the thread waits for the lock. *)
(***************************************************************************)
EXTENDS Integers

CONSTANTS
  Word,     \* the values of a DWORD, 2^32; an int has as many
  MaxNow    \* bound on the time that passes outside of waits; a call
            \* begins early enough to end before

ClockAssumption ==
  Word \in Nat \ {0} /\ Word % 2 = 0 /\ MaxNow \in Nat

VARIABLES
  now,            \* GetTickCount64
  timeout,        \* the argument
  due,
  gqcs_timeout,
  deadline,       \* when the call of GetQueuedCompletionStatusEx times out
  late,           \* time that passed outside it since the clock was read
  result,         \* of the last port__poll, in the end of port_wait
  pc

vars == <<now, timeout, due, gqcs_timeout, deadline, late, result, pc>>
args == <<timeout, due>>

INFINITE == Word - 1
DWORD(n) == n % Word
Timeouts == -(Word \div 2) .. (Word \div 2) - 1

Init ==
  /\ now = 0
  /\ timeout = 0 /\ due = 0 /\ gqcs_timeout = 0 /\ deadline = 0
  /\ late = 0 /\ result = 0
  /\ pc = "idle"

port_wait(n) ==
  /\ pc = "idle" /\ now + Word <= MaxNow
  /\ timeout' = n
  /\ due' = IF n > 0 THEN now + n ELSE 0
  /\ gqcs_timeout' = IF n >= 0 THEN DWORD(n) ELSE INFINITE
  /\ pc' = "lock"
  /\ UNCHANGED <<now, deadline, late, result>>

\* port__poll up to the wait.
StartPoll ==
  /\ pc = "lock"
  /\ deadline' = now + gqcs_timeout
  /\ pc' = "gqcs"
  /\ UNCHANGED <<now, args, gqcs_timeout, late, result>>

\* Packets, of which n are events for the caller.
Packets(n) ==
  /\ pc = "gqcs"
  /\ result' = n
  /\ pc' = "fed"
  /\ UNCHANGED <<now, args, gqcs_timeout, deadline, late>>

\* WAIT_TIMEOUT makes port_wait return 0.
TimesOut ==
  /\ pc = "gqcs" /\ gqcs_timeout # INFINITE /\ now >= deadline
  /\ result' = 0
  /\ pc' = "done"
  /\ UNCHANGED <<now, args, gqcs_timeout, deadline, late>>

Found ==
  /\ pc = "fed" /\ result > 0
  /\ pc' = "done"
  /\ UNCHANGED <<now, args, gqcs_timeout, deadline, late, result>>

PollAgain ==
  /\ pc = "fed" /\ result = 0 /\ timeout < 0
  /\ pc' = "lock"
  /\ UNCHANGED <<now, args, gqcs_timeout, deadline, late, result>>

Expired == now >= due

DueHasPassed ==
  /\ pc = "fed" /\ result = 0 /\ timeout >= 0
  /\ Expired
  /\ pc' = "done"
  /\ UNCHANGED <<now, args, gqcs_timeout, deadline, late, result>>

\* Slips: the timeout is not computed again, or it starts again.
KeepsTimeout ==
  /\ pc = "fed" /\ result = 0 /\ timeout >= 0 /\ ~Expired
  /\ late' = 0
  /\ pc' = "lock"
  /\ UNCHANGED <<now, args, gqcs_timeout, deadline, result>>

StartsAgain ==
  /\ pc = "fed" /\ result = 0 /\ timeout >= 0 /\ ~Expired
  /\ due' = now + timeout
  /\ late' = 0
  /\ pc' = "lock"
  /\ UNCHANGED <<now, timeout, gqcs_timeout, deadline, result>>

Recompute ==
  /\ pc = "fed" /\ result = 0 /\ timeout >= 0 /\ ~Expired
  /\ gqcs_timeout' = DWORD(due - now)
  /\ late' = 0
  /\ pc' = "lock"
  /\ UNCHANGED <<now, args, deadline, result>>

\* Between a return from the kernel and the look at the clock the thread
\* waits for the lock, before "lock" for it too.
Tick ==
  /\ \/ now < MaxNow
     \/ pc = "gqcs" /\ gqcs_timeout # INFINITE /\ now < deadline
  /\ now' = now + 1
  /\ late' = IF pc = "lock" THEN late + 1 ELSE late
  /\ UNCHANGED <<args, gqcs_timeout, deadline, result, pc>>

MaxFound == 2

Thread ==
  StartPoll \/ TimesOut \/ Found \/ PollAgain \/ DueHasPassed \/ Recompute

Next ==
  \/ \E n \in Timeouts : port_wait(n)
  \/ Thread \/ Tick
  \/ \E n \in 0 .. MaxFound : Packets(n)

\* The thread goes on, and so does time.
FairSpec == Init /\ [][Next]_vars /\ WF_vars(Thread) /\ WF_vars(Tick)

----------------------------------------------------------------------------
(* However many packets without an event come in, the system is not asked  *)
(* to wait beyond the due time, the time lost to the lock apart; and only  *)
(* a wait that is to last for ever is passed on as one that does.          *)
EndsByDue ==
  pc = "gqcs" =>
    /\ timeout > 0 => deadline <= due + late
    /\ gqcs_timeout = INFINITE <=> timeout < 0

(* A wait that returns 0 has lasted its time, and one without a timeout    *)
(* never returns 0.                                                        *)
NoEarlyTimeout ==
  pc = "done" /\ result = 0 =>
    timeout = 0 \/ (timeout > 0 /\ now >= due)

(* Neither longer nor shorter than asked for.                              *)
WaitsAsAsked == EndsByDue /\ NoEarlyTimeout

(* A wait with a timeout returns, though packets keep coming.              *)
WaitReturns == pc = "lock" /\ timeout >= 0 ~> pc = "done"
=============================================================================
