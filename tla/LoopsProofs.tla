----------------------------- MODULE LoopsProofs ------------------------------
(***************************************************************************)
(* The initialisation, the descent to the base socket, the wait and the    *)
(* transfers are right for any number of threads, layers, bytes and        *)
(* datagrams, and any width of a DWORD.                                    *)
(***************************************************************************)
EXTENDS MCLoops, FiniteSetTheorems, SequenceTheorems, TLAPS

-----------------------------------------------------------------------------
(* The global initialisation.                                              *)

\* What the callback has done when it stands at step k.
Before(k) == {Order[i].name : i \in 1 .. k - 1}

\* The thread in the callback, and only it, holds the block.
Holder ==
  \A t \in Threads : pc[t] \in {"callback", "complete"} <=> once = t

\* The parts of the steps that are behind a thread in the callback are
\* initialized; failures may have left others initialized too.
StepsDone ==
  \A t \in Threads : pc[t] = "callback" => Before(step[t]) \subseteq ready

\* The flag is set by who has all parts, the block is completed after it.
AllReady ==
  /\ init__done => ready = Parts
  /\ once = "done" => init__done
  /\ \A t \in Threads : pc[t] = "complete" => init__done
  /\ \A t \in Threads : pc[t] = "api" => init__done
  /\ \A t \in Threads : pc[t] = "callback" => ~init__done

\* No callback has failed after the keyed event was created: what follows
\* it cannot fail.
EventOnce ==
  /\ keyed_events = IF "reflock" \in ready THEN 1 ELSE 0
  /\ "reflock" \in ready =>
       init__done \/ \E t \in Threads : pc[t] = "callback" /\ step[t] > 3
  /\ \A t \in Threads :
       pc[t] = "callback" /\ step[t] <= 3 => "reflock" \notin ready

OnceInv ==
  TypeOK /\ Holder /\ StepsDone /\ AllReady /\ EventOnce /\ FlagMatchesBlock

LEMMA OrderFacts ==
  /\ DOMAIN Order = 1 .. 4 /\ Len(Order) = 4
  /\ Order[1].name = "ws" /\ Order[2].name = "nt"
  /\ Order[3].name = "reflock" /\ Order[4].name = "epoll"
  /\ ~Order[4].mayFail
  BY DEF Order, ws_global_init, nt_global_init, reflock_global_init,
         epoll_global_init

LEMMA PartsNamed == Parts = {"ws", "nt", "reflock", "epoll"}
  BY OrderFacts DEF Parts

LEMMA BeforeFacts ==
  /\ Before(1) = {} /\ Before(5) = Parts /\ "nt" \in Before(3)
  /\ \A k \in 1 .. 4 : Before(k + 1) = Before(k) \cup {Order[k].name}
<1>1. Before(1) = {}
  BY DEF Before
<1>2. Before(5) = Parts
  BY OrderFacts DEF Before, Parts
<1>3. "nt" \in Before(3)
  BY OrderFacts DEF Before
<1>4. ASSUME NEW k \in 1 .. 4
      PROVE  Before(k + 1) = Before(k) \cup {Order[k].name}
  BY <1>4 DEF Before
<1> QED  BY <1>1, <1>2, <1>3, <1>4

LEMMA OnceInit == Init => OnceInv
<1> SUFFICES ASSUME Init PROVE OnceInv
  OBVIOUS
<1>1. TypeOK
  <2>1. keyed_events \in Nat /\ failures \in 0 .. MaxFailures
    BY InitAssumption DEF Init
  <2>2. /\ step \in [Threads -> 1 .. Len(Order) + 1]
    BY OrderFacts DEF Init
  <2>3. init__done \in BOOLEAN /\ ready \in SUBSET Parts
    BY DEF Init
  <2>4. pc \in [Threads -> {"outside", "init", "once", "callback", "complete",
                            "api", "failed"}]
    BY DEF Init
  <2> QED  BY <2>1, <2>2, <2>3, <2>4 DEF Init, TypeOK
<1>2. \A t \in Threads : pc[t] = "outside" /\ once # t
  BY InitAssumption DEF Init
<1>3. once # "done"
  BY InitAssumption DEF Init
<1> QED  BY <1>1, <1>2, <1>3
         DEF Init, OnceInv, Holder, StepsDone, AllReady, EventOnce,
             FlagMatchesBlock

\* Steps that only move a thread about outside of the callback.
LEMMA CallerSteps ==
  ASSUME OnceInv, NEW t \in Threads,
         Call(t) \/ ReadDone(t) \/ Return(t)
  PROVE  OnceInv'
<1> USE DEF OnceInv
<1>1. TypeOK'
  BY DEF TypeOK, Call, ReadDone, Return, Goto
<1>2. \A u \in Threads :
        /\ pc'[u] = "callback" <=> pc[u] = "callback"
        /\ pc'[u] = "complete" <=> pc[u] = "complete"
        /\ pc'[u] = "api" => init__done
  BY DEF TypeOK, AllReady, Call, ReadDone, Return, Goto
<1>3. UNCHANGED <<init__done, once, ready, keyed_events, step>>
  BY DEF Call, ReadDone, Return
<1>4. Holder'
  BY <1>2, <1>3 DEF Holder
<1>5. StepsDone'
  BY <1>2, <1>3 DEF StepsDone
<1>6. AllReady'
  BY <1>2, <1>3 DEF AllReady
<1>7. EventOnce'
  BY <1>2, <1>3 DEF EventOnce
<1>8. FlagMatchesBlock'
  BY <1>2, <1>3 DEF FlagMatchesBlock
<1> QED  BY <1>1, <1>4, <1>5, <1>6, <1>7, <1>8

LEMMA EntersBlock ==
  ASSUME OnceInv, NEW t \in Threads, ExecuteOnce(t)
  PROVE  OnceInv'
<1> USE DEF OnceInv
<1>1. TypeOK'
  BY OrderFacts DEF TypeOK, ExecuteOnce, Goto
<1>2. CASE once = NULL /\ once' = t /\ pc' = [pc EXCEPT ![t] = "callback"]
           /\ step' = [step EXCEPT ![t] = 1]
  <2>1. UNCHANGED <<init__done, ready, keyed_events>>
    BY DEF ExecuteOnce
  <2>2. ~init__done /\ "reflock" \notin ready
    BY <1>2, InitAssumption DEF Holder, EventOnce, FlagMatchesBlock
  <2>3. \A u \in Threads : pc[u] \notin {"callback", "complete"}
    BY <1>2, InitAssumption DEF Holder
  <2>4. \A u \in Threads : pc'[u] = IF u = t THEN "callback" ELSE pc[u]
    BY <1>2 DEF TypeOK
  <2>5. step'[t] = 1
    BY <1>2 DEF TypeOK
  <2> QED  BY <1>1, <1>2, <2>1, <2>2, <2>3, <2>4, <2>5, BeforeFacts,
              InitAssumption
           DEF Holder, StepsDone, AllReady, EventOnce, FlagMatchesBlock
<1>3. CASE once = "done" /\ pc' = [pc EXCEPT ![t] = "api"]
           /\ UNCHANGED <<once, step>>
  <2>1. UNCHANGED <<init__done, ready, keyed_events>>
    BY DEF ExecuteOnce
  <2>2. pc[t] = "once" /\ init__done
    BY <1>3 DEF ExecuteOnce, AllReady
  <2>3. \A u \in Threads : pc'[u] = IF u = t THEN "api" ELSE pc[u]
    BY <1>3 DEF TypeOK
  <2> QED  BY <1>1, <1>3, <2>1, <2>2, <2>3
           DEF Holder, StepsDone, AllReady, EventOnce, FlagMatchesBlock
<1> QED  BY <1>2, <1>3 DEF ExecuteOnce, Goto

LEMMA CallbackGoesOn ==
  ASSUME OnceInv, NEW t \in Threads, StepSucceeds(t)
  PROVE  OnceInv'
<1> USE DEF OnceInv
<1>1. /\ pc[t] = "callback" /\ step[t] \in 1 .. 4
      /\ ready' = ready \cup {Order[step[t]].name}
      /\ step' = [step EXCEPT ![t] = step[t] + 1]
      /\ UNCHANGED <<init__done, once, failures, pc>>
  BY OrderFacts DEF StepSucceeds, InCallback, Part
<1>2. /\ Order[step[t]].name = "reflock" <=> step[t] = 3
      /\ Order[step[t]].name \in Parts
  BY <1>1, OrderFacts, PartsNamed
<1>3. TypeOK'
  BY <1>1, <1>2, OrderFacts DEF TypeOK, StepSucceeds, Part
<1>4. once = t /\ ~init__done
      /\ \A u \in Threads : pc[u] \in {"callback", "complete"} => u = t
  BY <1>1 DEF Holder, AllReady
<1>5. step'[t] = step[t] + 1
  BY <1>1 DEF TypeOK
<1>6. Holder' /\ FlagMatchesBlock'
  BY <1>1 DEF Holder, FlagMatchesBlock
<1>7. StepsDone'
  BY <1>1, <1>4, <1>5, BeforeFacts DEF StepsDone
<1>8. AllReady'
  BY <1>1, <1>4 DEF AllReady
<1>9. EventOnce'
  <2>1. CASE step[t] = 3
    BY <1>1, <1>2, <1>4, <1>5, <2>1 DEF EventOnce, StepSucceeds, Part
  <2>2. CASE step[t] # 3
    <3>1. /\ keyed_events' = keyed_events
          /\ "reflock" \in ready' <=> "reflock" \in ready
      BY <1>1, <1>2, <2>2, OrderFacts DEF StepSucceeds, Part, TypeOK
    <3> QED  BY <1>1, <1>4, <1>5, <2>2, <3>1 DEF EventOnce
  <2> QED  BY <2>1, <2>2
<1> QED  BY <1>3, <1>6, <1>7, <1>8, <1>9

LEMMA CallbackFails ==
  ASSUME OnceInv, NEW t \in Threads, StepFails(t)
  PROVE  OnceInv'
<1> USE DEF OnceInv
<1>1. /\ pc[t] = "callback" /\ step[t] \in 1 .. 3
      /\ once' = NULL /\ pc' = [pc EXCEPT ![t] = "failed"]
      /\ UNCHANGED <<init__done, ready, keyed_events, step>>
  BY OrderFacts DEF StepFails, InCallback, Part, Goto
<1>2. TypeOK'
  BY <1>1, InitAssumption DEF TypeOK, StepFails
<1>3. once = t /\ ~init__done
      /\ \A u \in Threads : pc[u] \in {"callback", "complete"} => u = t
  BY <1>1 DEF Holder, AllReady
<1>4. \A u \in Threads : pc'[u] = IF u = t THEN "failed" ELSE pc[u]
  BY <1>1 DEF TypeOK
<1>5. "reflock" \notin ready
  BY <1>1 DEF EventOnce
<1> QED  BY <1>1, <1>2, <1>3, <1>4, <1>5, InitAssumption
         DEF Holder, StepsDone, AllReady, EventOnce, FlagMatchesBlock

LEMMA CallbackEnds ==
  ASSUME OnceInv, NEW t \in Threads, SetDone(t)
  PROVE  OnceInv'
<1> USE DEF OnceInv
<1>1. /\ pc[t] = "callback" /\ step[t] = 5
      /\ init__done' = TRUE /\ pc' = [pc EXCEPT ![t] = "complete"]
      /\ UNCHANGED <<once, ready, keyed_events, failures, step>>
  BY OrderFacts DEF SetDone, TypeOK, Goto
<1>2. TypeOK'
  BY <1>1 DEF TypeOK
<1>3. once = t
      /\ \A u \in Threads : pc[u] \in {"callback", "complete"} => u = t
  BY <1>1 DEF Holder
<1>4. \A u \in Threads : pc'[u] = IF u = t THEN "complete" ELSE pc[u]
  BY <1>1 DEF TypeOK
<1>5. ready = Parts
  BY <1>1, BeforeFacts DEF StepsDone, TypeOK
<1> QED  BY <1>1, <1>2, <1>3, <1>4, <1>5
         DEF Holder, StepsDone, AllReady, EventOnce, FlagMatchesBlock

LEMMA BlockCompletes ==
  ASSUME OnceInv, NEW t \in Threads, Complete(t)
  PROVE  OnceInv'
<1> USE DEF OnceInv
<1>1. /\ pc[t] = "complete" /\ once' = "done"
      /\ pc' = [pc EXCEPT ![t] = "api"]
      /\ UNCHANGED <<init__done, ready, keyed_events, failures, step>>
  BY DEF Complete, Goto
<1>2. TypeOK'
  BY <1>1 DEF TypeOK
<1>3. once = t /\ init__done
      /\ \A u \in Threads : pc[u] \in {"callback", "complete"} => u = t
  BY <1>1 DEF Holder, AllReady
<1>4. \A u \in Threads : pc'[u] = IF u = t THEN "api" ELSE pc[u]
  BY <1>1 DEF TypeOK
<1> QED  BY <1>1, <1>2, <1>3, <1>4, InitAssumption
         DEF Holder, StepsDone, AllReady, EventOnce, FlagMatchesBlock

LEMMA OnceStep == OnceInv /\ [Next]_vars => OnceInv'
<1> SUFFICES ASSUME OnceInv, [Next]_vars PROVE OnceInv'
  OBVIOUS
<1>1. CASE UNCHANGED vars
  BY <1>1 DEF vars, OnceInv, TypeOK, Holder, StepsDone, AllReady, EventOnce,
              FlagMatchesBlock
<1>2. ASSUME NEW t \in Threads, Call(t) \/ Run(t) \/ Return(t)
      PROVE  OnceInv'
  BY <1>2, CallerSteps, EntersBlock, CallbackGoesOn, CallbackFails, CallbackEnds,
     BlockCompletes DEF Run
<1> QED  BY <1>1, <1>2 DEF Next

(* The invariant holds in every state.                                     *)
THEOREM OnceInductive == Spec => []OnceInv
  BY OnceInit, OnceStep, PTL DEF Spec

(* For any number of threads and failures: nobody gets past init before    *)
(* every part is initialized, no initialiser runs beside a call that uses  *)
(* what it assigns to, the keyed event is created once and after its       *)
(* functions were imported, and the flag agrees with the block.            *)
THEOREM InitSafe == Spec => []InitIsSafe
<1>1. OnceInv => ApiSeesAllParts
  BY DEF OnceInv, AllReady, ApiSeesAllParts
<1>2. OnceInv => NoInitUnderUse
  BY DEF OnceInv, AllReady, NoInitUnderUse
<1>3. OnceInv => ImportsFirst
  <2> SUFFICES ASSUME OnceInv, NEW t \in Threads, InCallback(t),
                      Part(t).name = "reflock"
               PROVE  "nt" \in ready
    BY DEF ImportsFirst
  <2>1. step[t] = 3
    BY OrderFacts DEF InCallback, Part
  <2> QED  BY <2>1, BeforeFacts DEF OnceInv, StepsDone, InCallback
<1>4. OnceInv => OneKeyedEvent
  BY DEF OnceInv, EventOnce, OneKeyedEvent
<1>5. OnceInv => FlagMatchesBlock
  BY DEF OnceInv
<1>6. OnceInv => InitIsSafe
  BY <1>1, <1>2, <1>3, <1>4, <1>5 DEF InitIsSafe
<1> QED  BY <1>6, OnceInductive, PTL

-----------------------------------------------------------------------------
(* The descent to the base socket.                                         *)

BaseErrors == {"none", "WSAENOTSOCK", "WSAEOPNOTSUPP"}

BaseType ==
  /\ provider \in [Base!Layers -> Base!Behaviours]
  /\ open \in BOOLEAN
  /\ base_pc \in {"base", "poll", "returned"}
  /\ socket \in 1 .. Depth

\* The second ioctl is tried below a layer whose provider broke the first.
AsksBelow ==
  base_pc = "poll" => error = "WSAEOPNOTSUPP" /\ socket \in Base!Layers

\* Nothing is returned yet, the base socket, or the error of the first
\* ioctl.  An open socket fails only behind a provider that hides the next.
BaseResult ==
  /\ base_pc # "returned" => base_result.socket = INVALID
  /\ base_pc = "returned" =>
       \/ base_result = [socket |-> Depth, error |-> "none"]
       \/ /\ base_result.socket = INVALID /\ base_result.error # "none"
          /\ ~open \/ ~Base!Transparent

BaseInv == BaseType /\ AsksBelow /\ BaseResult

LEMMA BaseInvRight == BaseInv => BaseSocketIsRight
  BY LoopsAssumption
  DEF BaseInv, BaseType, BaseResult, BaseSocketIsRight,
      Base!BaseSocketIsRight, Base!UnwrapsAllLayers,
      Base!BrokenBaseIsBypassed, Base!FailureHasReason, Base!DepthAssumption

LEMMA BaseInit == Base!Init => BaseInv
  BY LoopsAssumption
  DEF BaseInv, BaseType, AsksBelow, BaseResult, Base!Init,
      Base!DepthAssumption

LEMMA AskBaseStep ==
  ASSUME BaseInv, Base!AskBase
  PROVE  BaseInv'
<1> DEFINE r == Base!BaseHandle(socket)
<1>1. /\ BaseType /\ UNCHANGED <<provider, open, socket>>
      /\ base_pc = "base" /\ base_result.socket = INVALID
      /\ error' = r.error
      /\ IF r.socket # INVALID \/ r.error = "WSAENOTSOCK"
         THEN /\ base_result' = [socket |-> r.socket, error |-> r.error]
              /\ base_pc' = "returned"
         ELSE base_pc' = "poll" /\ UNCHANGED base_result
  BY DEF BaseInv, BaseResult, Base!AskBase, Base!Return
<1>2. CASE ~open
  <2>1. r = [socket |-> INVALID, error |-> "WSAENOTSOCK"]
    BY <1>2 DEF Base!BaseHandle
  <2> HIDE DEF r
  <2> QED  BY <1>1, <1>2, <2>1 DEF BaseInv, BaseType, AsksBelow, BaseResult
<1>3. CASE open /\ \E l \in Base!Layers :
                     l >= socket /\ provider[l].base = "breaks"
  <2>1. r = [socket |-> INVALID, error |-> "WSAEOPNOTSUPP"]
    BY <1>3 DEF Base!BaseHandle
  <2>2. socket \in Base!Layers
    BY <1>1, <1>3, LoopsAssumption DEF BaseType, Base!Layers,
       Base!DepthAssumption
  <2> HIDE DEF r
  <2> QED
    BY <1>1, <2>1, <2>2 DEF BaseInv, BaseType, AsksBelow, BaseResult
<1>4. CASE open /\ ~\E l \in Base!Layers :
                      l >= socket /\ provider[l].base = "breaks"
  <2>1. r = [socket |-> Depth, error |-> "none"]
    BY <1>4 DEF Base!BaseHandle
  <2>2. INVALID # Depth
    BY LoopsAssumption DEF Base!DepthAssumption
  <2> HIDE DEF r
  <2> QED
    BY <1>1, <2>1, <2>2 DEF BaseInv, BaseType, AsksBelow, BaseResult
<1> QED  BY <1>1, <1>2, <1>3, <1>4 DEF BaseType

LEMMA AskPollStep ==
  ASSUME BaseInv, Base!AskPoll
  PROVE  BaseInv'
<1> DEFINE s == Base!BspHandlePoll(socket)
<1>1. /\ BaseType /\ UNCHANGED <<provider, open, error>>
      /\ error = "WSAEOPNOTSUPP" /\ socket \in Base!Layers
      /\ base_result.socket = INVALID
      /\ IF Base!GoesOn(s)
         THEN base_pc' = "base" /\ socket' = s /\ UNCHANGED base_result
         ELSE /\ base_result' = [socket |-> INVALID, error |-> error]
              /\ base_pc' = "returned" /\ UNCHANGED socket
  BY DEF BaseInv, BaseResult, AsksBelow, Base!AskPoll, Base!Return
<1>2. CASE Base!GoesOn(s)
  <2>1. s \in 1 .. Depth
    BY <1>1, <1>2, LoopsAssumption
    DEF BaseType, Base!GoesOn, Base!BspHandlePoll, Base!Layers,
        Base!DepthAssumption
  <2> HIDE DEF s
  <2> QED  BY <1>1, <1>2, <2>1 DEF BaseInv, BaseType, AsksBelow, BaseResult
<1>3. CASE ~Base!GoesOn(s)
  <2>1. ~open \/ ~Base!Transparent
    BY <1>1, <1>3, LoopsAssumption
    DEF BaseType, Base!GoesOn, Base!BspHandlePoll, Base!Layers,
        Base!Transparent, Base!DepthAssumption
  <2>2. Base!Transparent' = Base!Transparent
    BY <1>1 DEF Base!Transparent, Base!Layers
  <2> HIDE DEF s
  <2> QED
    BY <1>1, <1>3, <2>1, <2>2 DEF BaseInv, BaseType, AsksBelow, BaseResult
<1> QED  BY <1>2, <1>3

LEMMA BaseStep ==
  ASSUME BaseInv, [Base!Next]_basevars
  PROVE  BaseInv'
<1>1. CASE Base!CloseSocket
  BY <1>1 DEF BaseInv, BaseType, AsksBelow, BaseResult, Base!CloseSocket
<1>2. CASE UNCHANGED basevars
  BY <1>2 DEF basevars, BaseInv, BaseType, AsksBelow, BaseResult,
     Base!Transparent, Base!Layers
<1> QED  BY <1>1, <1>2, AskBaseStep, AskPollStep DEF Base!Next, Base!Loop

(* ws_get_base_socket unwraps all layers: whatever it returns is the base  *)
(* socket, however many providers there are and however they break the two *)
(* ioctls; it fails on an open socket only when a provider hides the next  *)
(* one, and never without the error of the first ioctl.                    *)
THEOREM BaseSocketFound == LoopsSpec => []BaseSocketIsRight
<1>1. LoopsInit => BaseInv
  BY BaseInit DEF LoopsInit
<1>2. [LoopsNext]_loopvars => [Base!Next]_basevars
  BY DEF LoopsNext, loopvars
<1> QED  BY <1>1, <1>2, BaseStep, BaseInvRight, PTL DEF LoopsSpec

-----------------------------------------------------------------------------
(* The wait.                                                               *)

Half == Word \div 2

ClockType ==
  /\ now \in Nat
  /\ timeout \in -Half .. Half - 1
  /\ due \in Int
  /\ gqcs_timeout \in Nat
  /\ deadline \in Int
  /\ late \in Nat
  /\ wait_result \in Nat
  /\ wait_pc \in {"idle", "lock", "gqcs", "fed", "done"}

\* Between its polls the wait has just the time to the due time left that it
\* had when it looked at the clock.
TimeLeft ==
  /\ timeout =< 0 => due = 0
  /\ wait_pc \notin {"idle", "done"} /\ timeout > 0 =>
       due - now =< timeout
  /\ wait_pc = "lock" /\ timeout > 0 => gqcs_timeout = due - now + late
  /\ wait_pc = "gqcs" /\ timeout > 0 => deadline = due + late

\* The system is asked to wait for ever when the caller asked for it.
ForEver ==
  wait_pc \in {"lock", "gqcs", "fed"} =>
    (gqcs_timeout = Word - 1 <=> timeout < 0)

ClockInv ==
  ClockType /\ TimeLeft /\ ForEver /\ Clock!NoEarlyTimeout
    /\ (wait_pc = "idle" => late = 0)

LEMMA Widths == Word \in Nat /\ Half \in Nat \ {0} /\ Word = 2 * Half
  BY LoopsAssumption DEF Clock!ClockAssumption, Half

LEMMA ClockInvRight == ClockInv => WaitsAsAsked
  BY Widths
  DEF ClockInv, ClockType, TimeLeft, ForEver, WaitsAsAsked,
      Clock!WaitsAsAsked, Clock!EndsByDue, Clock!INFINITE

LEMMA ClockInit == Clock!Init => ClockInv
  BY Widths
  DEF ClockInv, ClockType, TimeLeft, ForEver, Clock!Init,
      Clock!NoEarlyTimeout

\* Conversion to a DWORD keeps what fits.
LEMMA FitsDWORD ==
  ASSUME NEW n \in Nat, n < Word
  PROVE  Clock!DWORD(n) = n
  BY Widths DEF Clock!DWORD

LEMMA StartsWait ==
  ASSUME ClockInv, NEW n \in Clock!Timeouts, Clock!port_wait(n)
  PROVE  ClockInv'
<1>1. n \in -Half .. Half - 1
  BY DEF Clock!Timeouts, Half
<1>2. n >= 0 => Clock!DWORD(n) = n
  BY <1>1, Widths, FitsDWORD
<1>3. /\ ClockType /\ wait_pc = "idle" /\ wait_pc' = "lock" /\ late = 0
      /\ timeout' = n /\ due' = IF n > 0 THEN now + n ELSE 0
      /\ UNCHANGED <<now, deadline, late, wait_result>>
  BY DEF ClockInv, Clock!port_wait
<1>4. gqcs_timeout' = IF n >= 0 THEN n ELSE Word - 1
  BY <1>2 DEF Clock!port_wait, Clock!INFINITE
<1> HIDE DEF Half
<1> QED
  BY <1>1, <1>3, <1>4, Widths
  DEF ClockInv, ClockType, TimeLeft, ForEver, Clock!NoEarlyTimeout

LEMMA RecomputesWait ==
  ASSUME ClockInv, Clock!Recompute
  PROVE  ClockInv'
<1>1. /\ ClockType /\ wait_pc = "fed" /\ timeout >= 0 /\ now < due
      /\ gqcs_timeout' = Clock!DWORD(due - now)
      /\ late' = 0 /\ wait_pc' = "lock"
      /\ UNCHANGED <<now, timeout, due, deadline, wait_result>>
  BY DEF ClockInv, ClockType, Clock!Recompute, Clock!Expired, Clock!args
<1>2. due - now =< timeout
  BY <1>1 DEF ClockInv, ClockType, TimeLeft
<1>3. gqcs_timeout' = due - now
  BY <1>1, <1>2, Widths, FitsDWORD DEF ClockType
<1> QED
  BY <1>1, <1>2, <1>3, Widths
  DEF ClockInv, ClockType, TimeLeft, ForEver, Clock!NoEarlyTimeout

LEMMA ClockStep ==
  ASSUME ClockInv, [Clock!Next]_waitvars
  PROVE  ClockInv'
<1> USE Widths DEF ClockInv, ClockType, TimeLeft, ForEver,
    Clock!NoEarlyTimeout, Clock!INFINITE, Clock!args
<1>1. CASE UNCHANGED waitvars
  BY <1>1 DEF waitvars
<1>2. CASE Clock!StartPoll
  BY <1>2 DEF Clock!StartPoll
<1>3. CASE Clock!TimesOut
  BY <1>3 DEF Clock!TimesOut
<1>4. CASE Clock!Found
  BY <1>4 DEF Clock!Found
<1>5. CASE Clock!PollAgain
  BY <1>5 DEF Clock!PollAgain
<1>6. CASE Clock!DueHasPassed
  BY <1>6 DEF Clock!DueHasPassed, Clock!Expired
<1>7. CASE Clock!Tick
  BY <1>7 DEF Clock!Tick
<1>8. ASSUME NEW n \in 0 .. Clock!MaxFound, Clock!Packets(n)
      PROVE  ClockInv'
  BY <1>8 DEF Clock!Packets, Clock!MaxFound
<1> QED
  BY <1>1, <1>2, <1>3, <1>4, <1>5, <1>6, <1>7, <1>8, StartsWait,
     RecomputesWait DEF Clock!Next, Clock!Thread

(* For any width of a DWORD and any stream of packets that bring nothing:  *)
(* port_wait asks the system for no more time than is left, the time lost  *)
(* to the lock apart, turns only a negative timeout into INFINITE, and     *)
(* returns 0 neither early nor when it has no timeout.                     *)
THEOREM WaitIsAsAsked == LoopsSpec => []WaitsAsAsked
<1>1. LoopsInit => ClockInv
  BY ClockInit DEF LoopsInit
<1>2. [LoopsNext]_loopvars => [Clock!Next]_waitvars
  BY DEF LoopsNext, loopvars
<1> QED  BY <1>1, <1>2, ClockStep, ClockInvRight, PTL DEF LoopsSpec

-----------------------------------------------------------------------------
(* The transfers over TCP.                                                 *)

\* The elements of s count on from a.
Consecutive(s, a) == \A i \in DOMAIN s : s[i] = a + i

(* One direction of a connection: a program has been given g and reads f,  *)
(* w is on its way, the other end has sent o bytes; b is broken.           *)
Flows(g, f, w, o, b) ==
  /\ Consecutive(g, 0)
  /\ Consecutive(f, Len(g))
  /\ Consecutive(w, Len(g) + Len(f))
  /\ Len(g) + Len(f) + Len(w) =< o
  /\ ~b => o =< Len(g) + Len(f) + Len(w)

SendCalls ==
  {c \in [runs : {TRUE}, count : Nat, pos : Nat, remaining : Nat \ {0}] :
     c.pos + c.remaining = c.count}

ReceiveCalls == [runs : {TRUE}, final_data : Seq(Nat)]

StreamType ==
  /\ sends \in [Stream!Ends -> SendCalls \cup {Stream!NoCall}]
  /\ receives \in [Stream!Ends -> ReceiveCalls \cup {Stream!NoCall}]
  /\ sent \in [Stream!Ends -> Nat]
  /\ got \in [Stream!Ends -> Seq(Nat)]
  /\ net \in [Stream!Ends -> Seq(Nat)]
  /\ closed \in [Stream!Ends -> BOOLEAN]
  /\ broken \in BOOLEAN

Out(p)   == sent[p] + (IF sends[p].runs THEN sends[p].pos ELSE 0)
InCall(q) == IF receives[q].runs THEN receives[q].final_data ELSE <<>>

Flow(p) ==
  Flows(got[Stream!Peer(p)], InCall(Stream!Peer(p)), net[p], Out(p), broken)

\* Every byte is in one place, and no send runs on a closed socket.
StreamInv ==
  /\ StreamType
  /\ \A p \in Stream!Ends : Flow(p)
  /\ \A p \in Stream!Ends : closed[p] => ~sends[p].runs

LEMMA Peers ==
  ASSUME NEW p \in Stream!Ends
  PROVE  /\ Stream!Peer(p) \in Stream!Ends
         /\ Stream!Peer(p) # p
         /\ Stream!Peer(Stream!Peer(p)) = p
  BY DEF Stream!Ends, Stream!Peer

LEMMA EqualInts ==
  ASSUME NEW a \in Int, NEW b \in Int, a =< b, b =< a
  PROVE  a = b
  OBVIOUS

LEMMA ConcatConsecutive ==
  ASSUME NEW s \in Seq(Nat), NEW r \in Seq(Nat), NEW a \in Nat,
         NEW c \in Nat, c = a + Len(s),
         Consecutive(s, a), Consecutive(r, c)
  PROVE  s \o r \in Seq(Nat) /\ Consecutive(s \o r, a)
<1>1. /\ Len(s) \in Nat /\ Len(r) \in Nat
      /\ DOMAIN s = 1 .. Len(s) /\ DOMAIN r = 1 .. Len(r)
  OBVIOUS
<1>2. /\ s \o r \in Seq(Nat) /\ Len(s \o r) = Len(s) + Len(r)
      /\ \A i \in 1 .. Len(s) + Len(r) :
           (s \o r)[i] = IF i =< Len(s) THEN s[i] ELSE r[i - Len(s)]
  BY ConcatProperties
<1>3. DOMAIN (s \o r) = 1 .. Len(s) + Len(r)
  BY <1>2
<1> QED  BY <1>1, <1>2, <1>3 DEF Consecutive

LEMMA SubConsecutive ==
  ASSUME NEW s \in Seq(Nat), NEW a \in Nat, Consecutive(s, a),
         NEW m \in 1 .. Len(s) + 1, NEW n \in 0 .. Len(s), m =< n + 1,
         NEW c \in Nat, c = a + m - 1
  PROVE  /\ SubSeq(s, m, n) \in Seq(Nat)
         /\ Len(SubSeq(s, m, n)) = n - m + 1
         /\ Consecutive(SubSeq(s, m, n), c)
<1>1. Len(s) \in Nat /\ DOMAIN s = 1 .. Len(s)
  OBVIOUS
<1>2. /\ SubSeq(s, m, n) \in Seq(Nat)
      /\ Len(SubSeq(s, m, n)) = n - m + 1
      /\ \A i \in 1 .. n - m + 1 : SubSeq(s, m, n)[i] = s[m + i - 1]
  BY <1>1, SubSeqProperties
<1> DEFINE r == SubSeq(s, m, n)
<1>3. DOMAIN r = 1 .. n - m + 1
  BY <1>2
<1> HIDE DEF r
<1>4. ASSUME NEW i \in DOMAIN r PROVE r[i] = c + i
  <2>1. i \in 1 .. n - m + 1 /\ m + i - 1 \in DOMAIN s
    BY <1>1, <1>3
  <2>2. r[i] = s[m + i - 1]
    BY <1>2, <2>1 DEF r
  <2>3. s[m + i - 1] = a + (m + i - 1)
    BY <2>1 DEF Consecutive
  <2> QED  BY <2>1, <2>2, <2>3
<1>5. Consecutive(r, c)
  BY <1>4 DEF Consecutive
<1> QED  BY <1>2, <1>5 DEF r

\* The system takes k more bytes.
LEMMA FlowSends ==
  ASSUME NEW g \in Seq(Nat), NEW f \in Seq(Nat), NEW w \in Seq(Nat),
         NEW o \in Nat, NEW k \in Nat, Flows(g, f, w, o, FALSE)
  PROVE  LET v == w \o [i \in 1 .. k |-> o + i]
         IN  v \in Seq(Nat) /\ Flows(g, f, v, o + k, FALSE)
<1> DEFINE n == [i \in 1 .. k |-> o + i]
<1>1. n \in Seq(Nat) /\ Len(n) = k /\ DOMAIN n = 1 .. k
  OBVIOUS
<1>2. Consecutive(n, o)
  BY DEF Consecutive
<1> HIDE DEF n
<1>3. /\ Len(g) \in Nat /\ Len(f) \in Nat /\ Len(w) \in Nat
      /\ Len(g) + Len(f) + Len(w) =< o /\ o =< Len(g) + Len(f) + Len(w)
  BY DEF Flows
<1>4. w \o n \in Seq(Nat) /\ Consecutive(w \o n, Len(g) + Len(f))
  <2>1. PICK a, c : a = Len(g) + Len(f) /\ c = a + Len(w)
    OBVIOUS
  <2>2. a \in Nat /\ c \in Int /\ c =< o /\ o =< c
    BY <1>3, <2>1
  <2>3. c = o
    BY <2>2, EqualInts
  <2>4. Consecutive(w, a)
    BY <2>1 DEF Flows
  <2>5. w \o n \in Seq(Nat) /\ Consecutive(w \o n, a)
    BY <1>1, <1>2, <2>1, <2>2, <2>3, <2>4, ConcatConsecutive
  <2> QED  BY <2>1, <2>5
<1>5. Len(w \o n) = Len(w) + k
  BY <1>1, ConcatProperties
<1> DEFINE v == w \o n
<1>6. /\ v \in Seq(Nat) /\ Len(v) = Len(w) + k
      /\ Consecutive(v, Len(g) + Len(f))
  BY <1>4, <1>5
<1> HIDE DEF v
<1>7. Flows(g, f, v, o + k, FALSE)
  BY <1>3, <1>6 DEF Flows
<1> QED  BY <1>6, <1>7 DEF v, n

\* recv takes k bytes.
LEMMA FlowReceives ==
  ASSUME NEW g \in Seq(Nat), NEW f \in Seq(Nat), NEW w \in Seq(Nat),
         NEW o \in Nat, NEW b \in BOOLEAN, NEW k \in 1 .. Len(w),
         Flows(g, f, w, o, b)
  PROVE  /\ f \o SubSeq(w, 1, k) \in Seq(Nat)
         /\ SubSeq(w, k + 1, Len(w)) \in Seq(Nat)
         /\ Flows(g, f \o SubSeq(w, 1, k), SubSeq(w, k + 1, Len(w)), o, b)
<1> DEFINE x == SubSeq(w, 1, k)
           y == SubSeq(w, k + 1, Len(w))
           a == Len(g) + Len(f)
<1>1. Len(g) \in Nat /\ Len(f) \in Nat /\ Len(w) \in Nat /\ a \in Nat
  OBVIOUS
<1>0. Consecutive(w, a)
  BY DEF Flows
<1> HIDE DEF a
<1>2. x \in Seq(Nat) /\ Len(x) = k /\ Consecutive(x, a)
  <2>1. 1 \in 1 .. Len(w) + 1 /\ k \in 0 .. Len(w) /\ 1 =< k + 1
    BY <1>1
  <2>2. a = a + 1 - 1 /\ k - 1 + 1 = k
    BY <1>1
  <2> QED  BY <1>0, <1>1, <2>1, <2>2, SubConsecutive
<1>3. y \in Seq(Nat) /\ Len(y) = Len(w) - k /\ Consecutive(y, a + k)
  <2>1. PICK m, c : m = k + 1 /\ c = a + k
    OBVIOUS
  <2>2. /\ m \in 1 .. Len(w) + 1 /\ Len(w) \in 0 .. Len(w)
        /\ m =< Len(w) + 1 /\ c \in Nat /\ c = a + m - 1
    BY <1>1, <2>1
  <2>3. /\ SubSeq(w, m, Len(w)) \in Seq(Nat)
        /\ Len(SubSeq(w, m, Len(w))) = Len(w) - m + 1
        /\ Consecutive(SubSeq(w, m, Len(w)), c)
    BY <1>0, <1>1, <2>2, SubConsecutive
  <2>4. Len(w) - m + 1 = Len(w) - k
    BY <1>1, <2>1
  <2> QED  BY <2>1, <2>3, <2>4
<1> HIDE DEF x, y
<1>4. f \o x \in Seq(Nat) /\ Consecutive(f \o x, Len(g))
  <2>1. Consecutive(f, Len(g)) /\ a = Len(g) + Len(f)
    BY DEF Flows, a
  <2> QED  BY <1>1, <1>2, <2>1, ConcatConsecutive
<1>5. Len(f \o x) = Len(f) + k
  BY <1>2, ConcatProperties
<1> DEFINE v == f \o x
<1>6. v \in Seq(Nat) /\ Len(v) = Len(f) + k /\ Consecutive(v, Len(g))
  BY <1>4, <1>5
<1>7. Len(g) + Len(v) = a + k
  BY <1>1, <1>6 DEF a
<1> HIDE DEF v
<1>8. Flows(g, v, y, o, b)
  BY <1>1, <1>3, <1>6, <1>7 DEF Flows, a
<1> QED  BY <1>3, <1>6, <1>8 DEF v, x, y

\* receive returns what it has.
LEMMA FlowReturns ==
  ASSUME NEW g \in Seq(Nat), NEW f \in Seq(Nat), NEW w \in Seq(Nat),
         NEW o \in Nat, NEW b \in BOOLEAN, Flows(g, f, w, o, b)
  PROVE  g \o f \in Seq(Nat) /\ Flows(g \o f, <<>>, w, o, b)
<1>1. Len(g) \in Nat /\ Len(f) \in Nat /\ Len(g \o f) = Len(g) + Len(f)
  OBVIOUS
<1>2. g \o f \in Seq(Nat) /\ Consecutive(g \o f, 0)
  BY <1>1, ConcatConsecutive DEF Flows
<1>3. Len(<<>>) = 0 /\ \A a : Consecutive(<<>>, a)
  BY DEF Consecutive
<1> QED  BY <1>1, <1>2, <1>3 DEF Flows

\* A reset leaves the first n bytes that are on their way.
LEMMA FlowBreaks ==
  ASSUME NEW g \in Seq(Nat), NEW f \in Seq(Nat), NEW w \in Seq(Nat),
         NEW o \in Nat, NEW b \in BOOLEAN, NEW n \in 0 .. Len(w),
         Flows(g, f, w, o, b)
  PROVE  /\ SubSeq(w, 1, n) \in Seq(Nat)
         /\ Flows(g, f, SubSeq(w, 1, n), o, TRUE)
<1>1. Len(g) \in Nat /\ Len(f) \in Nat /\ Len(w) \in Nat
  OBVIOUS
<1>2. /\ SubSeq(w, 1, n) \in Seq(Nat) /\ Len(SubSeq(w, 1, n)) = n
      /\ Consecutive(SubSeq(w, 1, n), Len(g) + Len(f))
  BY <1>1, SubConsecutive DEF Flows
<1> QED  BY <1>1, <1>2 DEF Flows

LEMMA SendFields ==
  ASSUME NEW c \in SendCalls
  PROVE  /\ c.runs /\ c.count \in Nat /\ c.pos \in Nat
         /\ c.remaining \in Nat \ {0} /\ c.pos + c.remaining = c.count
  BY DEF SendCalls

LEMMA CallFacts ==
  ASSUME StreamType, NEW p \in Stream!Ends
  PROVE  /\ ~Stream!NoCall.runs
         /\ sends[p].runs => sends[p] \in SendCalls
         /\ receives[p].runs => receives[p] \in ReceiveCalls
         /\ InCall(p) \in Seq(Nat)
         /\ Out(p) \in Nat
<1>1. ~Stream!NoCall.runs
  BY DEF Stream!NoCall
<1>2. sends[p].runs => sends[p] \in SendCalls
  BY <1>1 DEF StreamType
<1>3. receives[p].runs => receives[p] \in ReceiveCalls
  BY <1>1 DEF StreamType
<1>4. InCall(p) \in Seq(Nat)
  <2>1. <<>> \in Seq(Nat)
    OBVIOUS
  <2> QED  BY <1>3, <2>1 DEF InCall, ReceiveCalls
<1>5. Out(p) \in Nat
  <2>1. sent[p] \in Nat
    BY DEF StreamType
  <2>2. sends[p].runs => sends[p].pos \in Nat
    BY <1>2, SendFields
  <2> QED  BY <2>1, <2>2 DEF Out
<1> QED  BY <1>1, <1>2, <1>3, <1>4, <1>5

LEMMA FlowTypes ==
  ASSUME StreamType, NEW p \in Stream!Ends
  PROVE  /\ got[Stream!Peer(p)] \in Seq(Nat)
         /\ InCall(Stream!Peer(p)) \in Seq(Nat)
         /\ net[p] \in Seq(Nat) /\ Out(p) \in Nat /\ broken \in BOOLEAN
  BY Peers, CallFacts DEF StreamType

\* A direction that a step does not touch.
LEMMA FlowKept ==
  ASSUME NEW p \in Stream!Ends, Flow(p),
         got'[Stream!Peer(p)] = got[Stream!Peer(p)],
         InCall(Stream!Peer(p))' = InCall(Stream!Peer(p)),
         net'[p] = net[p], Out(p)' = Out(p), broken' = broken
  PROVE  Flow(p)'
  BY DEF Flow

\* The calls of send of one end.
LEMMA SendCallStep ==
  ASSUME StreamInv, NEW p \in Stream!Ends,
         NEW c \in SendCalls \cup {Stream!NoCall},
         NEW n \in Nat, sends' = [sends EXCEPT ![p] = c],
         sent' = [sent EXCEPT ![p] = n],
         UNCHANGED <<receives, got, net, closed, broken>>,
         n + (IF c.runs THEN c.pos ELSE 0) = Out(p),
         c.runs => ~closed[p]
  PROVE  StreamInv'
<1>1. StreamType'
  BY DEF StreamInv, StreamType
<1>2. \A r \in Stream!Ends :
        /\ sends'[r] = IF r = p THEN c ELSE sends[r]
        /\ sent'[r] = IF r = p THEN n ELSE sent[r]
  BY DEF StreamInv, StreamType
<1>3. \A r \in Stream!Ends : Out(r)' = Out(r)
  BY <1>2 DEF Out
<1>4. \A r \in Stream!Ends : InCall(r)' = InCall(r)
  BY DEF InCall
<1>5. ASSUME NEW r \in Stream!Ends PROVE Flow(r)'
  BY <1>3, <1>4, Peers, FlowKept DEF StreamInv
<1>6. \A r \in Stream!Ends : closed'[r] => ~sends'[r].runs
  BY <1>2 DEF StreamInv
<1> QED  BY <1>1, <1>5, <1>6 DEF StreamInv

LEMMA SendStep ==
  ASSUME StreamInv, NEW p \in Stream!Ends, NEW n \in 1 .. MaxBytes,
         Stream!send(p, n)
  PROVE  StreamInv'
<1> DEFINE c == [runs |-> TRUE, count |-> n, pos |-> 0, remaining |-> n]
<1>1. c \in SendCalls /\ c.runs /\ c.pos = 0
  BY LoopsAssumption DEF SendCalls, Stream!StreamAssumption
<1>2. /\ ~closed[p] /\ ~sends[p].runs
      /\ sends' = [sends EXCEPT ![p] = c]
      /\ UNCHANGED <<receives, sent, got, net, closed, broken>>
  BY DEF Stream!send
<1> HIDE DEF c
<1>3. sent[p] \in Nat /\ Out(p) = sent[p] + 0
  BY <1>2 DEF StreamInv, StreamType, Out
<1>4. sent' = [sent EXCEPT ![p] = sent[p]]
  BY <1>2 DEF StreamInv, StreamType
<1> QED  BY <1>1, <1>2, <1>3, <1>4, SendCallStep

LEMMA SendErrorStep ==
  ASSUME StreamInv, NEW p \in Stream!Ends, Stream!SendError(p)
  PROVE  StreamInv'
<1>1. /\ sends[p] \in SendCalls /\ sends[p].runs
      /\ sends[p].pos \in Nat /\ sent[p] \in Nat
  BY CallFacts DEF StreamInv, StreamType, SendCalls, Stream!SendError
<1>2. ~Stream!NoCall.runs
  BY DEF Stream!NoCall
<1> DEFINE n == sent[p] + sends[p].pos
<1>3. n \in Nat /\ n + 0 = Out(p)
  BY <1>1 DEF Out
<1>4. /\ sends' = [sends EXCEPT ![p] = Stream!NoCall]
      /\ sent' = [sent EXCEPT ![p] = n]
      /\ UNCHANGED <<receives, got, net, closed, broken>>
  BY DEF Stream!SendError, Stream!ReturnSent
<1> HIDE DEF n
<1> QED  BY <1>2, <1>3, <1>4, SendCallStep

LEMMA SendPieceStep ==
  ASSUME StreamInv, NEW p \in Stream!Ends, Stream!SendPiece(p)
  PROVE  StreamInv'
<1>1. PICK k \in 1 .. sends[p].remaining :
        /\ Stream!SystemSend(p, k)
        /\ IF k = sends[p].remaining
             THEN Stream!ReturnSent(p, sends[p].pos + k)
             ELSE /\ sends' = [sends EXCEPT ![p] = Stream!Advanced(@, k)]
                  /\ UNCHANGED sent
  BY DEF Stream!SendPiece
<1>2. /\ StreamType /\ sends[p].runs /\ broken = FALSE /\ ~closed[p]
      /\ UNCHANGED <<receives, got, closed, broken>>
  BY DEF StreamInv, StreamType, Stream!SendPiece, Stream!SystemSend
<1>3. /\ sends[p] \in SendCalls
      /\ sent[p] \in Nat /\ sends[p].pos \in Nat
      /\ sends[p].count \in Nat /\ sends[p].remaining \in Nat \ {0}
      /\ sends[p].pos + sends[p].remaining = sends[p].count
      /\ k \in Nat
  <2>1. sends[p] \in SendCalls
    BY <1>2, CallFacts
  <2>2. sent[p] \in Nat
    BY <1>2 DEF StreamType
  <2> QED  BY <1>1, <2>1, <2>2, SendFields
<1>4. Out(p) = sent[p] + sends[p].pos
  BY <1>2 DEF Out
<1>5. /\ sends' \in [Stream!Ends -> SendCalls \cup {Stream!NoCall}]
      /\ sent' \in [Stream!Ends -> Nat]
      /\ Out(p)' = Out(p) + k
      /\ \A r \in Stream!Ends \ {p} :
           sends'[r] = sends[r] /\ sent'[r] = sent[r]
  <2>1. CASE k = sends[p].remaining
    <3>1. /\ sends' = [sends EXCEPT ![p] = Stream!NoCall]
          /\ sent' = [sent EXCEPT ![p] = @ + (sends[p].pos + k)]
      BY <1>1, <2>1 DEF Stream!ReturnSent
    <3>2. sends'[p] = Stream!NoCall /\ sent'[p] = sent[p] + (sends[p].pos + k)
      BY <1>2, <3>1 DEF StreamType
    <3>3. Out(p)' = sent[p] + (sends[p].pos + k)
      BY <1>3, <3>2 DEF Out, Stream!NoCall
    <3> QED  BY <1>2, <1>3, <1>4, <3>1, <3>3 DEF StreamType
  <2>2. CASE k # sends[p].remaining
    <3> DEFINE c == Stream!Advanced(sends[p], k)
    <3>1. c \in SendCalls /\ c.runs /\ c.pos = sends[p].pos + k
      <4>1. k < sends[p].remaining /\ sends[p].remaining - k \in Nat \ {0}
        BY <1>3, <2>2
      <4> DEFINE R == [runs : {TRUE}, count : Nat, pos : Nat,
                       remaining : Nat \ {0}]
      <4>5. sends[p] \in R
        BY <1>3 DEF SendCalls
      <4>6. c = [sends[p] EXCEPT !.pos = @ + k, !.remaining = @ - k]
        BY DEF Stream!Advanced
      <4>7. sends[p].pos + k \in Nat
        BY <1>3
      <4>8. c \in R
        BY <4>1, <4>5, <4>6, <4>7
      <4>2. /\ c.runs = sends[p].runs /\ c.count = sends[p].count
            /\ c.pos = sends[p].pos + k
            /\ c.remaining = sends[p].remaining - k
        BY <4>5, <4>6
      <4>3. c.pos + c.remaining = c.count
        BY <1>3, <4>1, <4>2
      <4> HIDE DEF c
      <4> QED  BY <1>2, <4>2, <4>3, <4>8 DEF SendCalls
    <3>2. sends' = [sends EXCEPT ![p] = c] /\ UNCHANGED sent
      BY <1>1, <1>2, <2>2 DEF StreamType
    <3> HIDE DEF c
    <3>3. sends'[p] = c
      BY <1>2, <3>2 DEF StreamType
    <3>4. Out(p)' = sent[p] + (sends[p].pos + k)
      BY <3>1, <3>2, <3>3 DEF Out
    <3> QED  BY <1>2, <1>3, <1>4, <3>1, <3>2, <3>4 DEF StreamType
  <2> QED  BY <2>1, <2>2
<1> DEFINE v == net[p] \o [i \in 1 .. k |-> Out(p) + i]
<1>6. net' = [net EXCEPT ![p] = v]
  BY <1>1, <1>2, <1>4 DEF Stream!SystemSend, StreamType
<1>7. /\ v \in Seq(Nat)
      /\ Flows(got[Stream!Peer(p)], InCall(Stream!Peer(p)), v, Out(p) + k,
               FALSE)
  <2>1. Flows(got[Stream!Peer(p)], InCall(Stream!Peer(p)), net[p], Out(p),
              FALSE)
    BY <1>2 DEF StreamInv, Flow
  <2> QED  BY <1>2, <1>3, <2>1, FlowTypes, FlowSends
<1> HIDE DEF v
<1>8. StreamType'
  BY <1>2, <1>5, <1>6, <1>7 DEF StreamType
<1>9. \A r \in Stream!Ends : InCall(r)' = InCall(r)
  BY <1>2 DEF InCall
<1>10. Flow(p)'
  <2>1. net'[p] = v
    BY <1>2, <1>6 DEF StreamType
  <2> QED  BY <1>2, <1>5, <1>7, <1>9, <2>1, Peers DEF Flow
<1>11. ASSUME NEW r \in Stream!Ends \ {p} PROVE Flow(r)'
  <2>1. net'[r] = net[r] /\ Out(r)' = Out(r)
    BY <1>2, <1>5, <1>6 DEF StreamType, Out
  <2> QED  BY <1>2, <1>9, <2>1, Peers, FlowKept DEF StreamInv
<1>12. \A r \in Stream!Ends : closed'[r] => ~sends'[r].runs
  BY <1>2, <1>5 DEF StreamInv
<1> QED  BY <1>8, <1>10, <1>11, <1>12 DEF StreamInv

LEMMA ReceiveStep ==
  ASSUME StreamInv, NEW p \in Stream!Ends, Stream!receive(p)
  PROVE  StreamInv'
<1> DEFINE c == [runs |-> TRUE, final_data |-> <<>>]
<1>1. c \in ReceiveCalls /\ c.runs /\ c.final_data = <<>>
  BY DEF ReceiveCalls
<1>2. /\ StreamType /\ ~receives[p].runs
      /\ receives' = [receives EXCEPT ![p] = c]
      /\ UNCHANGED <<sends, sent, got, net, closed, broken>>
  BY DEF StreamInv, Stream!receive
<1> HIDE DEF c
<1>3. StreamType'
  BY <1>1, <1>2 DEF StreamType
<1>4. \A r \in Stream!Ends : receives'[r] = IF r = p THEN c ELSE receives[r]
  BY <1>2 DEF StreamType
<1>5. \A r \in Stream!Ends : InCall(r)' = InCall(r) /\ Out(r)' = Out(r)
  BY <1>1, <1>2, <1>4 DEF InCall, Out
<1>6. ASSUME NEW r \in Stream!Ends PROVE Flow(r)'
  BY <1>2, <1>5, Peers, FlowKept DEF StreamInv
<1> QED  BY <1>2, <1>3, <1>6 DEF StreamInv

LEMMA ReceivePieceStep ==
  ASSUME StreamInv, NEW p \in Stream!Ends, Stream!ReceivePiece(p)
  PROVE  StreamInv'
<1> DEFINE q == Stream!Peer(p)
<1>1. PICK k \in 1 .. Chunk :
        /\ Stream!SystemRecv(p, k)
        /\ receives' = [receives EXCEPT ![p].final_data =
             @ \o SubSeq(net[q], 1, k)]
        /\ UNCHANGED <<sends, sent, got, closed, broken>>
  BY DEF Stream!ReceivePiece
<1>2. StreamType /\ q \in Stream!Ends /\ q # p /\ Stream!Peer(q) = p
  BY Peers DEF StreamInv
<1>3. /\ receives[p].runs /\ k =< Len(net[q]) /\ k \in 1 .. Len(net[q])
      /\ net' = [net EXCEPT ![q] = SubSeq(@, k + 1, Len(@))]
  <2>1. receives[p].runs /\ k =< Stream!Min({Chunk, Len(net[q])})
        /\ net' = [net EXCEPT ![q] = SubSeq(@, k + 1, Len(@))]
    BY <1>1 DEF Stream!SystemRecv
  <2>2. Chunk \in Nat /\ Len(net[q]) \in Nat
    BY <1>2, LoopsAssumption DEF StreamType, Stream!StreamAssumption
  <2>3. Stream!Min({Chunk, Len(net[q])}) =< Len(net[q])
    BY <2>2 DEF Stream!Min
  <2>4. Stream!Min({Chunk, Len(net[q])}) \in Nat
    BY <2>2 DEF Stream!Min
  <2> QED  BY <2>1, <2>2, <2>3, <2>4
<1> DEFINE f == receives[p].final_data \o SubSeq(net[q], 1, k)
           w == SubSeq(net[q], k + 1, Len(net[q]))
           c == [receives[p] EXCEPT !.final_data = f]
<1>4. receives[p] \in ReceiveCalls /\ InCall(p) = receives[p].final_data
  BY <1>2, <1>3, CallFacts DEF InCall
<1>5. /\ f \in Seq(Nat) /\ w \in Seq(Nat)
      /\ Flows(got[p], f, w, Out(q), broken)
  <2>1. Flows(got[p], receives[p].final_data, net[q], Out(q), broken)
    BY <1>2, <1>4 DEF StreamInv, Flow
  <2>2. /\ got[p] \in Seq(Nat) /\ receives[p].final_data \in Seq(Nat)
        /\ net[q] \in Seq(Nat) /\ Out(q) \in Nat /\ broken \in BOOLEAN
    BY <1>2, <1>4, FlowTypes
  <2> QED  BY <1>3, <2>1, <2>2, FlowReceives
<1>6. receives' = [receives EXCEPT ![p] = c]
  BY <1>1, <1>2 DEF StreamType
<1>7. net' = [net EXCEPT ![q] = w]
  BY <1>2, <1>3 DEF StreamType
<1> HIDE DEF f, w
<1>8. c \in ReceiveCalls /\ c.runs /\ c.final_data = f
  BY <1>4, <1>5 DEF ReceiveCalls
<1> HIDE DEF c
<1>9. StreamType'
  BY <1>1, <1>2, <1>5, <1>6, <1>7, <1>8 DEF StreamType
<1>10. \A r \in Stream!Ends :
         /\ receives'[r] = IF r = p THEN c ELSE receives[r]
         /\ net'[r] = IF r = q THEN w ELSE net[r]
         /\ Out(r)' = Out(r)
  BY <1>1, <1>2, <1>6, <1>7 DEF StreamType, Out
<1>11. InCall(p)' = f /\ InCall(q)' = InCall(q)
  BY <1>2, <1>8, <1>10 DEF InCall
<1>12. Flow(q)'
  BY <1>1, <1>2, <1>5, <1>10, <1>11 DEF Flow
<1>13. Flow(p)'
  BY <1>1, <1>2, <1>10, <1>11, FlowKept DEF StreamInv
<1>14. \A r \in Stream!Ends : r = p \/ r = q
  BY <1>2 DEF Stream!Ends
<1> QED  BY <1>1, <1>9, <1>12, <1>13, <1>14 DEF StreamInv

LEMMA ReceiveEndStep ==
  ASSUME StreamInv, NEW p \in Stream!Ends, Stream!ReceiveEnd(p)
  PROVE  StreamInv'
<1> DEFINE q == Stream!Peer(p)
           g == got[p] \o receives[p].final_data
<1>1. /\ StreamType /\ q \in Stream!Ends /\ q # p /\ Stream!Peer(q) = p
      /\ \A r \in Stream!Ends : r = p \/ r = q
  BY Peers DEF StreamInv, Stream!Ends
<1>2. /\ receives[p].runs
      /\ got' = [got EXCEPT ![p] = g]
      /\ receives' = [receives EXCEPT ![p] = Stream!NoCall]
      /\ UNCHANGED <<sends, sent, net, closed, broken>>
  BY DEF Stream!ReceiveEnd, Stream!ReturnReceived
<1>3. InCall(p) = receives[p].final_data
  BY <1>2 DEF InCall
<1>4. g \in Seq(Nat) /\ Flows(g, <<>>, net[q], Out(q), broken)
  <2>1. Flows(got[p], InCall(p), net[q], Out(q), broken)
    BY <1>1 DEF StreamInv, Flow
  <2> QED  BY <1>1, <1>3, <2>1, FlowTypes, FlowReturns
<1> HIDE DEF g
<1>5. StreamType'
  BY <1>1, <1>2, <1>4 DEF StreamType
<1>6. \A r \in Stream!Ends :
        /\ receives'[r] = IF r = p THEN Stream!NoCall ELSE receives[r]
        /\ got'[r] = IF r = p THEN g ELSE got[r]
        /\ Out(r)' = Out(r)
  BY <1>1, <1>2 DEF StreamType, Out
<1>7. InCall(p)' = <<>> /\ InCall(q)' = InCall(q)
  BY <1>1, <1>6 DEF InCall, Stream!NoCall
<1>8. Flow(q)'
  BY <1>1, <1>2, <1>4, <1>6, <1>7 DEF Flow
<1>9. Flow(p)'
  BY <1>1, <1>2, <1>6, <1>7, FlowKept DEF StreamInv
<1> QED  BY <1>1, <1>2, <1>5, <1>8, <1>9 DEF StreamInv

LEMMA CloseStep ==
  ASSUME StreamInv, NEW p \in Stream!Ends, Stream!Close(p)
  PROVE  StreamInv'
<1>1. /\ StreamType /\ ~sends[p].runs
      /\ closed' = [closed EXCEPT ![p] = TRUE]
      /\ UNCHANGED <<sends, receives, sent, got, net, broken>>
  BY DEF StreamInv, Stream!Close
<1>2. StreamType'
  BY <1>1 DEF StreamType
<1>3. \A r \in Stream!Ends : InCall(r)' = InCall(r) /\ Out(r)' = Out(r)
  BY <1>1 DEF InCall, Out
<1>4. ASSUME NEW r \in Stream!Ends PROVE Flow(r)'
  BY <1>1, <1>3, Peers, FlowKept DEF StreamInv
<1>5. \A r \in Stream!Ends : closed'[r] => ~sends'[r].runs
  BY <1>1 DEF StreamInv, StreamType
<1> QED  BY <1>2, <1>4, <1>5 DEF StreamInv

LEMMA ResetStep ==
  ASSUME StreamInv, Stream!Reset
  PROVE  StreamInv'
<1>1. PICK n \in [Stream!Ends -> 0 .. Buffer] :
        /\ \A p \in Stream!Ends : n[p] =< Len(net[p])
        /\ net' = [p \in Stream!Ends |-> SubSeq(net[p], 1, n[p])]
  BY DEF Stream!Reset
<1>2. /\ StreamType /\ broken' = TRUE
      /\ UNCHANGED <<sends, receives, sent, got, closed>>
  BY DEF StreamInv, Stream!Reset
<1>3. \A r \in Stream!Ends : InCall(r)' = InCall(r) /\ Out(r)' = Out(r)
  BY <1>2 DEF InCall, Out
<1>4. ASSUME NEW r \in Stream!Ends
      PROVE  net'[r] \in Seq(Nat) /\ Flow(r)'
  <2>1. n[r] \in 0 .. Len(net[r]) /\ net[r] \in Seq(Nat)
    BY <1>1, <1>2 DEF StreamType
  <2>2. net'[r] = SubSeq(net[r], 1, n[r])
    BY <1>1
  <2>3. Flows(got[Stream!Peer(r)], InCall(Stream!Peer(r)), net[r], Out(r),
              broken)
    BY DEF StreamInv, Flow
  <2>4. /\ SubSeq(net[r], 1, n[r]) \in Seq(Nat)
        /\ Flows(got[Stream!Peer(r)], InCall(Stream!Peer(r)),
                 SubSeq(net[r], 1, n[r]), Out(r), TRUE)
    BY <1>2, <2>1, <2>3, FlowTypes, FlowBreaks
  <2> QED  BY <1>2, <1>3, <2>2, <2>4, Peers DEF Flow
<1>5. StreamType'
  <2>1. net' \in [Stream!Ends -> Seq(Nat)]
    BY <1>1, <1>4
  <2> QED  BY <1>2, <2>1 DEF StreamType
<1> QED  BY <1>2, <1>4, <1>5 DEF StreamInv

LEMMA StreamStep ==
  ASSUME StreamInv, [Stream!Next]_streamvars
  PROVE  StreamInv'
<1>1. CASE UNCHANGED streamvars
  <2>1. \A r \in Stream!Ends : Flow(r)' = Flow(r)
    BY <1>1 DEF streamvars, Flow, InCall, Out
  <2> QED  BY <1>1, <2>1 DEF streamvars, StreamInv, StreamType
<1> QED
  BY <1>1, SendStep, SendErrorStep, SendPieceStep, ReceiveStep,
     ReceivePieceStep, ReceiveEndStep, CloseStep, ResetStep DEF Stream!Next

LEMMA StreamInit == Stream!Init => StreamInv
<1> SUFFICES ASSUME Stream!Init PROVE StreamInv
  OBVIOUS
<1>1. ~Stream!NoCall.runs /\ <<>> \in Seq(Nat) /\ Len(<<>>) = 0
  BY DEF Stream!NoCall
<1>2. StreamType
  BY <1>1 DEF Stream!Init, StreamType
<1>3. \A p \in Stream!Ends : InCall(p) = <<>> /\ Out(p) = 0
  BY <1>1 DEF Stream!Init, InCall, Out
<1>4. \A p \in Stream!Ends : got[p] = <<>> /\ net[p] = <<>>
  BY DEF Stream!Init
<1>5. \A a : Consecutive(<<>>, a)
  BY DEF Consecutive
<1>6. Flows(<<>>, <<>>, <<>>, 0, broken)
  BY <1>1, <1>5 DEF Flows
<1>7. \A p \in Stream!Ends : Flow(p)
  BY <1>3, <1>4, <1>6, Peers DEF Flow
<1> QED  BY <1>1, <1>2, <1>7 DEF Stream!Init, StreamInv

LEMMA StreamInvIntact == StreamInv => StreamIntact
<1> SUFFICES ASSUME StreamInv, NEW p \in Stream!Ends
             PROVE
    LET q     == Stream!Peer(p)
        taken_p == got[q] \o InCall(q) \o net[p]
    IN  /\ Stream!IsPrefixOfStream(taken_p)
        /\ Len(taken_p) <= Out(p)
        /\ ~broken => Len(taken_p) = Out(p)
  BY DEF StreamIntact, Stream!StreamIntact, InCall, Out
<1> DEFINE g == got[Stream!Peer(p)]
           f == InCall(Stream!Peer(p))
           w == net[p]
<1>1. /\ g \in Seq(Nat) /\ f \in Seq(Nat) /\ w \in Seq(Nat)
      /\ Out(p) \in Nat /\ Flows(g, f, w, Out(p), broken)
  BY FlowTypes DEF StreamInv, Flow
<1> HIDE DEF g, f, w
<1>2. /\ Consecutive(g, 0) /\ Consecutive(f, Len(g))
      /\ Consecutive(w, Len(g) + Len(f))
      /\ Len(g) + Len(f) + Len(w) =< Out(p)
      /\ ~broken => Out(p) =< Len(g) + Len(f) + Len(w)
      /\ Len(g) \in Nat /\ Len(f) \in Nat /\ Len(w) \in Nat
  BY <1>1 DEF Flows
<1> DEFINE h == g \o f
<1>3. h \in Seq(Nat) /\ Consecutive(h, 0) /\ Len(h) = Len(g) + Len(f)
  <2>1. Len(g) = 0 + Len(g)
    BY <1>2
  <2> QED  BY <1>1, <1>2, <2>1, ConcatConsecutive, ConcatProperties
<1> HIDE DEF h
<1> DEFINE s == h \o w
<1>4. s \in Seq(Nat) /\ Consecutive(s, 0) /\ Len(s) = Len(h) + Len(w)
  <2>1. PICK o : o = Len(g) + Len(f)
    OBVIOUS
  <2>2. Consecutive(w, o)
    BY <1>2, <2>1
  <2>3. o = Len(h) /\ Len(h) \in Nat
    BY <1>2, <1>3, <2>1
  <2>4. o = 0 + Len(h)
    BY <2>3
  <2>5. Consecutive(s, 0)
    BY <1>1, <1>3, <2>2, <2>4, ConcatConsecutive
  <2> QED  BY <1>1, <1>3, <2>5, ConcatProperties
<1> HIDE DEF s
<1>5. Stream!IsPrefixOfStream(s)
  BY <1>4 DEF Stream!IsPrefixOfStream, Consecutive
<1>6. Len(s) \in Int /\ Len(s) =< Out(p) /\ (~broken => Out(p) =< Len(s))
  BY <1>2, <1>3, <1>4
<1>7. ~broken => Len(s) = Out(p)
  BY <1>1, <1>6, EqualInts
<1> QED  BY <1>5, <1>6, <1>7 DEF s, h, g, f, w

(* However much is sent over a connection, in whatever pieces the system   *)
(* takes and gives it: what a program has received and what is on its way  *)
(* is, in order and once, the beginning of what the other end has counted  *)
(* as sent or is about to, all of it while the connection stands.          *)
THEOREM StreamsAreIntact == LoopsSpec => []StreamIntact
<1>1. LoopsInit => StreamInv
  BY StreamInit DEF LoopsInit
<1>2. [LoopsNext]_loopvars => [Stream!Next]_streamvars
  BY DEF LoopsNext, loopvars
<1> QED  BY <1>1, <1>2, StreamStep, StreamInvIntact, PTL DEF LoopsSpec

(* A step that ends a call of send, or one of receive, does it as the      *)
(* counts say.                                                             *)
SendEnds ==
  \A p \in Stream!Ends :
    sends[p].runs /\ ~sends'[p].runs =>
      sent'[p] - sent[p] = sends[p].count \/ broken

ReceiveEnds ==
  \A p \in Stream!Ends :
    receives[p].runs /\ ~receives'[p].runs =>
      \/ broken
      \/ closed[Stream!Peer(p)] /\ Len(got'[p]) = sent[Stream!Peer(p)]

LEMMA EndingSends ==
  ASSUME StreamInv, Stream!Next
  PROVE  SendEnds
<1> SUFFICES ASSUME NEW p \in Stream!Ends, sends[p].runs, ~sends'[p].runs
             PROVE  sent'[p] - sent[p] = sends[p].count \/ broken
  BY DEF SendEnds
<1>1. /\ StreamType /\ sends[p] \in SendCalls
      /\ sends \in [Stream!Ends -> SendCalls \cup {Stream!NoCall}]
  BY CallFacts DEF StreamInv, StreamType
<1>2. sends' # sends
  OBVIOUS
<1>3. PICK r \in Stream!Ends :
        \/ \E n \in 1 .. MaxBytes : Stream!send(r, n)
        \/ Stream!SendPiece(r) \/ Stream!SendError(r)
  BY <1>2 DEF Stream!Next, Stream!receive, Stream!ReceivePiece,
     Stream!ReceiveEnd, Stream!Close, Stream!Reset
<1>4. CASE \E n \in 1 .. MaxBytes : Stream!send(r, n)
  BY <1>1, <1>4 DEF Stream!send
<1>5. CASE Stream!SendError(r)
  <2>1. broken /\ sends' = [sends EXCEPT ![r] = Stream!NoCall]
    BY <1>5 DEF Stream!SendError, Stream!ReturnSent
  <2> QED  BY <2>1
<1>6. CASE Stream!SendPiece(r)
  <2>1. PICK k \in 1 .. sends[r].remaining :
          IF k = sends[r].remaining
          THEN Stream!ReturnSent(r, sends[r].pos + k)
          ELSE sends' = [sends EXCEPT ![r] = Stream!Advanced(@, k)]
    BY <1>6 DEF Stream!SendPiece
  <2>2. r = p
    BY <1>1, <2>1 DEF Stream!ReturnSent
  <2>3. k = sends[p].remaining
    <3>1. ASSUME k # sends[p].remaining PROVE FALSE
      <4>1. sends'[p] = Stream!Advanced(sends[p], k)
        BY <1>1, <2>1, <2>2, <3>1
      <4>2. Stream!Advanced(sends[p], k).runs = sends[p].runs
        BY <1>1 DEF Stream!Advanced, SendCalls
      <4> QED  BY <4>1, <4>2
    <3> QED  BY <3>1
  <2>4. sent' = [sent EXCEPT ![p] = @ + (sends[p].pos + sends[p].remaining)]
    BY <2>1, <2>2, <2>3 DEF Stream!ReturnSent
  <2>5. sent'[p] = sent[p] + sends[p].count
    BY <1>1, <2>4, SendFields DEF StreamType
  <2>6. sent[p] \in Nat /\ sends[p].count \in Nat
    BY <1>1, SendFields DEF StreamType
  <2> QED  BY <2>5, <2>6
<1> QED  BY <1>3, <1>4, <1>5, <1>6

LEMMA EndingReceives ==
  ASSUME StreamInv, Stream!Next
  PROVE  ReceiveEnds
<1> SUFFICES ASSUME NEW p \in Stream!Ends,
                    receives[p].runs, ~receives'[p].runs, ~broken
             PROVE  /\ closed[Stream!Peer(p)]
                    /\ Len(got'[p]) = sent[Stream!Peer(p)]
  BY DEF ReceiveEnds
<1> DEFINE q == Stream!Peer(p)
<1>1. /\ StreamType /\ receives[p] \in ReceiveCalls
      /\ receives \in [Stream!Ends -> ReceiveCalls \cup {Stream!NoCall}]
      /\ q \in Stream!Ends /\ Stream!Peer(q) = p
  BY CallFacts, Peers DEF StreamInv, StreamType
<1>2. receives' # receives
  OBVIOUS
<1>3. PICK r \in Stream!Ends :
        Stream!receive(r) \/ Stream!ReceivePiece(r) \/ Stream!ReceiveEnd(r)
  BY <1>2 DEF Stream!Next, Stream!send, Stream!SendPiece, Stream!SendError,
     Stream!Close, Stream!Reset
<1>4. CASE Stream!receive(r)
  BY <1>1, <1>4 DEF Stream!receive
<1>5. CASE Stream!ReceivePiece(r)
  <2>1. PICK k \in 1 .. Chunk :
          receives' = [receives EXCEPT ![r].final_data =
             @ \o SubSeq(net[Stream!Peer(r)], 1, k)]
    BY <1>5 DEF Stream!ReceivePiece
  <2>2. receives'[p].runs = receives[p].runs
    BY <1>1, <2>1 DEF ReceiveCalls
  <2> QED  BY <2>2
<1>6. CASE Stream!ReceiveEnd(r)
  <2>1. /\ net[Stream!Peer(r)] = <<>> /\ closed[Stream!Peer(r)]
        /\ got' = [got EXCEPT ![r] = @ \o receives[r].final_data]
        /\ receives' = [receives EXCEPT ![r] = Stream!NoCall]
    BY <1>6 DEF Stream!ReceiveEnd, Stream!ReturnReceived
  <2>2. r = p
    BY <2>1
  <2>3. closed[q] /\ net[q] = <<>> /\ ~sends[q].runs
    BY <1>1, <2>1, <2>2 DEF StreamInv
  <2>4. /\ got[p] \in Seq(Nat) /\ receives[p].final_data \in Seq(Nat)
        /\ sent[q] \in Nat
    BY <1>1 DEF StreamType, ReceiveCalls
  <2>5. got'[p] = got[p] \o receives[p].final_data
    BY <1>1, <2>1, <2>2 DEF StreamType
  <2>6. Flows(got[p], receives[p].final_data, net[q], sent[q] + 0, broken)
    BY <1>1, <2>3 DEF StreamInv, Flow, InCall, Out
  <2>7. /\ Len(got'[p]) = Len(got[p]) + Len(receives[p].final_data)
        /\ Len(got[p]) \in Nat /\ Len(receives[p].final_data) \in Nat
    BY <2>4, <2>5, ConcatProperties
  <2>8. PICK x, y, o : /\ x = Len(got[p]) /\ o = sent[q] + 0
                       /\ y = Len(receives[p].final_data)
    OBVIOUS
  <2>9. x + y + Len(net[q]) =< o /\ o =< x + y + Len(net[q])
    BY <2>6, <2>8 DEF Flows
  <2>10. Len(net[q]) = 0
    BY <2>3
  <2>11. /\ x \in Nat /\ y \in Nat /\ o = sent[q] /\ o \in Nat
         /\ Len(got'[p]) = x + y
    BY <2>4, <2>7, <2>8
  <2>12. x + y =< o /\ o =< x + y
    BY <2>9, <2>10, <2>11
  <2>13. Len(got'[p]) = o
    BY <2>11, <2>12
  <2> QED  BY <2>3, <2>11, <2>13
<1> QED  BY <1>3, <1>4, <1>5, <1>6

(* A program can rely on the counts: send returns fewer bytes than it was  *)
(* given, and receive anything but all that the peer has sent before it    *)
(* closed, only when the connection is broken.                             *)
THEOREM CountsAreReliable == LoopsSpec => CountsCanBeRelied
<1>1. LoopsInit => StreamInv
  BY StreamInit DEF LoopsInit
<1>2. [LoopsNext]_loopvars => [Stream!Next]_streamvars
  BY DEF LoopsNext, loopvars
<1>3. StreamInv /\ [Stream!Next]_streamvars => [SendEnds]_streamvars
  BY EndingSends
<1>4. StreamInv /\ [Stream!Next]_streamvars => [ReceiveEnds]_streamvars
  BY EndingReceives
<1>5. CountsCanBeRelied <=>
        [][SendEnds]_streamvars /\ [][ReceiveEnds]_streamvars
  BY DEF CountsCanBeRelied, Stream!CountsCanBeRelied,
     Stream!ShortSendIsBroken, Stream!ReceiveTakesAll, Stream!vars,
     streamvars, SendEnds, ReceiveEnds
<1> QED  BY <1>1, <1>2, <1>3, <1>4, <1>5, StreamStep, PTL DEF LoopsSpec

-----------------------------------------------------------------------------
(* Sequences of sequences, one after the other.                            *)

\* A set of numbers with 0 and with every successor has them all.
LEMMA SetInduction ==
  ASSUME NEW S, 0 \in S, \A n \in Nat : n \in S => n + 1 \in S
  PROVE  Nat \subseteq S
<1> SUFFICES ASSUME NEW n \in Nat, n \notin S
             PROVE  FALSE
  OBVIOUS
<1> DEFINE T == {m \in 0 .. n : m \in S}
           succ == [m \in T |-> m + 1]
<1>1. IsFiniteSet(T) /\ 0 \in T
  <2>1. IsFiniteSet(0 .. n) /\ T \in SUBSET (0 .. n)
    BY FS_Interval
  <2> QED  BY <2>1, FS_Subset
<1>2. \A m \in T : m + 1 \in T \ {0}
  OBVIOUS
<1>3. succ \in Injection(T, T \ {0})
  BY <1>2 DEF Injection, IsInjective
<1>4. /\ IsFiniteSet(T \ {0})
      /\ Cardinality(T \ {0}) = Cardinality(T) - 1
      /\ Cardinality(T) \in Nat
  BY <1>1, FS_RemoveElement, FS_CardinalityType
<1>5. Cardinality(T) <= Cardinality(T \ {0})
  BY <1>3, <1>4, FS_Injection DEF ExistsInjection
<1> QED  BY <1>4, <1>5

\* f[i] is the first i sequences of s, one after the other.
Joins(f, s, n) ==
  f = [i \in 1 .. n |-> IF i = 1 THEN s[i] ELSE f[i - 1] \o s[i]]

LEMMA JoinsExist ==
  ASSUME NEW s, NEW n \in Nat
  PROVE  \E f : Joins(f, s, n)
<1> DEFINE S == {m \in Nat : \E f : Joins(f, s, m)}
<1>1. 0 \in S
  <2>1. Joins([i \in 1 .. 0 |-> 0], s, 0)
    BY DEF Joins
  <2> QED  BY <2>1
<1>2. ASSUME NEW m \in Nat, m \in S PROVE m + 1 \in S
  <2>1. PICK f : Joins(f, s, m)
    BY <1>2
  <2> DEFINE g == [i \in 1 .. m + 1 |->
                     IF i = 1 THEN s[i]
                     ELSE IF i = m + 1 THEN f[m] \o s[i] ELSE f[i]]
  <2>2. \A i \in 1 .. m : f[i] = g[i]
    BY <2>1 DEF Joins
  <2>3. \A i \in 1 .. m + 1 :
          g[i] = IF i = 1 THEN s[i] ELSE g[i - 1] \o s[i]
    <3> TAKE i \in 1 .. m + 1
    <3>1. CASE i = 1
      BY <3>1
    <3>2. CASE i # 1 /\ i = m + 1
      <4>1. m \in 1 .. m /\ i - 1 = m
        BY <3>2
      <4>2. g[i] = f[m] \o s[i] /\ f[m] = g[m]
        BY <2>2, <3>2, <4>1
      <4> QED  BY <3>2, <4>1, <4>2
    <3>3. CASE i # 1 /\ i # m + 1
      <4>1. i \in 1 .. m /\ i - 1 \in 1 .. m
        BY <3>3
      <4>2. f[i] = f[i - 1] \o s[i]
        BY <2>1, <3>3, <4>1 DEF Joins
      <4>3. f[i] = g[i] /\ f[i - 1] = g[i - 1]
        BY <2>2, <4>1
      <4> QED  BY <3>3, <4>2, <4>3
    <3> QED  BY <3>1, <3>2, <3>3
  <2>4. g = [i \in 1 .. m + 1 |-> g[i]]
    OBVIOUS
  <2>5. Joins(g, s, m + 1)
    BY <2>3, <2>4 DEF Joins
  <2> HIDE DEF g
  <2> QED  BY <2>5
<1>3. n \in S
  <2> HIDE DEF S
  <2> QED  BY <1>1, <1>2, SetInduction
<1> QED  BY <1>3

LEMMA JoinsStep ==
  ASSUME NEW f, NEW s, NEW n \in Nat, Joins(f, s, n), NEW i \in 1 .. n
  PROVE  f[i] = IF i = 1 THEN s[i] ELSE f[i - 1] \o s[i]
BY DEF Joins

Agree(f, g, n) == \A i \in 1 .. n : f[i] = g[i]

LEMMA JoinsAgree ==
  ASSUME NEW f, NEW s, NEW n \in Nat, Joins(f, s, n),
         NEW g, NEW t, NEW k \in Nat, Joins(g, t, k),
         n =< k, Agree(s, t, n)
  PROVE  Agree(f, g, n)
<1> DEFINE S == {i \in Nat : i \in 1 .. n => f[i] = g[i]}
<1>1. 0 \in S
  OBVIOUS
<1>2. ASSUME NEW i \in Nat, i \in S PROVE i + 1 \in S
  <2> SUFFICES ASSUME i + 1 \in 1 .. n PROVE f[i + 1] = g[i + 1]
    OBVIOUS
  <2>1. PICK j : j = i + 1
    OBVIOUS
  <2>2. j \in 1 .. n /\ j \in 1 .. k /\ s[j] = t[j] /\ j - 1 = i
    BY <2>1 DEF Agree
  <2>3. /\ f[j] = IF j = 1 THEN s[j] ELSE f[j - 1] \o s[j]
        /\ g[j] = IF j = 1 THEN t[j] ELSE g[j - 1] \o t[j]
    BY <2>2, JoinsStep
  <2>4. CASE j = 1
    BY <2>1, <2>2, <2>3, <2>4
  <2>5. CASE j # 1
    <3>1. f[i] = g[i]
      BY <1>2, <2>1, <2>2, <2>5
    <3> QED  BY <2>1, <2>2, <2>3, <2>5, <3>1
  <2> QED  BY <2>4, <2>5
<1>3. Nat \subseteq S
  <2> HIDE DEF S
  <2> QED  BY <1>1, <1>2, SetInduction
<1> QED  BY <1>3 DEF Agree

LEMMA FlattenIsLast ==
  ASSUME NEW s, Len(s) \in Nat \ {0}
  PROVE  \E f : Joins(f, s, Len(s)) /\ Dgram!FlattenSeq(s) = f[Len(s)]
<1> DEFINE F == CHOOSE f : Joins(f, s, Len(s))
<1>1. Joins(F, s, Len(s))
  BY JoinsExist
<1>2. Dgram!FlattenSeq(s) = F[Len(s)]
  BY DEF Dgram!FlattenSeq, Joins
<1> HIDE DEF F
<1> QED  BY <1>1, <1>2

LEMMA JoinsTyped ==
  ASSUME NEW A, NEW s \in Seq(Seq(A)), NEW f, Joins(f, s, Len(s))
  PROVE  \A i \in 1 .. Len(s) : f[i] \in Seq(A)
<1> DEFINE S == {i \in Nat : i \in 1 .. Len(s) => f[i] \in Seq(A)}
<1>1. 0 \in S
  OBVIOUS
<1>2. ASSUME NEW i \in Nat, i \in S PROVE i + 1 \in S
  <2> SUFFICES ASSUME i + 1 \in 1 .. Len(s) PROVE f[i + 1] \in Seq(A)
    OBVIOUS
  <2>1. s[i + 1] \in Seq(A)
    OBVIOUS
  <2>2. CASE i = 0
    BY <2>1, <2>2 DEF Joins
  <2>3. CASE i # 0
    <3>1. i \in 1 .. Len(s) /\ i + 1 # 1 /\ (i + 1) - 1 = i
      BY <2>3
    <3>2. f[i] \in Seq(A)
      BY <1>2, <3>1
    <3>3. f[i + 1] = f[i] \o s[i + 1]
      BY <3>1 DEF Joins
    <3> QED  BY <2>1, <3>2, <3>3
  <2> QED  BY <2>2, <2>3
<1>3. Nat \subseteq S
  <2> HIDE DEF S
  <2> QED  BY <1>1, <1>2, SetInduction
<1> QED  BY <1>3

\* What is appended to a sequence of sequences comes last.
LEMMA FlattenAppend ==
  ASSUME NEW A, NEW s \in Seq(Seq(A)), NEW d \in Seq(A)
  PROVE  /\ Dgram!FlattenSeq(s) \in Seq(A)
         /\ Dgram!FlattenSeq(Append(s, d)) = Dgram!FlattenSeq(s) \o d
<1> DEFINE n == Len(s)
           t == Append(s, d)
<1>1. /\ t \in Seq(Seq(A)) /\ Len(t) = n + 1 /\ t[n + 1] = d
      /\ \A i \in 1 .. n : s[i] = t[i]
      /\ n \in Nat
  OBVIOUS
<1> HIDE DEF n, t
<1>2. PICK g : Joins(g, t, n + 1) /\ Dgram!FlattenSeq(t) = g[n + 1]
  BY <1>1, FlattenIsLast
<1>3. CASE n = 0
  <2>1. s = <<>> /\ Dgram!FlattenSeq(s) = <<>>
    BY <1>3 DEF Dgram!FlattenSeq, n
  <2>2. g[1] = t[1]
    BY <1>2, <1>3 DEF Joins
  <2>3. Dgram!FlattenSeq(t) = d
    BY <1>1, <1>2, <1>3, <2>2
  <2>4. <<>> \o d = d /\ <<>> \in Seq(A)
    OBVIOUS
  <2> QED  BY <2>1, <2>3, <2>4 DEF t
<1>4. CASE n # 0
  <2>1. PICK f : Joins(f, s, n) /\ Dgram!FlattenSeq(s) = f[n]
    BY <1>1, <1>4, FlattenIsLast DEF n
  <2>2. f[n] \in Seq(A)
    BY <1>1, <1>4, <2>1, JoinsTyped DEF n
  <2>3. f[n] = g[n]
    <3>1. PICK k : k = n + 1
      OBVIOUS
    <3>2. /\ n \in Nat /\ k \in Nat /\ n =< k
          /\ Joins(f, s, n) /\ Joins(g, t, k)
          /\ Agree(s, t, n)
      BY <1>1, <1>2, <2>1, <3>1 DEF Agree
    <3>3. Agree(f, g, n)
      BY <3>2, JoinsAgree
    <3> QED  BY <1>1, <1>4, <3>3 DEF Agree
  <2>4. g[n + 1] = g[n] \o t[n + 1]
    <3>1. n + 1 \in 1 .. n + 1 /\ n + 1 # 1 /\ (n + 1) - 1 = n
      BY <1>1, <1>4
    <3> QED  BY <1>2, <3>1 DEF Joins
  <2> QED  BY <1>1, <1>2, <2>1, <2>2, <2>3, <2>4 DEF t
<1> QED  BY <1>3, <1>4

-----------------------------------------------------------------------------
(* The transfers over UDP.                                                 *)

Datagrams == [from : Senders, n : Nat \ {0}]
Addresses == Senders \cup {Dgram!Nobody, Dgram!Empty.from}

Given == [by : {"receive", "wait"}, data : Seq(Datagrams),
          addrs : Seq(Addresses)]
TakingCalls == [runs : {TRUE}, final_data : Seq(Datagrams),
                addr_arr : Seq(Addresses), mi_udp_addr : Addresses]

DatagramType ==
  /\ dg_sends \in [Senders -> Nat]
  /\ dg_net \subseteq Datagrams
  /\ queue \in Seq(Datagrams \cup {Dgram!Empty})
  /\ dg_receives \in TakingCalls \cup {Dgram!NoCall}
  /\ results \in Seq(Given)
  /\ taken \in Seq(Datagrams)

\* The addresses a name the senders of the datagrams d.
Names(a, d) == \A j \in DOMAIN d : a[j] = d[j].from

Datas(s)  == [i \in DOMAIN s |-> s[i].data]
InHand(c) == IF c.runs THEN c.final_data ELSE <<>>

\* What the running call has of each datagram it has taken.
CallMatches ==
  dg_receives.runs =>
    /\ Len(dg_receives.addr_arr) = Len(dg_receives.final_data)
    /\ Names(dg_receives.addr_arr, dg_receives.final_data)

Matches(r) ==
  r.by = "receive" =>
    Len(r.addrs) = Len(r.data) + 1 /\ Names(r.addrs, r.data)

NothingLost ==
  Dgram!FlattenSeq(Datas(results)) \o InHand(dg_receives) = taken

DatagramInv ==
  /\ DatagramType
  /\ CallMatches
  /\ \A i \in DOMAIN results : Matches(results[i])
  /\ NothingLost

LEMMA DatagramInvIntact == DatagramInv => DatagramsIntact
BY DEF DatagramInv, DatagramsIntact, Dgram!DatagramsIntact, NothingLost,
   Dgram!NothingTakenIsLost, Datas, InHand, Dgram!AddressesMatch, Matches,
   Names

LEMMA NamesMore ==
  ASSUME NEW a \in Seq(Addresses), NEW d \in Seq(Datagrams),
         Len(a) = Len(d), Names(a, d), NEW x \in Addresses
  PROVE  /\ Names(Append(a, x), d)
         /\ \A e \in Datagrams :
              x = e.from => Names(Append(a, x), Append(d, e))
BY DEF Names

LEMMA DatasAppend ==
  ASSUME NEW s \in Seq(Given), NEW r \in Given
  PROVE  /\ Datas(Append(s, r)) = Append(Datas(s), r.data)
         /\ Datas(s) \in Seq(Seq(Datagrams))
         /\ r.data \in Seq(Datagrams)
<1>1. r.data \in Seq(Datagrams) /\ \A i \in 1 .. Len(s) : s[i] \in Given
  <2>1. r.data \in Seq(Datagrams)
    BY DEF Given
  <2> QED  BY <2>1
<1> DEFINE n == Len(s)
           D == Datas(s)
           w == Append(s, r)
<1>2. n \in Nat /\ DOMAIN s = 1 .. n
  BY LenProperties
<1>3. D = [i \in 1 .. n |-> s[i].data]
  BY <1>2 DEF Datas
<1>4. \A i \in 1 .. n : s[i].data \in Seq(Datagrams)
  BY <1>1 DEF Given
<1>5. D \in Seq(Seq(Datagrams)) /\ Len(D) = n
  <2> HIDE DEF D, n
  <2>1. D \in [1 .. n -> Seq(Datagrams)]
    BY <1>3, <1>4
  <2> QED  BY <1>2, <2>1
<1>6. /\ w \in Seq(Given) /\ DOMAIN w = 1 .. n + 1 /\ w[n + 1] = r
      /\ \A i \in 1 .. n : w[i] = s[i]
  BY <1>2
<1>7. Datas(w) = [i \in 1 .. n + 1 |-> w[i].data]
  BY <1>6 DEF Datas
<1>8. \A i \in 1 .. n + 1 : w[i].data = Append(D, r.data)[i]
  <2> HIDE DEF D, n, w
  <2> TAKE i \in 1 .. n + 1
  <2>1. CASE i \in 1 .. n
    BY <1>2, <1>3, <1>5, <1>6, <1>1, <2>1
  <2>2. CASE i = n + 1
    BY <1>2, <1>5, <1>6, <1>1, <2>2
  <2>3. i \in 1 .. n \/ i = n + 1
    BY <1>2
  <2> QED  BY <2>1, <2>2, <2>3
<1>9. /\ Append(D, r.data) \in Seq(Seq(Datagrams))
      /\ DOMAIN Append(D, r.data) = 1 .. n + 1
  <2> HIDE DEF D, n
  <2> QED  BY <1>1, <1>2, <1>5, AppendProperties, LenProperties
<1>10. Append(D, r.data) = [i \in 1 .. n + 1 |-> Append(D, r.data)[i]]
  <2> HIDE DEF D, n
  <2>1. PICK v : v = Append(D, r.data)
    OBVIOUS
  <2>2. v \in [1 .. n + 1 -> Seq(Datagrams)]
    <3>1. v \in Seq(Seq(Datagrams)) /\ DOMAIN v = 1 .. n + 1
      BY <1>9, <2>1
    <3>2. v \in [1 .. Len(v) -> Seq(Datagrams)]
      BY <3>1, LenProperties
    <3> QED  BY <3>1, <3>2
  <2> QED  BY <2>1, <2>2
<1>11. Datas(w) = Append(D, r.data)
  <2> HIDE DEF D, n, w
  <2> QED  BY <1>7, <1>8, <1>10
<1> QED  BY <1>1, <1>5, <1>11

LEMMA ResultAppended ==
  ASSUME DatagramInv, NEW r \in Given, Matches(r),
         results' = Append(results, r)
  PROVE  /\ results' \in Seq(Given)
         /\ \A i \in DOMAIN results' : Matches(results'[i])
         /\ Dgram!FlattenSeq(Datas(results'))
              = Dgram!FlattenSeq(Datas(results)) \o r.data
         /\ Dgram!FlattenSeq(Datas(results)) \in Seq(Datagrams)
         /\ r.data \in Seq(Datagrams)
<1>1. results \in Seq(Given) /\ \A i \in DOMAIN results : Matches(results[i])
  BY DEF DatagramInv, DatagramType
<1>2. results' \in Seq(Given)
  BY <1>1
<1>3. \A i \in DOMAIN results' : Matches(results'[i])
  <2>1. \A i \in DOMAIN results' :
          results'[i] = r \/ (i \in DOMAIN results /\ results'[i] = results[i])
    BY <1>1
  <2> QED  BY <1>1, <2>1
<1>4. PICK D : D = Datas(results)
  OBVIOUS
<1>5. /\ Datas(results') = Append(D, r.data)
      /\ D \in Seq(Seq(Datagrams)) /\ r.data \in Seq(Datagrams)
  BY <1>1, <1>4, DatasAppend
<1>6. /\ Dgram!FlattenSeq(Append(D, r.data)) = Dgram!FlattenSeq(D) \o r.data
      /\ Dgram!FlattenSeq(D) \in Seq(Datagrams)
  BY <1>5, FlattenAppend
<1> QED  BY <1>2, <1>3, <1>4, <1>5, <1>6

LEMMA FlattenTyped ==
  ASSUME NEW s \in Seq(Given)
  PROVE  Dgram!FlattenSeq(Datas(s)) \in Seq(Datagrams)
<1>1. PICK r : r \in Given
  <2>1. [by |-> "wait", data |-> <<>>, addrs |-> <<>>] \in Given
    BY DEF Given
  <2> QED  BY <2>1
<1>2. PICK D : D = Datas(s)
  OBVIOUS
<1>3. D \in Seq(Seq(Datagrams)) /\ <<>> \in Seq(Datagrams)
  BY <1>1, <1>2, DatasAppend
<1> QED  BY <1>2, <1>3, FlattenAppend

\* The steps that give and take nothing.
LEMMA NetworkStep ==
  ASSUME DatagramInv,
         \/ \E c \in Senders : Dgram!Send(c) \/ Dgram!SendFails(c)
         \/ \E d \in dg_net : Dgram!Arrive(d)
         \/ Dgram!ArriveEmpty \/ Dgram!WaitEmpty
  PROVE  DatagramInv'
<1>1. DatagramType
  BY DEF DatagramInv
<1>2. UNCHANGED <<dg_receives, results, taken>>
  BY DEF Dgram!Send, Dgram!SendFails, Dgram!Arrive, Dgram!ArriveEmpty,
     Dgram!WaitEmpty
<1>3. dg_sends' \in [Senders -> Nat] /\ dg_net' \subseteq Datagrams
  <2>1. CASE \E c \in Senders : Dgram!Send(c)
    <3>1. PICK c \in Senders : Dgram!Send(c)
      BY <2>1
    <3>2. dg_sends' = [dg_sends EXCEPT ![c] = @ + 1]
      BY <3>1 DEF Dgram!Send
    <3>3. [from |-> c, n |-> dg_sends[c] + 1] \in Datagrams
      BY <1>1 DEF DatagramType, Datagrams
    <3> QED  BY <1>1, <3>1, <3>2, <3>3 DEF Dgram!Send, DatagramType
  <2>2. CASE ~\E c \in Senders : Dgram!Send(c)
    BY <1>1, <2>2 DEF Dgram!SendFails, Dgram!Arrive,
       Dgram!ArriveEmpty, Dgram!WaitEmpty, DatagramType
  <2> QED  BY <2>1, <2>2
<1>4. queue' \in Seq(Datagrams \cup {Dgram!Empty})
  <2>1. \/ queue' = queue
        \/ \E d \in Datagrams \cup {Dgram!Empty} : queue' = Append(queue, d)
        \/ queue # <<>> /\ queue' = Tail(queue)
    BY <1>1 DEF DatagramType, Dgram!Send, Dgram!SendFails, Dgram!Arrive,
       Dgram!ArriveEmpty, Dgram!WaitEmpty
  <2>2. queue \in Seq(Datagrams \cup {Dgram!Empty})
    BY <1>1 DEF DatagramType
  <2>3. queue # <<>> => Tail(queue) \in Seq(Datagrams \cup {Dgram!Empty})
    BY <2>2, HeadTailProperties
  <2>4. \A d \in Datagrams \cup {Dgram!Empty} :
          Append(queue, d) \in Seq(Datagrams \cup {Dgram!Empty})
    BY <2>2, AppendProperties
  <2> QED  BY <2>1, <2>2, <2>3, <2>4
<1>5. DatagramType'
  BY <1>1, <1>2, <1>3, <1>4 DEF DatagramType
<1> QED  BY <1>2, <1>5 DEF DatagramInv, CallMatches, NothingLost

LEMMA ReceiveCallStep ==
  ASSUME DatagramInv, Dgram!receive
  PROVE  DatagramInv'
<1>1. /\ ~dg_receives.runs
      /\ dg_receives' = [runs |-> TRUE, final_data |-> <<>>,
                         addr_arr |-> <<>>, mi_udp_addr |-> Dgram!Nobody]
      /\ UNCHANGED <<dg_sends, dg_net, queue, results, taken>>
  BY DEF Dgram!receive
<1>2. dg_receives' \in TakingCalls
  BY <1>1 DEF TakingCalls, Addresses
<1>3. DatagramType'
  BY <1>1, <1>2 DEF DatagramInv, DatagramType
<1>4. CallMatches'
  BY <1>1 DEF CallMatches, Names
<1>5. InHand(dg_receives) = <<>> /\ InHand(dg_receives)' = <<>>
  BY <1>1 DEF InHand
<1> QED  BY <1>1, <1>3, <1>4, <1>5 DEF DatagramInv, NothingLost

\* What heads the queue and is not empty is a datagram of a sender.
LEMMA HeadTaken ==
  ASSUME DatagramInv, queue # <<>>
  PROVE  /\ Tail(queue) \in Seq(Datagrams \cup {Dgram!Empty})
         /\ Head(queue) # Dgram!Empty =>
              Head(queue) \in Datagrams /\ Head(queue).from \in Addresses
BY DEF DatagramInv, DatagramType, Datagrams, Addresses

LEMMA ReceiveDatagramStep ==
  ASSUME DatagramInv, Dgram!ReceiveDatagram
  PROVE  DatagramInv'
<1> DEFINE h == Head(queue)
           c == dg_receives
           d == c.final_data
           a == c.addr_arr
<1>1. /\ DatagramType /\ c.runs /\ queue # <<>> /\ h # Dgram!Empty
      /\ dg_receives' = [Dgram!Addressed(c, h.from)
                           EXCEPT !.final_data = Append(@, h)]
      /\ queue' = Tail(queue) /\ taken' = Append(taken, h)
      /\ UNCHANGED <<dg_sends, dg_net, results>>
  BY DEF Dgram!ReceiveDatagram, DatagramInv
<1>2. h \in Datagrams /\ h.from \in Addresses
  BY <1>1, HeadTaken
<1>3. c \in TakingCalls
  BY <1>1 DEF DatagramType, Dgram!NoCall
<1>4. /\ d \in Seq(Datagrams) /\ a \in Seq(Addresses)
      /\ Len(a) = Len(d) /\ Names(a, d)
  BY <1>1, <1>3 DEF TakingCalls, DatagramInv, CallMatches
<1>5. dg_receives' = [runs |-> TRUE, final_data |-> Append(d, h),
                      addr_arr |-> Append(a, h.from),
                      mi_udp_addr |-> h.from]
  BY <1>1, <1>3 DEF Dgram!Addressed, TakingCalls
<1>6. dg_receives' \in TakingCalls
  <2>1. Append(d, h) \in Seq(Datagrams) /\ Append(a, h.from) \in Seq(Addresses)
    BY <1>2, <1>4
  <2> HIDE DEF d, a, h, c
  <2> QED  BY <1>2, <1>5, <2>1 DEF TakingCalls
<1>7. DatagramType'
  BY <1>1, <1>2, <1>6, HeadTaken DEF DatagramType
<1>8. CallMatches'
  <2>1. Names(Append(a, h.from), Append(d, h))
    BY <1>2, <1>4, NamesMore
  <2>2. Len(Append(a, h.from)) = Len(Append(d, h))
    BY <1>2, <1>4, AppendProperties
  <2> HIDE DEF d, a, h, c
  <2> QED  BY <1>5, <2>1, <2>2 DEF CallMatches
<1>9. NothingLost'
  <2>1. PICK F : F = Dgram!FlattenSeq(Datas(results))
    OBVIOUS
  <2>2. F \in Seq(Datagrams) /\ F \o d = taken
    <3>1. F \in Seq(Datagrams)
      BY <1>1, <2>1, FlattenTyped DEF DatagramType
    <3> QED  BY <1>1, <2>1, <3>1 DEF DatagramInv, NothingLost, InHand
  <2>3. F \o Append(d, h) = Append(taken, h)
    <3>0. PICK e : e = <<h>>
      OBVIOUS
    <3>1. Append(d, h) = d \o e /\ e \in Seq(Datagrams)
      BY <1>2, <1>4, <3>0, AppendIsConcat
    <3>2. F \o d \in Seq(Datagrams)
      BY <1>4, <2>2, ConcatProperties
    <3>3. Append(F \o d, h) = (F \o d) \o e
      BY <1>2, <3>0, <3>2, AppendIsConcat
    <3>4. (F \o d) \o e = F \o (d \o e)
      <4> HIDE DEF d
      <4> QED  BY <1>4, <2>2, <3>1, ConcatAssociative
    <3> QED  BY <2>2, <3>1, <3>3, <3>4
  <2> HIDE DEF d, a, h, c
  <2>4. InHand(dg_receives)' = Append(d, h)
    BY <1>5 DEF InHand
  <2> QED  BY <1>1, <2>1, <2>3, <2>4 DEF NothingLost
<1> QED  BY <1>1, <1>7, <1>8, <1>9 DEF DatagramInv

\* receive returns what it has and an address more.
LEMMA ReturnStep ==
  ASSUME DatagramInv, NEW x \in Addresses, dg_receives.runs,
         Dgram!Return(Dgram!Addressed(dg_receives, x)),
         UNCHANGED <<dg_sends, dg_net, taken>>,
         queue' = queue \/ (queue # <<>> /\ queue' = Tail(queue))
  PROVE  DatagramInv'
<1> DEFINE c == dg_receives
           d == c.final_data
           a == c.addr_arr
           r == [by |-> "receive", data |-> d, addrs |-> Append(a, x)]
<1>1. DatagramType /\ c \in TakingCalls /\ InHand(c) = d
  BY DEF DatagramInv, DatagramType, Dgram!NoCall, InHand
<1>2. /\ d \in Seq(Datagrams) /\ a \in Seq(Addresses)
      /\ Len(a) = Len(d) /\ Names(a, d)
  BY <1>1 DEF TakingCalls, DatagramInv, CallMatches
<1>3. results' = Append(results, r) /\ dg_receives' = Dgram!NoCall
  <2>1. /\ Dgram!Addressed(c, x).final_data = d
        /\ Dgram!Addressed(c, x).addr_arr = Append(a, x)
    BY <1>1 DEF Dgram!Addressed, TakingCalls
  <2> HIDE DEF c, d, a
  <2> QED  BY <2>1 DEF Dgram!Return, c
<1>4. Append(a, x) \in Seq(Addresses) /\ Len(Append(a, x)) = Len(d) + 1
  BY <1>2, AppendProperties
<1>5. Names(Append(a, x), d)
  BY <1>2, NamesMore
<1> HIDE DEF c, d, a
<1>6. r \in Given /\ Matches(r)
  BY <1>2, <1>4, <1>5 DEF Given, Matches
<1>7. r.data = d
  OBVIOUS
<1> HIDE DEF r
<1>8. /\ results' \in Seq(Given)
      /\ \A i \in DOMAIN results' : Matches(results'[i])
      /\ Dgram!FlattenSeq(Datas(results')) =
           Dgram!FlattenSeq(Datas(results)) \o d
      /\ Dgram!FlattenSeq(Datas(results)) \in Seq(Datagrams)
  BY <1>3, <1>6, <1>7, ResultAppended
<1>9. ~Dgram!NoCall.runs
  BY DEF Dgram!NoCall
<1>10. DatagramType'
  BY <1>1, <1>3, <1>8, HeadTaken DEF DatagramType
<1>11. NothingLost'
  <2>1. InHand(dg_receives)' = <<>>
    BY <1>3, <1>9 DEF InHand
  <2>2. PICK F, G : /\ F = Dgram!FlattenSeq(Datas(results))
                    /\ G = Dgram!FlattenSeq(Datas(results'))
    OBVIOUS
  <2>3. G = F \o d /\ F \o d = taken /\ F \o d \in Seq(Datagrams)
    BY <1>1, <1>2, <1>8, <2>2, ConcatProperties
       DEF DatagramInv, NothingLost, c
  <2>4. G \o <<>> = taken'
    BY <2>3, ConcatEmptySeq
  <2> QED  BY <2>1, <2>2, <2>4 DEF NothingLost
<1> QED  BY <1>3, <1>8, <1>9, <1>10, <1>11 DEF DatagramInv, CallMatches

LEMMA WaitDatagramStep ==
  ASSUME DatagramInv, Dgram!WaitDatagram
  PROVE  DatagramInv'
<1> DEFINE h == Head(queue)
<1>1. /\ DatagramType /\ ~dg_receives.runs /\ queue # <<>>
      /\ h # Dgram!Empty
      /\ queue' = Tail(queue) /\ taken' = Append(taken, h)
      /\ UNCHANGED <<dg_sends, dg_net, dg_receives>>
  BY DEF Dgram!WaitDatagram, DatagramInv
<1>2. PICK r \in {Dgram!Given(h), Dgram!GivenAlone(h)} :
        results' = Append(results, r)
  BY DEF Dgram!WaitDatagram
<1>3. h \in Datagrams /\ h.from \in Addresses
  BY <1>1, HeadTaken
<1> HIDE DEF h
<1>4. PICK e, f, n : e = <<h>> /\ f = <<h.from>> /\ n = <<>>
  OBVIOUS
<1>5. e \in Seq(Datagrams) /\ f \in Seq(Addresses) /\ n \in Seq(Addresses)
  BY <1>3, <1>4
<1>6. \/ r = [by |-> "wait", data |-> e, addrs |-> f]
      \/ r = [by |-> "wait", data |-> e, addrs |-> n]
  BY <1>2, <1>4 DEF Dgram!Given, Dgram!GivenAlone
<1>7. r \in Given /\ Matches(r) /\ r.data = e
  <2>1. CASE r = [by |-> "wait", data |-> e, addrs |-> f]
    BY <1>5, <2>1 DEF Given, Matches
  <2>2. CASE r = [by |-> "wait", data |-> e, addrs |-> n]
    BY <1>5, <2>2 DEF Given, Matches
  <2> QED  BY <1>6, <2>1, <2>2
<1>8. /\ results' \in Seq(Given)
      /\ \A i \in DOMAIN results' : Matches(results'[i])
      /\ Dgram!FlattenSeq(Datas(results')) =
           Dgram!FlattenSeq(Datas(results)) \o e
      /\ Dgram!FlattenSeq(Datas(results)) \in Seq(Datagrams)
  BY <1>2, <1>7, ResultAppended
<1>9. DatagramType'
  BY <1>1, <1>3, <1>8, HeadTaken DEF DatagramType
<1>10. NothingLost'
  <2>1. InHand(dg_receives) = <<>> /\ InHand(dg_receives)' = <<>>
    BY <1>1 DEF InHand
  <2>2. PICK F, G : /\ F = Dgram!FlattenSeq(Datas(results))
                    /\ G = Dgram!FlattenSeq(Datas(results'))
    OBVIOUS
  <2>3. F \in Seq(Datagrams) /\ G = F \o e /\ F \o <<>> = taken
    BY <1>8, <2>1, <2>2 DEF DatagramInv, NothingLost
  <2>4. F = taken
    BY <2>3, ConcatEmptySeq
  <2>5. Append(F, h) = F \o e
    BY <1>3, <1>4, <2>3, AppendIsConcat
  <2>6. G \in Seq(Datagrams)
    BY <1>5, <2>3, ConcatProperties
  <2>7. G \o <<>> = G
    BY <2>6, ConcatEmptySeq
  <2> QED  BY <1>1, <2>1, <2>2, <2>3, <2>4, <2>5, <2>7 DEF NothingLost
<1> QED  BY <1>1, <1>8, <1>9, <1>10 DEF DatagramInv, CallMatches

LEMMA DatagramStep ==
  ASSUME DatagramInv, [Dgram!Next]_dgramvars
  PROVE  DatagramInv'
<1>1. CASE UNCHANGED dgramvars
  BY <1>1 DEF dgramvars, DatagramInv, DatagramType, CallMatches, NothingLost
<1>2. CASE Dgram!ReceiveEmpty
  <2>1. Dgram!Empty.from \in Addresses
    BY DEF Addresses
  <2> QED  BY <1>2, <2>1, ReturnStep DEF Dgram!ReceiveEmpty
<1>3. CASE Dgram!ReceiveError
  <2>1. dg_receives \in TakingCalls
    BY <1>3 DEF Dgram!ReceiveError, DatagramInv, DatagramType, Dgram!NoCall
  <2>2. PICK x \in Addresses : x = dg_receives.mi_udp_addr
    BY <2>1 DEF TakingCalls
  <2> QED  BY <1>3, <2>2, ReturnStep DEF Dgram!ReceiveError
<1> QED
  BY <1>1, <1>2, <1>3, NetworkStep, ReceiveCallStep, ReceiveDatagramStep,
     WaitDatagramStep DEF Dgram!Next

LEMMA DatagramInit == Dgram!Init => DatagramInv
<1> SUFFICES ASSUME Dgram!Init PROVE DatagramInv
  OBVIOUS
<1>1. ~Dgram!NoCall.runs
  BY DEF Dgram!NoCall
<1>2. DatagramType
  BY DEF Dgram!Init, DatagramType
<1>3. Datas(results) = <<>> /\ Dgram!FlattenSeq(<<>>) = <<>>
  BY DEF Dgram!Init, Datas, Dgram!FlattenSeq
<1>4. NothingLost
  BY <1>1, <1>3 DEF Dgram!Init, NothingLost, InHand
<1> QED  BY <1>1, <1>2, <1>4 DEF Dgram!Init, DatagramInv, CallMatches

(* However many datagrams arrive, in whatever order and however often:     *)
(* what the system hands over with data is given to the program, once and  *)
(* in that order, and the addresses receive gives name the senders of the  *)
(* datagrams it gives, with one address more at the end.                   *)
THEOREM DatagramsAreIntact == LoopsSpec => []DatagramsIntact
<1>1. LoopsInit => DatagramInv
  BY DatagramInit DEF LoopsInit
<1>2. [LoopsNext]_loopvars => [Dgram!Next]_dgramvars
  BY DEF LoopsNext, loopvars
<1> QED  BY <1>1, <1>2, DatagramStep, DatagramInvIntact, PTL DEF LoopsSpec
=============================================================================
