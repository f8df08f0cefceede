----------------------------- MODULE EpollMasks ------------------------------
(***************************************************************************)
(* Every mask a caller can arm, one flag at a time, against the two        *)
(* conversions of EpollEvents.                                             *)
(***************************************************************************)
EXTENDS EpollEvents

VARIABLE mask    \* the user_events of one socket

\* epoll_ctl with one more or one less flag; ERR and HUP are always added.
Rearm(e) ==
  mask' = (IF e \in mask THEN mask \ {e} ELSE mask \cup {e}) \cup AlwaysReported

Init == mask = AlwaysReported
Next == \E e \in KnownEvents : Rearm(e)
Spec == Init /\ [][Next]_mask

(* A request that completes is never futile: each condition AFD watches    *)
(* for a mask is reported as an event of that mask.  Otherwise the level-  *)
(* triggered resubmission of sock_feed_event would spin without an event.  *)
NoFutileWakeup ==
  \A c \in EpollToAfd(mask) \ {"LOCAL_CLOSE"} : Meets(AfdToEpoll({c}), mask)

(* No armed event is deaf: but for EPOLLMSG, which is never reported, each *)
(* event of the mask is raised by some condition AFD watches for it.       *)
NoDeafEvent ==
  \A e \in mask \ {"EPOLLMSG"} :
    \E c \in EpollToAfd(mask) : e \in AfdToEpoll({c})

(* What is watched and what is reported fit together, in both directions.  *)
MasksAgree == NoFutileWakeup /\ NoDeafEvent
=============================================================================
