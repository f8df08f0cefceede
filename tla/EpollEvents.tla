----------------------------- MODULE EpollEvents -----------------------------
(***************************************************************************)
(* The event masks of wepoll.c.  A 32-bit mask is the set of its flags.    *)
(* The two conversions between the events of epoll and those of the AFD    *)
(* driver are pure; WepollPort applies them when it submits a poll request *)
(* and when it feeds a completion.                                         *)
(*                                                                         *)
(* Definitions with the same parameters that follow each other without a   *)
(* blank line, or under one comment, are a piece of the code, the last of  *)
(* them, and slips of it that the properties must tell apart from it.      *)
(***************************************************************************)

\* SOCK__KNOWN_EPOLL_EVENTS: every flag but EPOLLONESHOT.
KnownEvents ==
  {"EPOLLIN", "EPOLLPRI", "EPOLLOUT", "EPOLLERR", "EPOLLHUP", "EPOLLRDNORM",
   "EPOLLRDBAND", "EPOLLWRNORM", "EPOLLWRBAND", "EPOLLMSG", "EPOLLRDHUP"}

EpollMask == SUBSET (KnownEvents \cup {"EPOLLONESHOT"})

\* Reported even when the caller does not ask for them (sock_set_event).
AlwaysReported == {"EPOLLERR", "EPOLLHUP"}

AfdEvents ==
  {"RECEIVE", "RECEIVE_EXPEDITED", "SEND", "DISCONNECT", "ABORT",
   "LOCAL_CLOSE", "ACCEPT", "CONNECT_FAIL"}

Meets(a, b) == a \cap b # {}
When(c, S)  == IF c THEN S ELSE {}

\* The masks that ask for urgent data, and what a disconnect is reported as.
Urgent(m) == Meets(m, {"EPOLLPRI", "EPOLLRDBAND"})

DisconnectAsInput == {"EPOLLIN", "EPOLLRDNORM"}
Disconnected      == {"EPOLLIN", "EPOLLRDNORM", "EPOLLRDHUP"}

EpollToAfd(m) ==
  {"LOCAL_CLOSE"}
  \cup When(Meets(m, {"EPOLLIN", "EPOLLRDNORM"}), {"RECEIVE", "ACCEPT"})
  \cup When(Urgent(m), {"RECEIVE_EXPEDITED"})
  \cup When(Meets(m, {"EPOLLOUT", "EPOLLWRNORM", "EPOLLWRBAND"}), {"SEND"})
  \cup When(Meets(m, {"EPOLLIN", "EPOLLRDNORM", "EPOLLRDHUP"}), {"DISCONNECT"})
  \cup When("EPOLLHUP" \in m, {"ABORT"})
  \cup When("EPOLLERR" \in m, {"CONNECT_FAIL"})

AfdToEpoll(a) ==
  When(Meets(a, {"RECEIVE", "ACCEPT"}), {"EPOLLIN", "EPOLLRDNORM"})
  \cup When("RECEIVE_EXPEDITED" \in a, {"EPOLLPRI", "EPOLLRDBAND"})
  \cup When("SEND" \in a, {"EPOLLOUT", "EPOLLWRNORM", "EPOLLWRBAND"})
  \cup When("DISCONNECT" \in a, Disconnected)
  \cup When("ABORT" \in a, {"EPOLLHUP"})
  \cup When("CONNECT_FAIL" \in a,
            {"EPOLLIN", "EPOLLOUT", "EPOLLERR", "EPOLLRDNORM", "EPOLLWRNORM",
             "EPOLLRDHUP"})
=============================================================================
