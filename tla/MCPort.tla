------------------------------- MODULE MCPort --------------------------------
(***************************************************************************)
(* Small instances of WepollPort: the masks and the symmetries.            *)
(***************************************************************************)
EXTENDS WepollPort, TLC

ReadMask    == {"EPOLLIN"}
WriteOnce   == {"EPOLLOUT", "EPOLLONESHOT"}
ReadOnce    == {{"EPOLLIN", "EPOLLONESHOT"}}
AnyTimeout  == {"zero", "finite", "infinite"}
ReadOnly    == {ReadMask}
\* Two masks of which neither covers the other, so that each modification
\* cancels the request.
ReadAnd     == {{"EPOLLIN", "EPOLLOUT"}, {"EPOLLIN", "EPOLLPRI"}}
ReadOrWrite == {ReadMask, WriteOnce}
Readable    == {"RECEIVE"}

\* Threads and blocks are interchangeable: no constant names one of them.
Symmetry == Permutations(Threads) \cup Permutations(Blocks)
=============================================================================
