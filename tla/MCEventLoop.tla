---------------------------- MODULE MCEventLoop ----------------------------
(* The event loop with two descriptors; two ticks make a millisecond, so a  *)
(* deadline may fall between two timeouts of epoll_wait.                     *)
EXTENDS EventLoop
============================================================================
