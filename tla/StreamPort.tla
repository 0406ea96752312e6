----------------------------- MODULE StreamPort -----------------------------
(***************************************************************************)
(* A slave port of a stream device (class StreamSlavePortT, stream_port.hh)*)
(* and what the master port bound to it knows of its packet (MemSidePort   *)
(* of comm_interface.cc).  A port is a value and its methods map a port to *)
(* a port; the modules that use ports hold them in their variables.        *)
(*                                                                         *)
(* The port is busy for a while after each packet it takes (the bandwidth  *)
(* of the device is not 0) and answers it after a delay of its own.        *)
(***************************************************************************)
EXTENDS Sequences

\* pkt: what has become of the packet of the request that the port carries,
\* "none" if it carries no request.  data: the bytes of that packet.
FreePort == [isBusy |-> FALSE, retryReq |-> FALSE, pkt |-> "none", data |-> <<>>]

\* Mutant: a packet that comes while the port is busy is forgotten.
RefusedForGood(p, data) == [p EXCEPT !.pkt = "stalled", !.data = data]

\* recvTimingReq() returns false: the master keeps the packet (setStalled()).
\* Only a busy port takes note that it has to call back.
Refused(p, data) ==
  [p EXCEPT !.pkt = "stalled", !.data = data, !.retryReq = @ \/ p.isBusy]

\* recvTimingReq() takes the packet: the release event and the answer are
\* scheduled.
Taken(p, data) == [p EXCEPT !.pkt = "taken", !.data = data, !.isBusy = TRUE]

\* release(), up to sendRetryReq().
Released(p) == [p EXCEPT !.isBusy = FALSE, !.retryReq = FALSE]

\* The answer reaches the master: the port carries no request any more.
Answered(p) == [p EXCEPT !.pkt = "none", !.data = <<>>]
=============================================================================
