--------------------------- MODULE RequestService ---------------------------
(***************************************************************************)
(* What CommInterface promises the compute unit: a request that was handed *)
(* over has its bytes moved in address order, any number at a time, each   *)
(* byte between its own address and its own place in the buffer, and is    *)
(* committed in the step that moves the last one.                          *)
(***************************************************************************)
EXTENDS Integers

CONSTANTS Reqs, ReqAddr, ReqLen

VARIABLES
  status,   \* "free", "live" or "committed"
  moved     \* the <<address, buffer index>> pairs of the bytes moved

vars == <<status, moved>>

\* The first n bytes of request r.
Prefix(r, n) == {<<ReqAddr[r] + i, i>> : i \in 0..(n - 1)}

Init ==
  /\ status = [r \in Reqs |-> "free"]
  /\ moved = [r \in Reqs |-> {}]

Submit(r) ==
  /\ status[r] # "live"
  /\ status' = [status EXCEPT ![r] = "live"]
  /\ moved' = [moved EXCEPT ![r] = {}]

\* Some bytes are moved, and more are left.
Transfer(r, m, n) ==
  /\ status[r] = "live"
  /\ m < n /\ n < ReqLen[r]
  /\ moved[r] = Prefix(r, m)
  /\ moved' = [moved EXCEPT ![r] = Prefix(r, n)]
  /\ UNCHANGED status

\* The last bytes are moved and the request is committed.
Commit(r, m) ==
  /\ status[r] = "live"
  /\ m < ReqLen[r]
  /\ moved[r] = Prefix(r, m)
  /\ moved' = [moved EXCEPT ![r] = Prefix(r, ReqLen[r])]
  /\ status' = [status EXCEPT ![r] = "committed"]

Next ==
  \E r \in Reqs :
    \/ Submit(r)
    \/ \E m \in 0..(ReqLen[r] - 1) :
         \/ \E n \in 1..(ReqLen[r] - 1) : Transfer(r, m, n)
         \/ Commit(r, m)

Spec == Init /\ [][Next]_vars
=============================================================================
