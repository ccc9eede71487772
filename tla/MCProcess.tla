----------------------------- MODULE MCProcess -----------------------------
(* Model values for checking Process with TLC.                             *)
EXTENDS Process

(* Four processes: init, two of its children and a grandchild, enough for *)
(* a sibling to exit while another dies, and for a dying parent to have a *)
(* child that is adopted by init.                                           *)
MCMaxProcs == 4

(* Three processes for liveness: init and two children, enough for one     *)
(* child to exit while init waits for the other by PID.                    *)
MCMaxProcsLiveness == 3

(* One non-zero exit value tells a stale retv (0) from the real one.       *)
MCExitValues == {7}
=============================================================================
