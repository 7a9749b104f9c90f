-------------------------- MODULE MCSharedResource --------------------------
(* Instances of SharedResource for TLC: three index threads, so that one   *)
(* can borrow while another releases and a third waits.                    *)
EXTENDS SharedResource

CONSTANTS t1, t2, t3
MCBorrowers == {t1, t2, t3}
MCForeignRelease == {"freed", "stuck"}
=============================================================================
