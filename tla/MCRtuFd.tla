------------------------------ MODULE MCRtuFd ------------------------------
(* Instances of RtuFd for TLC.                                             *)
EXTENDS RtuFd

CONSTANTS m1, m2, m3, h1, h2

\* A station with a row of its own.
HashAlone == [k \in {m1} \X {0} |-> h1]

\* All stations share one row.
HashShared == [k \in {m1, m2, m3} \X {0} |-> h1]

\* A static entry that sends to the CPU and to all ports.
OneStatic == <<[mac |-> m1, mask |-> 0 .. NPorts]>>
NoStatic == <<>>
CpuMask == {{NPorts}}
=============================================================================
