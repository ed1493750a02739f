---------------------------- MODULE MCSyncTimer ----------------------------
(* Instances of SyncTimer: r1 and r2 share a key, r1 is answered twice, r2 *)
(* and r3 once.                                                            *)
EXTENDS SyncTimer

CONSTANTS r1, r2, r3, k1, k2, x1, x2, x3, x4

MCKeyOf == [r \in {r1, r2, r3} |-> IF r = r3 THEN k2 ELSE k1]
MCReplyTo == [x \in {x1, x2, x3, x4} |->
                IF x \in {x1, x2} THEN r1 ELSE IF x = x3 THEN r2 ELSE r3]
=============================================================================
