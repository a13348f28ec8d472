------------------------------ MODULE Checksum ------------------------------
(***************************************************************************)
(* The checksum the model-checking runs give for Crc: like zlib.crc32 it   *)
(* depends on every byte and its place, on the packets of the runs no two  *)
(* have the same one, and its bytes are ASCII, so that the checksum of a   *)
(* torn packet reads as text.                                              *)
(***************************************************************************)
EXTENDS Integers, Sequences

ToyCrc(bytes) ==
    LET sum[i \in 0..Len(bytes)] ==
          IF i = 0 THEN 1 ELSE (sum[i - 1] * 31 + bytes[i] + 1) % 65521
        h == sum[Len(bytes)]
    IN  <<42, h \div 4096, (h \div 64) % 64, h % 64>>
=============================================================================
