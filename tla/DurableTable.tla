---------------------------- MODULE DurableTable ----------------------------
(***************************************************************************)
(* What a registry promises: a table on disk with a copy in memory that is *)
(* what everybody reads.  A change is written first and copied after; the  *)
(* copy is never ahead of the disk, and a restart starts from the disk.    *)
(***************************************************************************)
CONSTANTS Keys,     \* the keys of the table
          Rows,     \* what a key may hold
          NoRow     \* what it holds when it is not there

VARIABLES disk,     \* the table
          copy,     \* the copy in memory
          behind    \* the keys written since they were copied

tableVars == <<disk, copy, behind>>

TableInit == /\ disk \in [Keys -> Rows \cup {NoRow}]
             /\ copy = disk
             /\ behind = {}

Write(k) == /\ \E v \in Rows \cup {NoRow} : disk' = [disk EXCEPT ![k] = v]
            /\ behind' = behind \cup {k}
            /\ UNCHANGED copy

(* Other changes of the row may still be on their way.                     *)
CopyRow(k) == /\ copy' = [copy EXCEPT ![k] = disk[k]]
              /\ behind' \in {behind, behind \ {k}}
              /\ UNCHANGED disk

(* Written and copied before anybody looks.                                *)
WriteThrough(k) == \E v \in Rows \cup {NoRow} :
                      /\ disk' = [disk EXCEPT ![k] = v]
                      /\ copy' = [copy EXCEPT ![k] = v]
                      /\ behind' \in {behind, behind \ {k}}

Restart == /\ copy' = disk
           /\ behind' = {}
           /\ UNCHANGED disk

TableNext == \/ Restart
             \/ \E k \in Keys : Write(k) \/ CopyRow(k) \/ WriteThrough(k)

TableSpec == TableInit /\ [][TableNext]_tableVars

-----------------------------------------------------------------------------
(* The copy differs from the disk only where a change is being copied.     *)
CopyIsDisk == \A k \in Keys : k \notin behind => copy[k] = disk[k]
=============================================================================
